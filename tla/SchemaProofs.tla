---------------------------- MODULE SchemaProofs ----------------------------
(***************************************************************************)
(* Theorems about SchemaStart, for any database the first start may meet,  *)
(* not only the releases: each table in any released shape, full or empty, *)
(* and any marks its validators vouch for.                                 *)
(***************************************************************************)
EXTENDS SchemaStart, TLAPS

Renamed == {"reviews", "queue", "notes", "journal"}

\* What the claims rest on, and what the migrations have made of them.
Claims(d) ==
    /\ "scope" \in d.marks => d.shape["analyses"] # "bare"
    /\ "scope" \in d.marks \ origin.marks => d.rows["opportunities"] = "none"
    /\ "scope" \notin d.marks /\ d.rows["opportunities"] # "none" => d.rows["analyses"] = "claimed"
    /\ "phase_a" \in d.marks \ origin.marks => d.rows["opportunities"] # "here"
    /\ "sealing" \notin origin.marks => d.rows["analyses"] # "sealed"

\* What holds of whatever the connection sees, at every statement.
Rest(d) ==
    /\ WellFormed(d) /\ origin.marks \subseteq d.marks
    /\ \A t \in Table : d.shape[t] \in {"none", "torn"} => d.rows[t] = "none"
    /\ \A t \in Histories : origin.rows[t] = "here" => "here" \in {d.rows[t], d.aside[t]}
    /\ \A t \in Table \ Renamed : d.aside[t] = "no"
    /\ d.aside["reviews"] # "no" => d.shape["reviews"] \notin {"plain", "old"}
    /\ d.shape["content"] = "old" => origin.shape["content"] = "old"
    /\ d.rows["content"] # "none" => origin.rows["content"] = "here"
    /\ d.shape["reviews"] = "old" => d.shape["content"] = "old"
    /\ "here" \in {d.rows["reviews"], d.aside["reviews"]} => d.rows["content"] = "here"
    /\ d.shape["queue"] \in {"base", "part", "widened"} => origin.shape["queue"] = "base"
    /\ d.shape["notes"] = "weak" => origin.shape["notes"] = "weak" /\ d.rows["notes"] = origin.rows["notes"]
    /\ d.shape["journal"] = "v1" => "journal_v1" \in d.marks
    /\ Claims(d)

\* Marks that a start reads and whose validator accepts the tables.
Unread     == {"content", "journal_v1", "scope", "binding"}
Vouched(d) == \A m \in d.marks \ Unread : Valid(m, d)

\* Snapshot tables that no mark vouches for are empty.
NewSnapshots(d) == "snapshot" \notin d.marks => d.rows["snapshots"] = "none"

\* What holds of the disk, outside of transactions.
Settled(d) ==
    /\ d.aside["queue"] = "no" /\ NewSnapshots(d)
    /\ "journal_v1" \in d.marks /\ "journal" \notin d.marks =>
           d.shape["journal"] \in {"v1", "unguarded"} \/ d.aside["journal"] # "no"
    /\ Vouched(d) \/ Torn(d) \/ Manual(origin)

\* Only a crash leaves a table torn or reviews aside.
Calm(d) == /\ d.aside["reviews"] # "no" => crashed
           /\ Torn(d) => crashed \/ Manual(origin)

\* A binding that the start found is as it was, until the snapshots supersede it.
Frozen(v) == BindingMarks \subseteq seen /\ "snapshot" \notin v.marks /\ ~begun =>
                 v.shape["facts"] = "bound"

\* What is known when the i-th migration has ended.
Known(i, v) ==
    /\ i >= 1  => \A t \in Table \ {"facts"} : v.shape[t] # "none"
    /\ i >= 3  => "scope" \in v.marks
    /\ i >= 4  => v.shape["reviews"] # "plain"
    /\ i >= 5  => ContentValid(v)
    /\ i >= 7  => v.shape["queue"] \in {"base", "identified", "token"}
    /\ i >= 8  => v.shape["queue"] \in {"identified", "token"}
    /\ i >= 11 => NoteEvidenceValid(v)
    /\ i >= 12 => NoteIdentityValid(v)
    /\ i >= 13 => NoteCanonicalValid(v)
    /\ i < 14  => ("journal" \in v.marks => "journal" \in seen)
    /\ i < 16  => ("snapshot" \in v.marks => "snapshot" \in seen)
    /\ i >= 17 => v.rows["analyses"] # "claimed"
    /\ i >= 18 => "phase_a" \in v.marks

Good(v) == /\ Rest(v) /\ Settled(v) /\ Vouched(v) /\ Calm(v) /\ NoLeftovers(v)
           /\ seen \subseteq v.marks /\ Frozen(v)

Between(i, v) == Good(v) /\ Known(i, v)

-----------------------------------------------------------------------------
(***************************************************************************)
(* A script is sound if every statement it comes to leaves the disk        *)
(* settled and passes, or fails with an excuse, and if what it ends with   *)
(* is as the next migration takes it to be.  A configuration is the disk,  *)
(* the view and whether a transaction is open; todo and configuration step *)
(* through a set of pairs that all satisfy what a single step needs.       *)
(***************************************************************************)
After(s, c) ==
    LET new == Effect(s, c.view) op == s.do # "commit" /\ (c.open \/ WritesRows(s))
    IN  [disk |-> IF op THEN c.disk ELSE new, view |-> new, open |-> op]

Excused(c) == Calm(c.disk) /\ (Manual(origin) \/ (crashed /\ Torn(c.disk)))

Fine(c) == /\ Rest(c.view) /\ Rest(c.disk) /\ Settled(c.disk) /\ c.open \in BOOLEAN
           /\ ~c.open => c.view = c.disk

Step(q, c, i, X) ==
    /\ Fine(c)
    /\ q = None => Between(i, c.view)
    /\ q # None /\ Fails(Head(q), c.view) => Excused(c)
    /\ q # None /\ ~Fails(Head(q), c.view) => <<Tail(q), After(Head(q), c)>> \in X

Sound(q, c, i) == \E X : <<q, c>> \in X /\ \A p \in X : Step(p[1], p[2], i, X)

LEMMA SoundNone ==
    ASSUME NEW c, NEW i, Fine(c), Between(i, c.view)
    PROVE  Sound(None, c, i)
<1> DEFINE X == {<<None, c>>}
<1>1. <<None, c>> \in X /\ \A p \in X : Step(p[1], p[2], i, X)
  BY DEF Step
<1> QED
  BY <1>1 DEF Sound

LEMMA SoundThen ==
    ASSUME NEW q, q # None, NEW c, NEW i, Fine(c),
           Fails(Head(q), c.view) => Excused(c),
           ~Fails(Head(q), c.view) => Sound(Tail(q), After(Head(q), c), i)
    PROVE  Sound(q, c, i)
<1>1. CASE Fails(Head(q), c.view)
  <2> DEFINE X == {<<q, c>>}
  <2>1. <<q, c>> \in X /\ \A p \in X : Step(p[1], p[2], i, X)
    BY <1>1 DEF Step
  <2> QED
    BY <2>1 DEF Sound
<1>2. CASE ~Fails(Head(q), c.view)
  <2>1. PICK Y : /\ <<Tail(q), After(Head(q), c)>> \in Y
                 /\ \A p \in Y : Step(p[1], p[2], i, Y)
    BY <1>2 DEF Sound
  <2> DEFINE X == Y \union {<<q, c>>}
  <2>2. \A p \in Y : Step(p[1], p[2], i, X)
    BY <2>1 DEF Step
  <2>3. Step(q, c, i, X)
    BY <1>2, <2>1 DEF Step
  <2>4. <<q, c>> \in X /\ \A p \in X : Step(p[1], p[2], i, X)
    BY <2>2, <2>3
  <2> QED
    BY <2>4 DEF Sound
<1> QED
  BY <1>1, <1>2

LEMMA SoundStep ==
    ASSUME NEW q, NEW c, NEW i, Sound(q, c, i)
    PROVE  /\ Fine(c)
           /\ q = None => Between(i, c.view)
           /\ q # None /\ Fails(Head(q), c.view) => Excused(c)
           /\ q # None /\ ~Fails(Head(q), c.view) => Sound(Tail(q), After(Head(q), c), i)
<1>1. PICK X : <<q, c>> \in X /\ \A p \in X : Step(p[1], p[2], i, X)
  BY DEF Sound
<1>2. Step(q, c, i, X)
  BY <1>1
<1>3. q # None /\ ~Fails(Head(q), c.view) => Sound(Tail(q), After(Head(q), c), i)
  BY <1>1, <1>2 DEF Step, Sound
<1> QED
  BY <1>2, <1>3 DEF Step
-----------------------------------------------------------------------------
\* Sequences of statements.
LEMMA ThenMore ==
    ASSUME NEW S, NEW p \in Seq(S), NEW q \in Seq(S), p # None
    PROVE  p \o q # None /\ Head(p \o q) = Head(p) /\ Tail(p \o q) = Tail(p) \o q
<1> DEFINE r == p \o q
<1>1. r \in Seq(S) /\ Len(r) = Len(p) + Len(q) /\ Len(p) > 0
  BY DEF None
<1>2. r # None /\ Head(r) = Head(p)
  BY <1>1 DEF None
<1>3. Tail(p) \in Seq(S) /\ Len(Tail(p)) = Len(p) - 1 /\ \A k \in 1..(Len(p) - 1) : Tail(p)[k] = p[k + 1]
  BY <1>1, p # None DEF None
<1>4. Tail(r) \in Seq(S) /\ Len(Tail(r)) = Len(r) - 1 /\ \A k \in 1..(Len(r) - 1) : Tail(r)[k] = r[k + 1]
  BY <1>1, <1>2 DEF None
<1>5. Tail(r) = Tail(p) \o q
  <2>1. Len(Tail(p) \o q) = Len(r) - 1 /\ Tail(p) \o q \in Seq(S)
    BY <1>1, <1>3
  <2>2. ASSUME NEW k \in 1..(Len(r) - 1)
        PROVE  Tail(r)[k] = (Tail(p) \o q)[k]
    BY <1>1, <1>3, <1>4
  <2> QED
    BY <1>4, <2>1, <2>2
<1> QED
  BY <1>2, <1>5

LEMMA NoneFirst ==
    ASSUME NEW S, NEW q \in Seq(S)
    PROVE  None \o q = q /\ q \o None = q /\ None \in Seq(S)
BY DEF None

LEMMA Tuples ==
    ASSUME NEW a, NEW b, NEW c, NEW d, NEW e, NEW f, NEW g
    PROVE  /\ <<a>> # None /\ Head(<<a>>) = a /\ Tail(<<a>>) = None
           /\ <<a, b>> # None /\ Head(<<a, b>>) = a /\ Tail(<<a, b>>) = <<b>>
           /\ <<a, b, c>> # None /\ Head(<<a, b, c>>) = a /\ Tail(<<a, b, c>>) = <<b, c>>
           /\ <<a, b, c, d>> # None /\ Head(<<a, b, c, d>>) = a /\ Tail(<<a, b, c, d>>) = <<b, c, d>>
BY DEF None
-----------------------------------------------------------------------------
\* What the statements do.
Database == [shape : [Table -> UNION {Forms[t] : t \in Table}], rows : [Table -> Rows],
             aside : [Table -> Rows \union {"no"}], marks : SUBSET Marks]

LEMMA Tabular ==
    /\ Table = {"artifacts", "analyses", "opportunities", "content", "reviews", "queue",
                "notes", "snapshots", "facts", "journal", "media"}
    /\ Renamed \subseteq Histories /\ Histories \subseteq Table
BY DEF Table, Forms, Renamed, Histories

LEMMA FormOf ==
    /\ Forms["artifacts"] = {"none", "plain", "produced"}
    /\ Forms["analyses"] = {"none", "bare", "scoped", "sealed"}
    /\ Forms["opportunities"] = {"none", "plain", "part", "graded"}
    /\ Forms["content"] = {"none", "old", "whole"}
    /\ Forms["reviews"] = {"none", "torn", "old", "plain", "audited"}
    /\ Forms["queue"] = {"none", "torn", "base", "part", "widened", "identified", "tokened", "token"}
    /\ Forms["notes"] = {"none", "torn", "unguarded", "weak", "evidence", "permanent", "canonical",
                         "versioned"}
    /\ Forms["snapshots"] = {"none", "whole"} /\ Forms["facts"] = {"none", "bound", "sealed"}
    /\ Forms["journal"] = {"none", "torn", "unguarded", "v1", "v2"}
    /\ Forms["media"] = {"none", "torn", "whole"}
BY DEF Forms

LEMMA CurrentIs ==
    /\ Current["artifacts"] = "produced" /\ Current["analyses"] = "sealed"
    /\ Current["opportunities"] = "graded" /\ Current["content"] = "whole"
    /\ Current["reviews"] = "audited" /\ Current["queue"] = "token"
    /\ Current["notes"] = "versioned" /\ Current["snapshots"] = "whole"
    /\ Current["facts"] = "sealed"
    /\ Current["journal"] = "v2" /\ Current["media"] = "whole"
    /\ \A t \in Table : Current[t] \in Forms[t] \ {"none", "torn"}
BY Tabular, FormOf DEF Current

\* From d to e, table t gets shape x, rows r and renamed rows a.
Changed(d, e, t, x, r, a) ==
    /\ e \in Database /\ e.marks = d.marks
    /\ e.shape[t] = x /\ e.rows[t] = r /\ e.aside[t] = a
    /\ \A u \in Table \ {t} :
          e.shape[u] = d.shape[u] /\ e.rows[u] = d.rows[u] /\ e.aside[u] = d.aside[u]

LEMMA NoneIn == "none" \in Rows /\ \A t \in Table : "none" \in Forms[t]
BY Tabular, FormOf DEF Rows

LEMMA Untouched ==
    ASSUME NEW d \in Database, NEW t \in Table
    PROVE  /\ d.rows = [d.rows EXCEPT ![t] = d.rows[t]] /\ d.rows[t] \in Rows
           /\ d.aside = [d.aside EXCEPT ![t] = d.aside[t]] /\ d.aside[t] \in Rows \union {"no"}
           /\ d.shape = [d.shape EXCEPT ![t] = d.shape[t]]
BY DEF Database

\* What an EXCEPT on one table leaves.
Rewrites(d, e, t, x, r, a) ==
    /\ e = [shape |-> e.shape, rows |-> e.rows, aside |-> e.aside, marks |-> e.marks]
    /\ e.shape = [d.shape EXCEPT ![t] = x] /\ e.rows = [d.rows EXCEPT ![t] = r]
    /\ e.aside = [d.aside EXCEPT ![t] = a] /\ e.marks = d.marks

LEMMA Rewritten ==
    ASSUME NEW d \in Database, NEW t \in Table, NEW x \in Forms[t], NEW r \in Rows,
           NEW a \in Rows \union {"no"}, NEW e, Rewrites(d, e, t, x, r, a)
    PROVE  Changed(d, e, t, x, r, a)
<1> USE DEF Rewrites
<1>1. /\ d.shape \in [Table -> UNION {Forms[u] : u \in Table}] /\ d.rows \in [Table -> Rows]
      /\ d.aside \in [Table -> Rows \union {"no"}] /\ d.marks \in SUBSET Marks
  BY DEF Database
<1>2. x \in UNION {Forms[u] : u \in Table}
  OBVIOUS
<1>3. /\ e.shape \in [Table -> UNION {Forms[u] : u \in Table}] /\ e.rows \in [Table -> Rows]
      /\ e.aside \in [Table -> Rows \union {"no"}] /\ e.marks \in SUBSET Marks
  BY <1>1, <1>2
<1>4. e \in Database
  BY <1>3 DEF Database
<1> QED
  BY <1>1, <1>4 DEF Changed

LEMMA CreateIs ==
    ASSUME NEW d \in Database, NEW t \in Table, NEW x \in Forms[t]
    PROVE  Changed(d, Effect(Create(t, x), d), t, x, "none", d.aside[t])
<1> DEFINE e == Effect(Create(t, x), d)
<1>1. e = [[d EXCEPT !.shape[t] = x] EXCEPT !.rows[t] = "none"]
  BY DEF Effect, Create, Stmt
<1>2. /\ e.shape = [d.shape EXCEPT ![t] = x] /\ e.rows = [d.rows EXCEPT ![t] = "none"]
      /\ e.aside = d.aside /\ e.marks = d.marks
  BY <1>1 DEF Database
<1>3. e = [shape |-> e.shape, rows |-> e.rows, aside |-> e.aside, marks |-> e.marks]
  BY <1>1 DEF Database
<1>4. x \in Forms[t] /\ "none" \in Rows /\ d.aside[t] \in Rows \union {"no"}
  BY Untouched, NoneIn
<1>5. /\ e.shape = [d.shape EXCEPT ![t] = x] /\ e.rows = [d.rows EXCEPT ![t] = "none"]
      /\ e.aside = [d.aside EXCEPT ![t] = d.aside[t]]
  BY <1>2, Untouched
<1>6. Rewrites(d, e, t, x, "none", d.aside[t])
  BY <1>2, <1>3, <1>5 DEF Rewrites
<1> QED
  BY <1>4, <1>6, Rewritten

LEMMA AlterIs ==
    ASSUME NEW d \in Database, NEW t \in Table, NEW x \in Forms[t]
    PROVE  Changed(d, Effect(Alter(t, x), d), t, x, d.rows[t], d.aside[t])
<1> DEFINE e == Effect(Alter(t, x), d)
<1>1. e = [d EXCEPT !.shape[t] = x]
  BY DEF Effect, Alter, Stmt
<1>2. /\ e.shape = [d.shape EXCEPT ![t] = x] /\ e.rows = d.rows
      /\ e.aside = d.aside /\ e.marks = d.marks
  BY <1>1 DEF Database
<1>3. e = [shape |-> e.shape, rows |-> e.rows, aside |-> e.aside, marks |-> e.marks]
  BY <1>1 DEF Database
<1>4. x \in Forms[t] /\ d.rows[t] \in Rows /\ d.aside[t] \in Rows \union {"no"}
  BY Untouched, NoneIn
<1>5. /\ e.shape = [d.shape EXCEPT ![t] = x] /\ e.rows = [d.rows EXCEPT ![t] = d.rows[t]]
      /\ e.aside = [d.aside EXCEPT ![t] = d.aside[t]]
  BY <1>2, Untouched
<1>6. Rewrites(d, e, t, x, d.rows[t], d.aside[t])
  BY <1>2, <1>3, <1>5 DEF Rewrites
<1> QED
  BY <1>4, <1>6, Rewritten

LEMMA DropIs ==
    ASSUME NEW d \in Database, NEW t \in Table
    PROVE  Changed(d, Effect(Drop(t), d), t, "none", "none", d.aside[t])
<1> DEFINE e == Effect(Drop(t), d)
<1>1. e = [[d EXCEPT !.shape[t] = "none"] EXCEPT !.rows[t] = "none"]
  BY DEF Effect, Drop, Stmt
<1>2. /\ e.shape = [d.shape EXCEPT ![t] = "none"] /\ e.rows = [d.rows EXCEPT ![t] = "none"]
      /\ e.aside = d.aside /\ e.marks = d.marks
  BY <1>1 DEF Database
<1>3. e = [shape |-> e.shape, rows |-> e.rows, aside |-> e.aside, marks |-> e.marks]
  BY <1>1 DEF Database
<1>4. "none" \in Forms[t] /\ "none" \in Rows /\ d.aside[t] \in Rows \union {"no"}
  BY Untouched, NoneIn
<1>5. /\ e.shape = [d.shape EXCEPT ![t] = "none"] /\ e.rows = [d.rows EXCEPT ![t] = "none"]
      /\ e.aside = [d.aside EXCEPT ![t] = d.aside[t]]
  BY <1>2, Untouched
<1>6. Rewrites(d, e, t, "none", "none", d.aside[t])
  BY <1>2, <1>3, <1>5 DEF Rewrites
<1> QED
  BY <1>4, <1>6, Rewritten

LEMMA AsideIs ==
    ASSUME NEW d \in Database, NEW t \in Table
    PROVE  Changed(d, Effect(Aside(t), d), t, "none", "none", d.rows[t])
<1> DEFINE e == Effect(Aside(t), d)
<1>1. e = [[[d EXCEPT !.aside[t] = d.rows[t]] EXCEPT !.shape[t] = "none"] EXCEPT !.rows[t] = "none"]
  BY DEF Effect, Aside, Stmt
<1>2. /\ e.shape = [d.shape EXCEPT ![t] = "none"] /\ e.rows = [d.rows EXCEPT ![t] = "none"]
      /\ e.aside = [d.aside EXCEPT ![t] = d.rows[t]] /\ e.marks = d.marks
  BY <1>1 DEF Database
<1>3. e = [shape |-> e.shape, rows |-> e.rows, aside |-> e.aside, marks |-> e.marks]
  BY <1>1 DEF Database
<1>4. "none" \in Forms[t] /\ "none" \in Rows /\ d.rows[t] \in Rows \union {"no"}
  BY Untouched, NoneIn
<1>5. /\ e.shape = [d.shape EXCEPT ![t] = "none"] /\ e.rows = [d.rows EXCEPT ![t] = "none"]
      /\ e.aside = [d.aside EXCEPT ![t] = d.rows[t]]
  BY <1>2, Untouched
<1>6. Rewrites(d, e, t, "none", "none", d.rows[t])
  BY <1>2, <1>3, <1>5 DEF Rewrites
<1> QED
  BY <1>4, <1>6, Rewritten

LEMMA CopyIs ==
    ASSUME NEW d \in Database, NEW t \in Table, d.shape[t] \in Forms[t], d.aside[t] # "no"
    PROVE  Changed(d, Effect(Copy(t), d), t, d.shape[t], d.aside[t], d.aside[t])
<1> DEFINE e == Effect(Copy(t), d)
<1>1. e = [d EXCEPT !.rows[t] = d.aside[t]]
  BY DEF Effect, Copy, Stmt
<1>2. /\ e.shape = d.shape /\ e.rows = [d.rows EXCEPT ![t] = d.aside[t]]
      /\ e.aside = d.aside /\ e.marks = d.marks
  BY <1>1 DEF Database
<1>3. e = [shape |-> e.shape, rows |-> e.rows, aside |-> e.aside, marks |-> e.marks]
  BY <1>1 DEF Database
<1>4. d.shape[t] \in Forms[t] /\ d.aside[t] \in Rows /\ d.aside[t] \in Rows \union {"no"}
  BY Untouched, NoneIn
<1>5. /\ e.shape = [d.shape EXCEPT ![t] = d.shape[t]] /\ e.rows = [d.rows EXCEPT ![t] = d.aside[t]]
      /\ e.aside = [d.aside EXCEPT ![t] = d.aside[t]]
  BY <1>2, Untouched
<1>6. Rewrites(d, e, t, d.shape[t], d.aside[t], d.aside[t])
  BY <1>2, <1>3, <1>5 DEF Rewrites
<1> QED
  BY <1>4, <1>6, Rewritten

LEMMA ForgetIs ==
    ASSUME NEW d \in Database, NEW t \in Table, d.shape[t] \in Forms[t]
    PROVE  Changed(d, Effect(Forget(t), d), t, d.shape[t], d.rows[t], "no")
<1> DEFINE e == Effect(Forget(t), d)
<1>1. e = [d EXCEPT !.aside[t] = "no"]
  BY DEF Effect, Forget, Stmt
<1>2. /\ e.shape = d.shape /\ e.rows = d.rows
      /\ e.aside = [d.aside EXCEPT ![t] = "no"] /\ e.marks = d.marks
  BY <1>1 DEF Database
<1>3. e = [shape |-> e.shape, rows |-> e.rows, aside |-> e.aside, marks |-> e.marks]
  BY <1>1 DEF Database
<1>4. d.shape[t] \in Forms[t] /\ d.rows[t] \in Rows /\ "no" \in Rows \union {"no"}
  BY Untouched, NoneIn
<1>5. /\ e.shape = [d.shape EXCEPT ![t] = d.shape[t]] /\ e.rows = [d.rows EXCEPT ![t] = d.rows[t]]
      /\ e.aside = [d.aside EXCEPT ![t] = "no"]
  BY <1>2, Untouched
<1>6. Rewrites(d, e, t, d.shape[t], d.rows[t], "no")
  BY <1>2, <1>3, <1>5 DEF Rewrites
<1> QED
  BY <1>4, <1>6, Rewritten

LEMMA PutIs ==
    ASSUME NEW d \in Database, NEW t \in Table, d.shape[t] \in Forms[t], NEW r \in Rows
    PROVE  Changed(d, Effect(Put(t, r), d), t, d.shape[t], r, d.aside[t])
<1> DEFINE e == Effect(Put(t, r), d)
<1>1. e = [d EXCEPT !.rows[t] = r]
  BY DEF Effect, Put, Stmt
<1>2. /\ e.shape = d.shape /\ e.rows = [d.rows EXCEPT ![t] = r]
      /\ e.aside = d.aside /\ e.marks = d.marks
  BY <1>1 DEF Database
<1>3. e = [shape |-> e.shape, rows |-> e.rows, aside |-> e.aside, marks |-> e.marks]
  BY <1>1 DEF Database
<1>4. d.shape[t] \in Forms[t] /\ r \in Rows /\ d.aside[t] \in Rows \union {"no"}
  BY Untouched, NoneIn
<1>5. /\ e.shape = [d.shape EXCEPT ![t] = d.shape[t]] /\ e.rows = [d.rows EXCEPT ![t] = r]
      /\ e.aside = [d.aside EXCEPT ![t] = d.aside[t]]
  BY <1>2, Untouched
<1>6. Rewrites(d, e, t, d.shape[t], r, d.aside[t])
  BY <1>2, <1>3, <1>5 DEF Rewrites
<1> QED
  BY <1>4, <1>6, Rewritten

LEMMA MarkIs ==
    ASSUME NEW d \in Database, NEW m \in Marks
    PROVE  LET e == Effect(Mark(m), d)
           IN  /\ e \in Database /\ e.marks = d.marks \union {m}
               /\ e.shape = d.shape /\ e.rows = d.rows /\ e.aside = d.aside
BY DEF Effect, Mark, Stmt, Database

LEMMA OthersAre ==
    ASSUME NEW d, NEW m
    PROVE  Effect(Check(m), d) = d /\ Effect(Commit, d) = d /\ Effect(Refuse, d) = d
BY DEF Effect, Check, Commit, Refuse, Stmt
-----------------------------------------------------------------------------
\* Changes of one table that lose no history and forge no claim.
Harmless(d, t, x, r, a) ==
    /\ x \in Forms[t] /\ (x \in {"none", "torn"} => r = "none")
    /\ t \in Histories => /\ r \in {"none", "here"} /\ a \in {"no", "none", "here"}
                          /\ "here" \in {d.rows[t], d.aside[t]} => "here" \in {r, a}
    /\ t \notin Renamed => a = "no"
    /\ t = "reviews" => /\ a # "no" => x \notin {"plain", "old"}
                        /\ x = "old" => d.shape[t] = "old"
                        /\ "here" \in {r, a} => "here" \in {d.rows[t], d.aside[t]}
    /\ t = "content" => /\ x = "old" => d.shape[t] = "old"
                        /\ d.shape["reviews"] = "old" => x = "old"
                        /\ r = d.rows[t]
    /\ t = "queue" /\ x \in {"base", "part", "widened"} => origin.shape[t] = "base"
    /\ t = "notes" /\ x = "weak" => d.shape[t] = "weak" /\ r = d.rows[t]
    /\ t = "journal" /\ x = "v1" => d.shape[t] = "v1"
    /\ t = "analyses" => /\ "scope" \in d.marks => x # "bare"
                         /\ "scope" \notin d.marks /\ d.rows["opportunities"] # "none" => r = "claimed"
                         /\ r = "sealed" => d.rows[t] = "sealed"
    /\ t = "opportunities" /\ r # "none" => /\ d.rows[t] # "none"
                                            /\ r = "here" => d.rows[t] = "here"

LEMMA RestChanged ==
    ASSUME NEW d, Rest(d), NEW t \in Table, NEW e, NEW x, NEW r, NEW a,
           Changed(d, e, t, x, r, a), Harmless(d, t, x, r, a)
    PROVE  Rest(e)
<1> DEFINE same(u) == e.shape[u] = d.shape[u] /\ e.rows[u] = d.rows[u] /\ e.aside[u] = d.aside[u]
<1>1. /\ e \in Database /\ e.marks = d.marks /\ \A u \in Table \ {t} : same(u)
      /\ e.shape[t] = x /\ e.rows[t] = r /\ e.aside[t] = a
  BY DEF Changed
<1>2. WellFormed(e)
  <2>1. WellFormed(d)
    BY DEF Rest
  <2>2. \A u \in Table : e.shape[u] \in Forms[u]
    BY <1>1, <2>1 DEF WellFormed, Harmless
  <2>3. \A u \in Histories : e.rows[u] \in {"none", "here"} /\ e.aside[u] \in {"no", "none", "here"}
    BY <1>1, <2>1, Tabular DEF WellFormed, Harmless
  <2> QED
    BY <1>1, <2>2, <2>3 DEF WellFormed, Database
<1>3. /\ \A u \in Table : e.shape[u] \in {"none", "torn"} => e.rows[u] = "none"
      /\ \A u \in Histories : origin.rows[u] = "here" => "here" \in {e.rows[u], e.aside[u]}
      /\ \A u \in Table \ Renamed : e.aside[u] = "no"
  BY <1>1, Tabular DEF Rest, Harmless
<1>4. /\ e.aside["reviews"] # "no" => e.shape["reviews"] \notin {"plain", "old"}
      /\ e.shape["content"] = "old" => origin.shape["content"] = "old"
      /\ e.rows["content"] # "none" => origin.rows["content"] = "here"
      /\ e.shape["reviews"] = "old" => e.shape["content"] = "old"
      /\ "here" \in {e.rows["reviews"], e.aside["reviews"]} => e.rows["content"] = "here"
  <2>1. CASE t = "reviews"
    <3>1. same("content")
      BY <1>1, <2>1, Tabular
    <3> QED
      BY <1>1, <2>1, <3>1 DEF Rest, Harmless
  <2>2. CASE t = "content"
    <3>1. same("reviews")
      BY <1>1, <2>2, Tabular
    <3> QED
      BY <1>1, <2>2, <3>1 DEF Rest, Harmless
  <2>3. CASE t \notin {"reviews", "content"}
    <3>1. same("reviews") /\ same("content")
      BY <1>1, <2>3, Tabular
    <3> QED
      BY <3>1 DEF Rest
  <2> QED
    BY <2>1, <2>2, <2>3
<1>5. /\ e.shape["queue"] \in {"base", "part", "widened"} => origin.shape["queue"] = "base"
      /\ e.shape["notes"] = "weak" => origin.shape["notes"] = "weak" /\ e.rows["notes"] = origin.rows["notes"]
      /\ e.shape["journal"] = "v1" => "journal_v1" \in e.marks
  <2>1. e.shape["queue"] \in {"base", "part", "widened"} => origin.shape["queue"] = "base"
    BY <1>1, Tabular DEF Rest, Harmless
  <2>2. e.shape["notes"] = "weak" => origin.shape["notes"] = "weak" /\ e.rows["notes"] = origin.rows["notes"]
    BY <1>1, Tabular DEF Rest, Harmless
  <2>3. e.shape["journal"] = "v1" => "journal_v1" \in e.marks
    BY <1>1, Tabular DEF Rest, Harmless
  <2> QED
    BY <2>1, <2>2, <2>3
<1>6. Claims(e)
  <2>1. Claims(d) /\ e.marks = d.marks
    BY <1>1 DEF Rest
  <2>2. CASE t = "analyses"
    <3>1. same("opportunities")
      BY <1>1, <2>2, Tabular
    <3> QED
      BY <1>1, <2>1, <2>2, <3>1 DEF Claims, Harmless
  <2>3. CASE t = "opportunities"
    <3>1. same("analyses")
      BY <1>1, <2>3, Tabular
    <3> QED
      BY <1>1, <2>1, <2>3, <3>1 DEF Claims, Harmless
  <2>4. CASE t \notin {"analyses", "opportunities"}
    <3>1. same("analyses") /\ same("opportunities")
      BY <1>1, <2>4, Tabular
    <3> QED
      BY <2>1, <3>1 DEF Claims
  <2> QED
    BY <2>2, <2>3, <2>4
<1> QED
  BY <1>1, <1>2, <1>3, <1>4, <1>5, <1>6 DEF Rest

-----------------------------------------------------------------------------
\* The tables a mark speaks of.
Of(m) ==
    CASE m = "audit" -> {"reviews"}
      [] m \in {"quarantine", "identity", "token"} -> {"queue"}
      [] m \in {"evidence", "note_ids", "canonical"} -> {"notes"}
      [] m = "journal" -> {"journal"}
      [] m = "snapshot" -> {"notes", "snapshots", "facts"}
      [] m = "sealing" -> {"analyses"}
      [] m = "media" -> {"media"}
      [] m = "phase_a" -> {"opportunities"}
      [] OTHER -> {}

Agree(d, e, t) == e.shape[t] = d.shape[t] /\ e.rows[t] = d.rows[t] /\ e.aside[t] = d.aside[t]

LEMMA SameValid ==
    ASSUME NEW d, NEW e, NEW m \in Marks \ Unread, \A t \in Of(m) : Agree(d, e, t),
           m = "quarantine" => \A k \in {"identity", "token"} : k \in d.marks <=> k \in e.marks
    PROVE  Valid(m, d) => Valid(m, e)
<1>1. CASE m = "audit"
  BY <1>1 DEF Of, Agree, Valid, ReviewAuditValid
<1>2. CASE m \in {"quarantine", "identity", "token"}
  <2>1. d.shape["queue"] = e.shape["queue"]
    BY <1>2 DEF Of, Agree
  <2> QED
    BY <1>2, <2>1 DEF Valid, QueueValid
<1>3. CASE m \in {"evidence", "note_ids", "canonical"}
  <2>1. Agree(d, e, "notes")
    BY <1>3 DEF Of
  <2> QED
    BY <1>3, <2>1 DEF Agree, Valid, NoteEvidenceValid, NoteIdentityValid, NoteCanonicalValid, NotesAtLeast
<1>4. CASE m = "journal"
  BY <1>4 DEF Of, Agree, Valid, JournalValid
<1>5. CASE m = "snapshot"
  <2>1. Agree(d, e, "notes") /\ Agree(d, e, "snapshots") /\ Agree(d, e, "facts")
    BY <1>5 DEF Of
  <2> QED
    BY <1>5, <2>1 DEF Agree, Valid, SnapshotValid, NoteVersioned, NotesAtLeast
<1>6. CASE m = "sealing"
  BY <1>6 DEF Of, Agree, Valid, SealValid
<1>7. CASE m = "media"
  BY <1>7 DEF Of, Agree, Valid, MediaValid
<1>8. CASE m = "phase_a"
  BY <1>8 DEF Of, Agree, Valid, GradesValid
<1>9. CASE m = "guard"
  BY <1>9 DEF Valid
<1> QED
  BY <1>1, <1>2, <1>3, <1>4, <1>5, <1>6, <1>7, <1>8, <1>9 DEF Marks, Unread

\* No mark that is set speaks of the table.
Free(t, d) == \A m \in d.marks \ Unread : t \notin Of(m)

LEMMA VouchedAs ==
    ASSUME NEW d, Vouched(d), d.marks \subseteq Marks, NEW e, e.marks = d.marks,
           \A m \in d.marks \ Unread : (\A t \in Of(m) : Agree(d, e, t)) \/ Valid(m, e)
    PROVE  Vouched(e)
BY SameValid DEF Vouched

LEMMA OfTables == \A m : Of(m) \subseteq Table
BY Tabular DEF Of

LEMMA FreeStays ==
    ASSUME NEW d, Vouched(d), d.marks \subseteq Marks, NEW t \in Table, Free(t, d),
           NEW e, NEW x, NEW r, NEW a, Changed(d, e, t, x, r, a)
    PROVE  Vouched(e) /\ Free(t, e)
<1>1. e.marks = d.marks /\ Free(t, e)
  BY DEF Changed, Free
<1>2. \A m \in d.marks \ Unread : \A u \in Of(m) : Agree(d, e, u)
  BY OfTables DEF Changed, Agree, Free
<1> QED
  BY <1>1, <1>2, VouchedAs

-----------------------------------------------------------------------------
(***************************************************************************)
(* One statement before the rest of a script.  When no transaction is open *)
(* the disk follows the view (Both).                                       *)
(***************************************************************************)
Verbs     == {"create", "alter", "drop", "aside", "copy", "forget", "put", "mark", "check",
              "commit", "refuse"}
Shapes    == UNION {Forms[t] : t \in Table}
Statement == [do : Verbs, on : Table \union Marks \union {"none"}, to : Shapes \union Rows]

In(d, v, o)   == [disk |-> d, view |-> v, open |-> o]
Flat(v)       == In(v, v, FALSE)
Both(d, e, o) == In(IF o THEN d ELSE e, e, o)

LEMMA Statements ==
    /\ \A t \in Table : \A x \in Forms[t] : Create(t, x) \in Statement /\ Alter(t, x) \in Statement
    /\ \A t \in Table : \A r \in Rows : Put(t, r) \in Statement
    /\ \A t \in Table : /\ Drop(t) \in Statement /\ Aside(t) \in Statement
                        /\ Copy(t) \in Statement /\ Forget(t) \in Statement
    /\ \A m \in Marks : Mark(m) \in Statement /\ Check(m) \in Statement
    /\ Commit \in Statement /\ Refuse \in Statement
<1>1. \A k \in Verbs, t \in Table \union Marks \union {"none"}, x \in Shapes \union Rows :
          Stmt(k, t, x) \in Statement
  BY DEF Statement, Stmt
<1>2. "none" \in Shapes \union Rows /\ \A t \in Table : \A x \in Forms[t] : x \in Shapes
  BY NoneIn DEF Shapes
<1>3. /\ \A t \in Table : \A x \in Forms[t] : Create(t, x) \in Statement /\ Alter(t, x) \in Statement
      /\ \A t \in Table : \A r \in Rows : Put(t, r) \in Statement
  BY <1>1, <1>2 DEF Verbs, Create, Alter, Put
<1>4. \A t \in Table : /\ Drop(t) \in Statement /\ Aside(t) \in Statement
                       /\ Copy(t) \in Statement /\ Forget(t) \in Statement
  BY <1>1, <1>2 DEF Verbs, Drop, Aside, Copy, Forget
<1>5. /\ \A m \in Marks : Mark(m) \in Statement /\ Check(m) \in Statement
      /\ Commit \in Statement /\ Refuse \in Statement
  BY <1>1, <1>2 DEF Verbs, Mark, Check, Commit, Refuse
<1> QED
  BY <1>3, <1>4, <1>5

LEMMA Singleton ==
    ASSUME NEW S, NEW a \in S, NEW b \in S, NEW c \in S
    PROVE  <<a>> \in Seq(S) /\ <<a, b>> \in Seq(S) /\ <<a, b, c>> \in Seq(S)
OBVIOUS

LEMMA Cons ==
    ASSUME NEW s \in Statement, NEW q \in Seq(Statement)
    PROVE  /\ <<s>> \o q \in Seq(Statement) /\ <<s>> \o q # None
           /\ Head(<<s>> \o q) = s /\ Tail(<<s>> \o q) = q
<1>1. <<s>> \in Seq(Statement) /\ <<s>> # None /\ Head(<<s>>) = s /\ Tail(<<s>>) = None
  BY Tuples, Singleton
<1>2. None \o q = q /\ q \in Seq(Statement)
  BY NoneFirst
<1>3. <<s>> \o q # None /\ Head(<<s>> \o q) = Head(<<s>>) /\ Tail(<<s>> \o q) = Tail(<<s>>) \o q
  BY <1>1, ThenMore
<1>4. <<s>> \o q \in Seq(Statement)
  BY <1>1
<1> QED
  BY <1>1, <1>2, <1>3, <1>4

LEMMA Lists ==
    ASSUME NEW a \in Statement, NEW b \in Statement, NEW c \in Statement
    PROVE  /\ <<a>> = <<a>> \o None /\ <<a>> \in Seq(Statement)
           /\ <<a, b>> = <<a>> \o <<b>> /\ <<a, b>> \in Seq(Statement)
           /\ <<a, b, c>> = <<a>> \o <<b, c>> /\ <<a, b, c>> \in Seq(Statement)
<1>1. <<a>> = <<a>> \o None
  BY Singleton, NoneFirst
<1>2. <<a, b>> = <<a>> \o <<b>>
  <2> DEFINE p == <<a, b>> r == <<a>> \o <<b>>
  <2>1. p \in Seq(Statement) /\ r \in Seq(Statement) /\ Len(p) = 2 /\ Len(r) = 2
    BY Singleton
  <2>2. p[1] = r[1] /\ p[2] = r[2]
    OBVIOUS
  <2>3. \A k \in 1..2 : p[k] = r[k]
    BY <2>2
  <2> HIDE DEF p, r
  <2>4. p = r
    BY <2>1, <2>3
  <2> QED
    BY <2>4 DEF p, r
<1>3. <<a, b, c>> = <<a>> \o <<b, c>>
  <2> DEFINE p == <<a, b, c>> r == <<a>> \o <<b, c>>
  <2>1. p \in Seq(Statement) /\ r \in Seq(Statement) /\ Len(p) = 3 /\ Len(r) = 3
    BY Singleton
  <2>2. p[1] = r[1] /\ p[2] = r[2] /\ p[3] = r[3]
    OBVIOUS
  <2>3. \A k \in 1..3 : p[k] = r[k]
    BY <2>2
  <2> HIDE DEF p, r
  <2>4. p = r
    BY <2>1, <2>3
  <2> QED
    BY <2>4 DEF p, r
<1> QED
  BY <1>1, <1>2, <1>3, Singleton

Regroups(a, b, c) == (a \o b) \o c = a \o (b \o c)

LEMMA Assoc ==
    ASSUME NEW a \in Seq(Statement), NEW b \in Seq(Statement), NEW c \in Seq(Statement)
    PROVE  Regroups(a, b, c)
<1> DEFINE l == (a \o b) \o c
           r == a \o (b \o c)
           n == Len(a) + Len(b) + Len(c)
<1>1. a \o b \in Seq(Statement) /\ b \o c \in Seq(Statement)
  OBVIOUS
<1>2. l \in Seq(Statement) /\ r \in Seq(Statement) /\ Len(l) = n /\ Len(r) = n
  BY <1>1
<1>3. ASSUME NEW k \in 1..n PROVE l[k] = r[k]
  BY <1>1, <1>3
<1> HIDE DEF l, r
<1>4. l = r
  BY <1>2, <1>3
<1> QED
  BY <1>4 DEF l, r, Regroups

LEMMA Joined ==
    ASSUME NEW a \in Seq(Statement), NEW b \in Seq(Statement)
    PROVE  a \o b \in Seq(Statement)
OBVIOUS

LEMMA Fields ==
    ASSUME NEW d, NEW v, NEW o
    PROVE  In(d, v, o).disk = d /\ In(d, v, o).view = v /\ In(d, v, o).open = o
BY DEF In

\* A statement that passes.
LEMMA SoundCons ==
    ASSUME NEW s \in Statement, NEW q \in Seq(Statement), NEW c, NEW i, Fine(c),
           ~Fails(s, c.view), Sound(q, After(s, c), i)
    PROVE  Sound(<<s>> \o q, c, i)
BY Cons, SoundThen

LEMMA SoundDdl ==
    ASSUME NEW s \in Statement, s.do \in {"create", "alter", "drop", "aside", "forget", "check"},
           NEW q \in Seq(Statement), NEW d, NEW v, NEW o, NEW i, Fine(In(d, v, o)),
           NEW e, e = Effect(s, v), ~Fails(s, v), Sound(q, Both(d, e, o), i)
    PROVE  Sound(<<s>> \o q, In(d, v, o), i)
<1>1. After(s, In(d, v, o)) = Both(d, e, o)
  BY Fields DEF After, Both, In, WritesRows, Fine
<1> QED
  BY <1>1, Fields, SoundCons

LEMMA SoundWrite ==
    ASSUME NEW s \in Statement, s.do \in {"copy", "put", "mark"},
           NEW q \in Seq(Statement), NEW d, NEW v, NEW o, NEW i, Fine(In(d, v, o)),
           NEW e, e = Effect(s, v), Sound(q, In(d, e, TRUE), i)
    PROVE  Sound(<<s>> \o q, In(d, v, o), i)
<1>1. After(s, In(d, v, o)) = In(d, e, TRUE)
  BY Fields DEF After, In, WritesRows, Fine
<1>2. ~Fails(s, v)
  BY DEF Fails
<1>3. ~Fails(s, In(d, v, o).view)
  BY <1>2, Fields
<1> QED
  BY <1>1, <1>3, SoundCons

LEMMA SoundCommit ==
    ASSUME NEW q \in Seq(Statement), NEW d, NEW v, NEW o, NEW i, Fine(In(d, v, o)),
           Sound(q, Flat(v), i)
    PROVE  Sound(<<Commit>> \o q, In(d, v, o), i)
<1>1. After(Commit, In(d, v, o)) = Flat(v)
  BY Fields, OthersAre DEF After, In, Flat, Commit, Stmt
<1>2. ~Fails(Commit, v) /\ Commit \in Statement
  BY Statements DEF Fails, Commit, Stmt
<1>3. In(d, v, o).view = v
  BY Fields
<1>4. ~Fails(Commit, In(d, v, o).view)
  BY <1>2, <1>3
<1> QED
  BY <1>1, <1>2, <1>4, SoundCons

LEMMA SoundCheck ==
    ASSUME NEW m \in Marks, NEW q \in Seq(Statement), NEW d, NEW v, NEW o, NEW i,
           Fine(In(d, v, o)), Valid(m, v), Sound(q, In(d, v, o), i)
    PROVE  Sound(<<Check(m)>> \o q, In(d, v, o), i)
<1>1. Check(m) \in Statement /\ Check(m).do = "check" /\ Check(m).on = m
  BY Statements DEF Check, Stmt
<1>2. ~Fails(Check(m), v)
  BY <1>1 DEF Fails
<1>3. Both(d, v, o) = In(d, v, o)
  BY Fields DEF Both, Fine, In
<1> QED
  BY <1>1, <1>2, <1>3, OthersAre, SoundDdl

\* A statement that fails.
LEMMA SoundFail ==
    ASSUME NEW s \in Statement, NEW q \in Seq(Statement), NEW c, NEW i, Fine(c),
           Fails(s, c.view), Excused(c)
    PROVE  Sound(<<s>> \o q, c, i)
BY Cons, SoundThen

LEMMA Flatly ==
    ASSUME NEW v
    PROVE  /\ Fine(Flat(v)) <=> Rest(v) /\ Settled(v)
           /\ Flat(v).view = v
           /\ \A d : Both(d, v, FALSE) = Flat(v) /\ Both(d, v, TRUE) = In(d, v, TRUE)
           /\ Excused(Flat(v)) <=> Calm(v) /\ (Manual(origin) \/ (crashed /\ Torn(v)))
BY DEF In, Flat, Fine, Both, Excused

LEMMA Openly ==
    ASSUME NEW d, NEW v
    PROVE  Fine(In(d, v, TRUE)) <=> Rest(v) /\ Rest(d) /\ Settled(d)
BY DEF In, Fine

-----------------------------------------------------------------------------
\* What the connection sees after each statement.
LEMMA RestOf ==
    ASSUME NEW d, Rest(d)
    PROVE  /\ d \in Database /\ WellFormed(d)
           /\ \A t \in Table : d.shape[t] \in Forms[t] /\ d.rows[t] \in Rows
           /\ \A t \in Histories : d.rows[t] \in {"none", "here"} /\ d.aside[t] \in {"no", "none", "here"}
BY DEF Rest, WellFormed, Database

LEMMA RestCreate ==
    ASSUME NEW d, Rest(d), NEW t \in Table, d.shape[t] = "none",
           NEW x \in Forms[t], x \in {"torn", Current[t]} \/ (t = "facts" /\ x = "bound")
    PROVE  LET e == Effect(Create(t, x), d)
           IN  Rest(e) /\ Changed(d, e, t, x, "none", d.aside[t])
<1>1. d.rows[t] = "none"
  BY DEF Rest
<1>2. d.shape["reviews"] = "old" => t # "content"
  BY DEF Rest
<1>3. "scope" \notin d.marks /\ d.rows["opportunities"] # "none" => t # "analyses"
  BY <1>1 DEF Rest, Claims
<1>4. t \notin Renamed => d.aside[t] = "no"
  BY DEF Rest
<1>5. x \notin {"bare", "old", "plain", "weak", "v1", "base", "part", "widened"}
  BY Tabular, CurrentIs
<1>6. t \in Histories => /\ d.aside[t] \in {"no", "none", "here"}
                         /\ "here" \in {d.rows[t], d.aside[t]} => "here" \in {"none", d.aside[t]}
  BY <1>1, RestOf
<1>7. Harmless(d, t, x, "none", d.aside[t])
  BY <1>1, <1>2, <1>3, <1>4, <1>5, <1>6 DEF Harmless
<1> QED
  BY <1>7, RestOf, RestChanged, CreateIs

LEMMA RestAlter ==
    ASSUME NEW d, Rest(d), NEW t \in Table \ {"content"}, d.shape[t] # "none",
           NEW x \in Forms[t], x \notin {"none", "torn", "bare", "old", "plain", "weak", "v1", "base"},
           t = "queue" /\ x \in {"part", "widened"} => origin.shape["queue"] = "base"
    PROVE  LET e == Effect(Alter(t, x), d)
           IN  Rest(e) /\ Changed(d, e, t, x, d.rows[t], d.aside[t])
<1>1. t = "analyses" /\ "scope" \notin d.marks /\ d.rows["opportunities"] # "none" => d.rows[t] = "claimed"
  BY DEF Rest, Claims
<1>2. t \notin Renamed => d.aside[t] = "no"
  BY DEF Rest
<1>3. Harmless(d, t, x, d.rows[t], d.aside[t])
  BY <1>1, <1>2, RestOf DEF Harmless
<1> QED
  BY <1>3, RestOf, RestChanged, AlterIs

LEMMA RestDrop ==
    ASSUME NEW d, Rest(d), NEW t \in Table \ {"analyses"}, t \in Histories => d.rows[t] = "none",
           t = "content" => d.shape["reviews"] # "old"
    PROVE  LET e == Effect(Drop(t), d)
           IN  Rest(e) /\ Changed(d, e, t, "none", "none", d.aside[t])
<1>1. t \notin Renamed => d.aside[t] = "no"
  BY DEF Rest
<1>2. t \in {"content", "notes"} => d.rows[t] = "none"
  BY DEF Histories
<1>3. Harmless(d, t, "none", "none", d.aside[t])
  BY <1>1, <1>2, RestOf, NoneIn DEF Harmless
<1> QED
  BY <1>3, RestOf, RestChanged, DropIs

LEMMA RestAside ==
    ASSUME NEW d, Rest(d), NEW t \in Renamed, d.aside[t] = "no"
    PROVE  LET e == Effect(Aside(t), d)
           IN  Rest(e) /\ Changed(d, e, t, "none", "none", d.rows[t])
<1>1. t \in Table /\ t \in Histories /\ t \notin {"content", "analyses", "opportunities"}
  BY Tabular DEF Renamed
<1>2. Harmless(d, t, "none", "none", d.rows[t])
  BY <1>1, RestOf, NoneIn DEF Harmless
<1> QED
  BY <1>1, <1>2, RestOf, RestChanged, AsideIs

LEMMA RestCopy ==
    ASSUME NEW d, Rest(d), NEW t \in Renamed, d.aside[t] # "no", d.rows[t] = "none",
           d.shape[t] = Current[t]
    PROVE  LET e == Effect(Copy(t), d)
           IN  Rest(e) /\ Changed(d, e, t, Current[t], d.aside[t], d.aside[t])
<1>1. t \in Table /\ t \in Histories /\ t \notin {"content", "analyses", "opportunities"}
  BY Tabular DEF Renamed
<1>2. d.shape[t] \notin {"none", "torn", "weak", "plain", "old", "v1", "base", "part", "widened"}
  BY CurrentIs DEF Renamed
<1>3. Harmless(d, t, d.shape[t], d.aside[t], d.aside[t])
  BY <1>1, <1>2, RestOf DEF Harmless
<1> QED
  BY <1>1, <1>3, RestOf, RestChanged, CopyIs

LEMMA RestForget ==
    ASSUME NEW d, Rest(d), NEW t \in Renamed, d.aside[t] = d.rows[t]
    PROVE  LET e == Effect(Forget(t), d)
           IN  Rest(e) /\ Changed(d, e, t, d.shape[t], d.rows[t], "no")
<1>1. t \in Table /\ t \in Histories /\ t \notin {"content", "analyses", "opportunities"}
  BY Tabular DEF Renamed
<1>2. /\ t = "queue" /\ d.shape[t] \in {"base", "part", "widened"} => origin.shape[t] = "base"
      /\ d.shape[t] \in {"none", "torn"} => d.rows[t] = "none"
  BY <1>1 DEF Rest
<1>3. Harmless(d, t, d.shape[t], d.rows[t], "no")
  BY <1>1, <1>2, RestOf DEF Harmless
<1> QED
  BY <1>1, <1>3, RestOf, RestChanged, ForgetIs

LEMMA RestPut ==
    ASSUME NEW d, Rest(d), NEW t \in Table, NEW r \in Rows, d.shape[t] \notin {"none", "torn"},
           t \in Histories => r = d.rows[t],
           t = "analyses" => /\ "scope" \notin d.marks => d.rows["opportunities"] = "none"
                             /\ r = "sealed" => d.rows[t] = "sealed",
           t = "opportunities" /\ r # "none" => d.rows[t] # "none" /\ r # "here"
    PROVE  LET e == Effect(Put(t, r), d)
           IN  Rest(e) /\ Changed(d, e, t, d.shape[t], r, d.aside[t])
<1>1. /\ t = "queue" /\ d.shape[t] \in {"base", "part", "widened"} => origin.shape[t] = "base"
      /\ t = "reviews" /\ d.aside[t] # "no" => d.shape[t] \notin {"plain", "old"}
      /\ t = "analyses" /\ "scope" \in d.marks => d.shape[t] # "bare"
      /\ t = "content" /\ d.shape["reviews"] = "old" => d.shape[t] = "old"
      /\ t \notin Renamed => d.aside[t] = "no"
  BY DEF Rest, Claims
<1>2. {"content", "reviews", "queue", "notes", "journal"} = Histories
  BY DEF Histories
<1>3. Harmless(d, t, d.shape[t], r, d.aside[t])
  BY <1>1, <1>2, RestOf DEF Harmless
<1> QED
  BY <1>3, RestOf, RestChanged, PutIs

LEMMA RestMark ==
    ASSUME NEW d, Rest(d), NEW m \in Marks,
           m = "scope" => d.shape["analyses"] # "bare" /\ d.rows["opportunities"] = "none",
           m = "phase_a" => d.rows["opportunities"] # "here"
    PROVE  LET e == Effect(Mark(m), d)
           IN  /\ Rest(e) /\ e.marks = d.marks \union {m}
               /\ e.shape = d.shape /\ e.rows = d.rows /\ e.aside = d.aside
<1> DEFINE e == Effect(Mark(m), d)
<1>1. /\ e \in Database /\ e.marks = d.marks \union {m}
      /\ e.shape = d.shape /\ e.rows = d.rows /\ e.aside = d.aside
  BY RestOf, MarkIs
<1>2. WellFormed(e)
  BY <1>1, RestOf DEF WellFormed, Database
<1>3. Claims(e)
  BY <1>1 DEF Rest, Claims
<1> HIDE DEF e
<1>4. Rest(e)
  BY <1>1, <1>2, <1>3 DEF Rest
<1> QED
  BY <1>1, <1>4 DEF e

-----------------------------------------------------------------------------
\* The notes, level by level.
LEMMA Levels ==
    ASSUME NEW d
    PROVE  /\ NotesAtLeast(1, d) <=> d.shape["notes"] \in {"evidence", "permanent", "canonical", "versioned"}
           /\ NotesAtLeast(2, d) <=> d.shape["notes"] \in {"permanent", "canonical", "versioned"}
           /\ NotesAtLeast(3, d) <=> d.shape["notes"] \in {"canonical", "versioned"}
           /\ NotesAtLeast(4, d) <=> d.shape["notes"] = "versioned"
<1>1. /\ NotesFrom[1] = "evidence" /\ NotesFrom[2] = "permanent"
      /\ NotesFrom[3] = "canonical" /\ NotesFrom[4] = "versioned"
  BY DEF NotesFrom
<1>2. 1..4 = {1, 2, 3, 4} /\ 2..4 = {2, 3, 4} /\ 3..4 = {3, 4} /\ 4..4 = {4}
  OBVIOUS
<1> QED
  BY <1>1, <1>2 DEF NotesAtLeast

-----------------------------------------------------------------------------
\* Tables that no mark speaks of.
LEMMA FreeTables ==
    ASSUME NEW d, Vouched(d), d.marks \subseteq Marks
    PROVE  /\ Free("artifacts", d) /\ Free("content", d)
           /\ "audit" \notin d.marks => Free("reviews", d)
           /\ ~QueueValid(d, FALSE, FALSE) => Free("queue", d)
           /\ ~NoteEvidenceValid(d) => Free("notes", d)
           /\ "snapshot" \notin d.marks => Free("snapshots", d) /\ Free("facts", d)
           /\ "journal" \notin d.marks \/ ~JournalValid(d) => Free("journal", d)
           /\ ~SealValid(d) => Free("analyses", d)
           /\ ~MediaValid(d) => Free("media", d)
           /\ ~GradesValid(d) => Free("opportunities", d)
<1>1. Free("artifacts", d) /\ Free("content", d)
  BY DEF Free, Of
<1>2. "audit" \notin d.marks => Free("reviews", d)
  BY DEF Free, Of
<1>3. ~QueueValid(d, FALSE, FALSE) => Free("queue", d)
  <2> SUFFICES ASSUME NEW m \in {"quarantine", "identity", "token"}, Valid(m, d)
               PROVE  QueueValid(d, FALSE, FALSE)
    BY DEF Free, Of, Vouched, Unread
  <2> QED
    BY DEF Valid, QueueValid
<1>4. ~NoteEvidenceValid(d) => Free("notes", d)
  <2> SUFFICES ASSUME NEW m \in {"evidence", "note_ids", "canonical", "snapshot"}, Valid(m, d)
               PROVE  NoteEvidenceValid(d)
    BY DEF Free, Of, Vouched, Unread
  <2> QED
    BY Levels DEF Valid, NoteEvidenceValid, NoteIdentityValid, NoteCanonicalValid, SnapshotValid,
                  NoteVersioned
<1>5. "snapshot" \notin d.marks => Free("snapshots", d) /\ Free("facts", d)
  BY DEF Free, Of
<1>6. "journal" \notin d.marks \/ ~JournalValid(d) => Free("journal", d)
  BY DEF Free, Of, Vouched, Unread, Valid
<1>7. ~SealValid(d) => Free("analyses", d)
  BY DEF Free, Of, Vouched, Unread, Valid
<1>8. ~MediaValid(d) => Free("media", d)
  BY DEF Free, Of, Vouched, Unread, Valid
<1>9. ~GradesValid(d) => Free("opportunities", d)
  BY DEF Free, Of, Vouched, Unread, Valid
<1> QED
  BY <1>1, <1>2, <1>3, <1>4, <1>5, <1>6, <1>7, <1>8, <1>9

LEMMA NoneIsFree ==
    ASSUME NEW d, Vouched(d), d.marks \subseteq Marks, NEW t \in Table, d.shape[t] = "none"
    PROVE  Free(t, d)
<1>1. CASE t = "reviews"
  BY <1>1, FreeTables DEF Vouched, Unread, Valid, ReviewAuditValid
<1>2. CASE t = "queue"
  BY <1>2, FreeTables DEF QueueValid
<1>3. CASE t = "notes"
  BY <1>3, FreeTables, Levels DEF NoteEvidenceValid
<1>4. CASE t \in {"snapshots", "facts"}
  BY <1>4, FreeTables DEF Vouched, Unread, Valid, SnapshotValid
<1>5. CASE t \in {"journal", "analyses", "media", "opportunities"}
  BY <1>5, FreeTables DEF JournalValid, SealValid, MediaValid, GradesValid
<1>6. CASE t \in {"artifacts", "content"}
  BY <1>6, FreeTables
<1> QED
  BY <1>1, <1>2, <1>3, <1>4, <1>5, <1>6, Tabular

-----------------------------------------------------------------------------
\* What a change and a mark leave of the conditions on the disk.
Versioned(d) == "journal_v1" \in d.marks /\ "journal" \notin d.marks =>
                    d.shape["journal"] \in {"v1", "unguarded"} \/ d.aside["journal"] # "no"

LEMMA SettledAfter ==
    ASSUME NEW d, Settled(d), NEW t \in Table, NEW e, NEW x, NEW r, NEW a,
           Changed(d, e, t, x, r, a), Torn(e) \/ Manual(origin) \/ Vouched(e),
           t = "queue" => a = "no",
           t = "snapshots" => "snapshot" \in d.marks \/ r = "none",
           t = "journal" => \/ x \in {"v1", "unguarded"} \/ a # "no"
                            \/ "journal_v1" \notin d.marks \/ "journal" \in d.marks
    PROVE  Settled(e)
<1>1. e.marks = d.marks
  BY DEF Changed
<1>2. e.aside["queue"] = "no"
  BY Tabular DEF Changed, Settled
<1>3. NewSnapshots(e)
  BY <1>1, Tabular DEF Changed, Settled, NewSnapshots
<1>4. Versioned(e)
  BY <1>1, Tabular DEF Changed, Settled, Versioned
<1> QED
  BY <1>2, <1>3, <1>4 DEF Settled, Versioned

\* The start that made the binding, or found none, may make it again.
Unbound(d) == /\ "snapshot" \notin d.marks /\ d.shape["snapshots"] # "none"
              /\ BindingMarks \subseteq seen => begun

\* Table t gets no shape that only an interrupted start leaves, and is not about to be
\* rebuilt.
Whole(d, t, x, r) ==
    /\ t = "queue" => x # "tokened"
    /\ t \in {"reviews", "media"} => x # "torn"
    /\ t = "analyses" => x # "sealed" \/ r # "claimed"
    /\ t \in Guarded => x # "unguarded"
    /\ t = "notes" => x = "versioned" \/ d.shape[t] # "versioned"
    /\ t = "snapshots" => x # "none" \/ d.shape[t] = "none"
    /\ t = "facts" => Unbound(d)

LEMMA BoundSame ==
    ASSUME NEW d, NEW e, e.marks = d.marks, e.shape["notes"] = d.shape["notes"],
           e.shape["snapshots"] = d.shape["snapshots"], e.shape["facts"] = d.shape["facts"]
    PROVE  Bound(e) <=> Bound(d)
BY Levels DEF Bound, Upgrading, NoteVersioned, Valid

LEMMA BoundAfter ==
    ASSUME NEW d, NEW t \in Table, NEW e, NEW x, NEW r, NEW a, Changed(d, e, t, x, r, a),
           Whole(d, t, x, r)
    PROVE  (Bound(d) => Bound(e)) /\ (Frozen(d) => Frozen(e))
<1>1. e.marks = d.marks /\ (t # "facts" => e.shape["facts"] = d.shape["facts"])
  BY Tabular DEF Changed
<1>2. d.shape["notes"] = "versioned" => e.shape["notes"] = "versioned"
  BY Tabular DEF Changed, Whole
<1>3. d.shape["snapshots"] # "none" => e.shape["snapshots"] # "none"
  BY Tabular DEF Changed, Whole
<1>4. Upgrading(d) => Upgrading(e)
  BY <1>1, <1>2, <1>3, Levels DEF Upgrading, NoteVersioned
<1>5. CASE t = "facts"
  <2>1. Unbound(d) /\ e.shape["snapshots"] = d.shape["snapshots"]
    BY <1>5, Tabular DEF Changed, Whole
  <2> QED
    BY <1>1, <2>1 DEF Unbound, Bound, Upgrading, Frozen
<1>6. CASE t # "facts"
  BY <1>1, <1>4, <1>6 DEF Bound, Valid, Frozen
<1> QED
  BY <1>5, <1>6

LEMMA CalmAfter ==
    ASSUME NEW d, Good(d), NEW t \in Table, NEW e, NEW x, NEW r, NEW a,
           Changed(d, e, t, x, r, a), Vouched(e), a \in {"no", d.aside[t]}, Whole(d, t, x, r)
    PROVE  Calm(e) /\ NoLeftovers(e) /\ seen \subseteq e.marks
<1> USE DEF Whole
<1>1. e.marks = d.marks /\ \A u \in Table : e.aside[u] \in {"no", d.aside[u]}
  BY DEF Changed
<1>2. NoLeftovers(e) /\ NoLeftovers(d) /\ Calm(d) /\ seen \subseteq e.marks
  BY <1>1, Tabular DEF Good, NoLeftovers
<1>3. e.aside["reviews"] # "no" => crashed
  BY <1>1, <1>2, Tabular DEF Calm
<1>4. ~("audit" \in e.marks /\ ~ReviewAuditValid(e))
  BY DEF Vouched, Unread, Valid
<1>5. e.shape["queue"] = "tokened" => d.shape["queue"] = "tokened"
  BY Tabular DEF Changed
<1>6. /\ e.shape["reviews"] = "torn" => d.shape["reviews"] = "torn"
      /\ e.shape["media"] = "torn" => d.shape["media"] = "torn"
  BY Tabular DEF Changed
<1>7. e.shape["analyses"] = "sealed" /\ e.rows["analyses"] = "claimed" =>
          d.shape["analyses"] = "sealed" /\ d.rows["analyses"] = "claimed"
  BY Tabular DEF Changed
<1>8. \A u \in Guarded : e.aside[u] = "no" /\ (e.shape[u] = "unguarded" => d.shape[u] = "unguarded")
  BY <1>2, Tabular DEF Changed, Guarded, NoLeftovers
<1>9. Bound(d) => Bound(e)
  BY BoundAfter
<1> HIDE DEF Whole
<1>10. Torn(e) => Torn(d)
  BY <1>4, <1>5, <1>6, <1>7, <1>8, <1>9 DEF Torn
<1> QED
  BY <1>2, <1>3, <1>10 DEF Calm

LEMMA GoodAfter ==
    ASSUME NEW d, Good(d), NEW t \in Table, NEW e, NEW x, NEW r, NEW a,
           Changed(d, e, t, x, r, a), Rest(e), Settled(e), Vouched(e), a \in {"no", d.aside[t]},
           Whole(d, t, x, r)
    PROVE  Good(e)
BY CalmAfter, BoundAfter DEF Good

\* What a mark needs of the view it is set in.
Ready(m, v) ==
    /\ Rest(v) /\ v.aside["queue"] = "no" /\ Vouched(v) /\ Calm(v) /\ NoLeftovers(v)
    /\ m = "snapshot" \/ (NewSnapshots(v) /\ Frozen(v))
    /\ m = "journal" \/ Versioned(v)
    /\ v.shape["snapshots"] # "none"
    /\ seen \subseteq v.marks /\ (m \in Unread \/ Valid(m, v))
    /\ m = "scope" => v.shape["analyses"] # "bare" /\ v.rows["opportunities"] = "none"
    /\ m = "phase_a" => v.rows["opportunities"] # "here"

LEMMA GoodMark ==
    ASSUME NEW v, NEW m \in Marks \ {"journal_v1"}, Ready(m, v)
    PROVE  Good(Effect(Mark(m), v))
<1> DEFINE e == Effect(Mark(m), v)
<1>1. /\ Rest(e) /\ e.marks = v.marks \union {m}
      /\ e.shape = v.shape /\ e.rows = v.rows /\ e.aside = v.aside
  BY RestMark DEF Ready
<1> HIDE DEF e
<1>2. ASSUME NEW k \in e.marks \ Unread PROVE Valid(k, e)
  <2>1. k \in Marks
    BY <1>1, <1>2, RestOf DEF Database
  <2>2. \A t \in Of(k) : Agree(v, e, t)
    BY <1>1 DEF Agree
  <2>3. Valid(k, v)
    BY <1>1, <1>2 DEF Ready, Vouched
  <2>4. CASE k = "quarantine" /\ m \in {"identity", "token"}
    <3>1. Valid(m, v) /\ ("token" \in v.marks => Valid("token", v))
      BY <2>4 DEF Ready, Vouched, Unread
    <3> QED
      BY <2>4, <3>1, <1>1 DEF Valid, QueueValid
  <2>5. CASE k # "quarantine" \/ m \notin {"identity", "token"}
    BY <1>1, <1>2, <2>1, <2>2, <2>3, <2>5, SameValid
  <2> QED
    BY <2>4, <2>5
<1>3. Vouched(e)
  BY <1>2 DEF Vouched
<1>4. Torn(e) => Torn(v)
  <2>1. Bound(e)
    BY <1>1 DEF Ready, Bound, Upgrading
  <2>2. ~("audit" \in e.marks /\ ~ReviewAuditValid(e))
    BY <1>3 DEF Vouched, Unread, Valid
  <2> QED
    BY <1>1, <2>1, <2>2 DEF Torn
<1>5. Calm(e) /\ NoLeftovers(e)
  BY <1>1, <1>4 DEF Ready, Calm, NoLeftovers
<1>6. Settled(e) /\ Frozen(e)
  BY <1>1, <1>3 DEF Ready, Settled, NewSnapshots, Versioned, Frozen
<1> QED
  BY <1>1, <1>3, <1>5, <1>6 DEF Good, Ready, e

LEMMA GoodReady ==
    ASSUME NEW v, Good(v), v.shape["snapshots"] # "none", NEW m \in Marks, m \in Unread \/ Valid(m, v),
           m = "scope" => v.shape["analyses"] # "bare" /\ v.rows["opportunities"] = "none",
           m = "phase_a" => v.rows["opportunities"] # "here"
    PROVE  Ready(m, v)
BY DEF Good, Settled, Ready, Versioned

\* The end of a migration.
LEMMA SoundEnd ==
    ASSUME NEW v, NEW i, Between(i, v), NEW d, NEW o, Fine(In(d, v, o))
    PROVE  Sound(None, In(d, v, o), i)
BY Fields, SoundNone

LEMMA SoundMark ==
    ASSUME NEW m \in Marks \ {"journal_v1"}, NEW d, NEW v, NEW o, NEW i, Fine(In(d, v, o)),
           Ready(m, v), Known(i, Effect(Mark(m), v))
    PROVE  Sound(<<Mark(m)>>, In(d, v, o), i)
<1> DEFINE e == Effect(Mark(m), v)
<1>1. Between(i, e)
  BY GoodMark DEF Between
<1>2. Rest(d) /\ Settled(d)
  BY Fields DEF Fine
<1>3. Mark(m) \in Statement /\ <<Mark(m)>> = <<Mark(m)>> \o None /\ Mark(m).do = "mark"
  BY Statements, Lists DEF Mark, Stmt
<1>4. Fine(In(d, e, TRUE))
  BY <1>1, <1>2, Openly DEF Between, Good
<1>5. Sound(None, In(d, e, TRUE), i)
  BY <1>1, <1>4, SoundEnd
<1>6. Sound(<<Mark(m)>> \o None, In(d, v, o), i)
  <2>1. None \in Seq(Statement)
    BY DEF None
  <2> HIDE DEF e
  <2>2. e = Effect(Mark(m), v)
    BY DEF e
  <2> QED
    BY <1>3, <1>5, <2>1, <2>2, SoundWrite
<1> QED
  BY <1>3, <1>6

LEMMA SoundCheckMark ==
    ASSUME NEW m \in Marks \ {"journal_v1"}, NEW d, NEW v, NEW o, NEW i, Fine(In(d, v, o)),
           Valid(m, v), Ready(m, v), Known(i, Effect(Mark(m), v))
    PROVE  Sound(<<Check(m), Mark(m)>>, In(d, v, o), i)
<1>1. Check(m) \in Statement /\ Mark(m) \in Statement
  BY Statements
<1>2. <<Check(m), Mark(m)>> = <<Check(m)>> \o <<Mark(m)>> /\ <<Mark(m)>> \in Seq(Statement)
  BY <1>1, Lists
<1> QED
  BY <1>2, SoundMark, SoundCheck

LEMMA KnownMark ==
    ASSUME NEW v, NEW i \in Nat, Known(i, v), NEW m \in Marks, Rest(v),
           m = "journal" => i >= 14, m = "snapshot" => i >= 16,
           m = "scope" => v.shape["analyses"] # "bare" /\ v.rows["opportunities"] = "none",
           m = "phase_a" => v.rows["opportunities"] # "here"
    PROVE  Known(i, Effect(Mark(m), v))
<1> DEFINE e == Effect(Mark(m), v)
<1>1. /\ e.marks = v.marks \union {m}
      /\ e.shape = v.shape /\ e.rows = v.rows /\ e.aside = v.aside
  BY RestMark
<1> HIDE DEF e
<1>2. Known(i, e)
  BY <1>1 DEF Known, ContentValid, NoteEvidenceValid, NoteIdentityValid,
              NoteCanonicalValid, NotesAtLeast
<1> QED
  BY <1>2 DEF e

-----------------------------------------------------------------------------
\* Tables that are made, made again, and rebuilt.
LEMMA ChangedTwice ==
    ASSUME NEW d, NEW e, NEW f, NEW t \in Table, NEW x, NEW r, NEW a, NEW y, NEW s, NEW b,
           Changed(d, e, t, x, r, a), Changed(e, f, t, y, s, b)
    PROVE  Changed(d, f, t, y, s, b)
BY DEF Changed

LEMMA FineBoth ==
    ASSUME NEW d, NEW v, NEW o, Fine(In(d, v, o)), NEW e, Rest(e), ~o => Settled(e)
    PROVE  Fine(Both(d, e, o))
<1>1. o \in BOOLEAN /\ Rest(d) /\ Settled(d)
  BY Fields DEF Fine
<1>2. CASE o = TRUE
  <2>1. Both(d, e, o) = In(d, e, TRUE)
    BY <1>2 DEF Both
  <2>2. Fine(In(d, e, TRUE))
    BY <1>1, Openly
  <2> QED
    BY <2>1, <2>2
<1>3. CASE o = FALSE
  BY <1>1, <1>3, Flatly
<1> QED
  BY <1>1, <1>2, <1>3

LEMMA SeqMake ==
    ASSUME NEW t \in Table, NEW q \in Seq(Statement)
    PROVE  /\ Make(t) \in Seq(Statement)
           /\ t \in Indexed => Make(t) \o q = <<Create(t, "torn")>> \o (<<Alter(t, Current[t])>> \o q)
           /\ t \notin Indexed => Make(t) \o q = <<Create(t, Current[t])>> \o q
           /\ t \in Indexed => "torn" \in Forms[t]
<1>1. t \in Indexed => "torn" \in Forms[t]
  BY FormOf DEF Indexed
<1>2. CASE t \in Indexed
  <2> DEFINE a == Create(t, "torn") b == Alter(t, Current[t])
  <2>1. a \in Statement /\ b \in Statement
    BY <1>1, <1>2, Statements, CurrentIs
  <2>2. Make(t) = <<a, b>>
    BY <1>2 DEF Make
  <2> HIDE DEF a, b
  <2>3. Make(t) = <<a>> \o <<b>> /\ Make(t) \in Seq(Statement) /\ <<a>> \in Seq(Statement) /\ <<b>> \in Seq(Statement)
    BY <2>1, <2>2, Lists
  <2>4. Regroups(<<a>>, <<b>>, q)
    BY <2>3, Assoc
  <2>5. Make(t) \o q = <<a>> \o (<<b>> \o q)
    BY <2>3, <2>4 DEF Regroups
  <2> QED
    BY <1>1, <1>2, <2>3, <2>5 DEF a, b
<1>3. CASE t \notin Indexed
  <2>1. Make(t) = <<Create(t, Current[t])>> /\ Create(t, Current[t]) \in Statement
    BY <1>3, Statements, CurrentIs DEF Make
  <2> QED
    BY <1>3, <2>1, Lists
<1> QED
  BY <1>2, <1>3

LEMMA SoundMake ==
    ASSUME NEW t \in Table, NEW q \in Seq(Statement), NEW d, NEW v, NEW o, NEW i,
           Fine(In(d, v, o)), v.shape[t] = "none",
           \A e, x : ~o /\ x \in {"torn", Current[t]} /\ Rest(e) /\ Changed(v, e, t, x, "none", v.aside[t])
                        => Settled(e),
           \A e : Rest(e) /\ Changed(v, e, t, Current[t], "none", v.aside[t]) => Sound(q, Both(d, e, o), i)
    PROVE  Sound(Make(t) \o q, In(d, v, o), i)
<1>1. Rest(v)
  BY Fields DEF Fine
<1>2. Current[t] \in Forms[t] \ {"none", "torn"}
  BY CurrentIs
<1>3. CASE t \in Indexed
  <2> DEFINE e == Effect(Create(t, "torn"), v)
             f == Effect(Alter(t, Current[t]), e)
             p == IF o THEN d ELSE e
  <2>1. Rest(e) /\ Changed(v, e, t, "torn", "none", v.aside[t])
    BY <1>1, <1>3, SeqMake, RestCreate
  <2>2. e.shape[t] = "torn" /\ e.rows[t] = "none" /\ e.aside[t] = v.aside[t]
    BY <2>1 DEF Changed
  <2>3. t # "content" /\ Current[t] \notin {"none", "torn", "bare", "old", "plain", "weak", "v1", "base", "part", "widened"}
    BY <1>3, CurrentIs DEF Indexed
  <2>4. Rest(f) /\ Changed(e, f, t, Current[t], "none", v.aside[t])
    BY <1>2, <2>1, <2>2, <2>3, RestAlter
  <2>5. Changed(v, f, t, Current[t], "none", v.aside[t])
    BY <2>1, <2>4, ChangedTwice
  <2>6. Create(t, "torn") \in Statement /\ Create(t, "torn").do = "create"
    BY <1>3, SeqMake, Statements DEF Create, Stmt
  <2>7. /\ Alter(t, Current[t]) \in Statement /\ Alter(t, Current[t]).do = "alter"
        /\ Alter(t, Current[t]).on = t /\ Alter(t, Current[t]).to = Current[t]
    BY <1>2, Statements DEF Alter, Stmt
  <2> HIDE DEF e, f
  <2>8. Both(d, e, o) = In(p, e, o) /\ Both(p, f, o) = Both(d, f, o)
    BY DEF Both, In
  <2>9. Fine(In(p, e, o))
    BY <2>1, <2>8, FineBoth
  <2>10. Sound(q, Both(p, f, o), i)
    BY <2>4, <2>5, <2>8
  <2>11. ~Fails(Alter(t, Current[t]), e)
    BY <1>2, <2>2, <2>7 DEF Fails
  <2> HIDE DEF p
  <2>12. Sound(<<Alter(t, Current[t])>> \o q, In(p, e, o), i)
    BY <2>7, <2>9, <2>10, <2>11, SoundDdl DEF f
  <2>13. <<Alter(t, Current[t])>> \o q \in Seq(Statement)
    BY <2>7, Cons
  <2>14. ~Fails(Create(t, "torn"), v)
    BY <2>6 DEF Fails
  <2>15. Sound(<<Create(t, "torn")>> \o (<<Alter(t, Current[t])>> \o q), In(d, v, o), i)
    BY <2>6, <2>8, <2>12, <2>13, <2>14, SoundDdl DEF e
  <2> QED
    BY <1>3, <2>15, SeqMake
<1>4. CASE t \notin Indexed
  <2> DEFINE e == Effect(Create(t, Current[t]), v)
  <2>1. Rest(e) /\ Changed(v, e, t, Current[t], "none", v.aside[t])
    BY <1>1, <1>2, RestCreate
  <2>2. Create(t, Current[t]) \in Statement /\ Create(t, Current[t]).do = "create"
    BY <1>2, Statements DEF Create, Stmt
  <2>3. ~Fails(Create(t, Current[t]), v)
    BY <2>2 DEF Fails
  <2> HIDE DEF e
  <2>4. Sound(<<Create(t, Current[t])>> \o q, In(d, v, o), i)
    BY <2>1, <2>2, <2>3, SoundDdl DEF e
  <2> QED
    BY <1>4, <2>4, SeqMake
<1> QED
  BY <1>3, <1>4

\* The same of a good database, outside of transactions.
LEMMA SoundNew ==
    ASSUME NEW t \in Table \ {"facts"}, NEW q \in Seq(Statement), NEW v, NEW i, Good(v),
           v.shape[t] = "none",
           \A e : Good(e) /\ Changed(v, e, t, Current[t], "none", v.aside[t]) => Sound(q, Flat(e), i)
    PROVE  Sound(Make(t) \o q, Flat(v), i)
<1>1. Rest(v) /\ Settled(v) /\ Vouched(v) /\ v.marks \subseteq Marks
  BY RestOf DEF Good, Database
<1>2. Fine(In(v, v, FALSE))
  BY <1>1, Flatly DEF Flat
<1>3. Free(t, v)
  BY <1>1, NoneIsFree
<1>4. t = "journal" => "journal_v1" \notin v.marks \/ "journal" \in v.marks
  BY <1>1 DEF Good, Settled, NoLeftovers
<1>5. t = "queue" => v.aside[t] = "no"
  BY <1>1 DEF Settled
<1>6. ASSUME NEW e, NEW x, Changed(v, e, t, x, "none", v.aside[t]) PROVE Settled(e) /\ Vouched(e)
  <2>1. Vouched(e)
    BY <1>1, <1>3, <1>6, FreeStays
  <2> QED
    BY <1>1, <1>4, <1>5, <1>6, <2>1, SettledAfter
<1>7. ASSUME NEW e, Rest(e), Changed(v, e, t, Current[t], "none", v.aside[t])
      PROVE  Sound(q, Both(v, e, FALSE), i)
  <2>1. Whole(v, t, Current[t], "none")
    <3>1. Current["queue"] # "tokened" /\ Current["reviews"] # "torn" /\ Current["media"] # "torn"
      BY CurrentIs
    <3>2. /\ t \in Guarded => Current[t] # "unguarded"
          /\ Current["notes"] = "versioned" /\ Current["snapshots"] # "none"
      BY CurrentIs DEF Guarded
    <3> QED
      BY <3>1, <3>2 DEF Whole
  <2>2. Good(e)
    BY <1>6, <1>7, <2>1, GoodAfter
  <2>3. Sound(q, Flat(e), i)
    BY <1>7, <2>2
  <2> QED
    BY <2>3, Flatly
<1>8. Sound(Make(t) \o q, In(v, v, FALSE), i)
  BY <1>2, <1>6, <1>7, SoundMake
<1> QED
  BY <1>8 DEF Flat

LEMMA SoundRemake ==
    ASSUME NEW t \in Table \ {"analyses", "content", "snapshots", "facts"},
           NEW q \in Seq(Statement), NEW v, NEW i, Good(v), v.rows[t] = "none", Free(t, v),
           t = "journal" => "journal_v1" \notin v.marks,
           t = "notes" => v.shape[t] # "versioned",
           \A e : Good(e) /\ Changed(v, e, t, Current[t], "none", v.aside[t]) => Sound(q, Flat(e), i)
    PROVE  Sound((<<Drop(t)>> \o Make(t)) \o q, Flat(v), i)
<1>1. Rest(v) /\ Settled(v) /\ Vouched(v) /\ v.marks \subseteq Marks
  BY RestOf DEF Good, Database
<1> DEFINE e == Effect(Drop(t), v)
<1>2. Rest(e) /\ Changed(v, e, t, "none", "none", v.aside[t])
  BY <1>1, RestDrop
<1>3. Drop(t) \in Statement /\ Drop(t).do = "drop"
  BY Statements DEF Drop, Stmt
<1>4. ~Fails(Drop(t), v)
  BY <1>3 DEF Fails
<1> HIDE DEF e
<1>5. Vouched(e)
  BY <1>1, <1>2, FreeStays
<1>6. Settled(e)
  <2>1. t = "queue" => v.aside[t] = "no"
    BY <1>1 DEF Settled
  <2> QED
    BY <1>1, <1>2, <1>5, <2>1, SettledAfter
<1>7. Good(e)
  <2>1. Whole(v, t, "none", "none")
    BY DEF Whole
  <2> QED
    BY <1>2, <1>5, <1>6, <2>1, GoodAfter
<1>8. e.shape[t] = "none" /\ e.aside[t] = v.aside[t]
  BY <1>2 DEF Changed
<1>9. ASSUME NEW f, Good(f), Changed(e, f, t, Current[t], "none", e.aside[t])
      PROVE  Sound(q, Flat(f), i)
  BY <1>2, <1>8, <1>9, ChangedTwice
<1>10. Sound(Make(t) \o q, Flat(e), i)
  BY <1>7, <1>8, <1>9, SoundNew
<1>11. Fine(In(v, v, FALSE)) /\ Flat(v) = In(v, v, FALSE) /\ Both(v, e, FALSE) = Flat(e)
  BY <1>1, Flatly DEF Flat
<1>12. Make(t) \o q \in Seq(Statement) /\ (<<Drop(t)>> \o Make(t)) \o q = <<Drop(t)>> \o (Make(t) \o q)
  <2>1. Make(t) \in Seq(Statement) /\ <<Drop(t)>> \in Seq(Statement)
    BY <1>3, SeqMake, Lists
  <2>2. Regroups(<<Drop(t)>>, Make(t), q)
    BY <2>1, Assoc
  <2> QED
    BY <2>1, <2>2, Joined DEF Regroups
<1>13. Sound(<<Drop(t)>> \o (Make(t) \o q), Flat(v), i)
  <2>1. Sound(Make(t) \o q, Both(v, e, FALSE), i) /\ e = Effect(Drop(t), v)
    BY <1>10, <1>11 DEF e
  <2>2. Sound(<<Drop(t)>> \o (Make(t) \o q), In(v, v, FALSE), i)
    BY <1>3, <1>4, <1>11, <1>12, <2>1, SoundDdl
  <2> QED
    BY <1>11, <2>2
<1> QED
  BY <1>12, <1>13

LEMMA SeqRenew ==
    ASSUME NEW t \in Table, NEW q \in Seq(Statement)
    PROVE  /\ Renew(t) \in Seq(Statement)
           /\ Renew(t) \o q = <<Aside(t)>> \o (Make(t) \o (<<Copy(t)>> \o (<<Forget(t)>> \o q)))
<1> DEFINE a == <<Aside(t)>> m == Make(t) k == <<Copy(t)>> l == <<Forget(t)>>
           am == a \o m  kl == k \o l  lq == l \o q  klq == k \o lq
<1>1. Aside(t) \in Statement /\ Copy(t) \in Statement /\ Forget(t) \in Statement
  BY Statements
<1>2. /\ a \in Seq(Statement) /\ m \in Seq(Statement) /\ k \in Seq(Statement) /\ l \in Seq(Statement)
      /\ <<Copy(t), Forget(t)>> = k \o l
  BY <1>1, Lists, SeqMake
<1>3. Renew(t) = am \o kl
  BY <1>2 DEF Renew
<1> HIDE DEF a, m, k, l
<1>4. am \in Seq(Statement) /\ kl \in Seq(Statement) /\ lq \in Seq(Statement)
  BY <1>2, Joined
<1>5. kl \o q = klq
  <2>1. Regroups(k, l, q)
    BY <1>2, Assoc
  <2> QED
    BY <2>1 DEF Regroups
<1> HIDE DEF lq, kl
<1>6. klq \in Seq(Statement) /\ am \o kl \in Seq(Statement)
  BY <1>2, <1>4, Joined
<1> HIDE DEF klq
<1>7. Regroups(am, kl, q) /\ Regroups(a, m, klq)
  BY <1>2, <1>4, <1>6, Assoc
<1>8. am \o klq = a \o (m \o klq)
  BY <1>7 DEF Regroups
<1> HIDE DEF am
<1>9. (am \o kl) \o q = a \o (m \o klq)
  BY <1>5, <1>7, <1>8 DEF Regroups
<1>10. Renew(t) \o q = a \o (m \o klq) /\ Renew(t) \in Seq(Statement)
  BY <1>3, <1>6, <1>9
<1> QED
  BY <1>10 DEF klq, lq, a, m, k, l

LEMMA SoundRenew ==
    ASSUME NEW t \in Renamed, NEW q \in Seq(Statement), NEW d, NEW v, NEW o, NEW i,
           Fine(In(d, v, o)), v.aside[t] = "no",
           \A e, x : ~o /\ x \in {"none", "torn", Current[t]} /\ Rest(e)
                        /\ Changed(v, e, t, x, "none", v.rows[t]) => Settled(e),
           \A p, e : Rest(p) /\ Settled(p) /\ Rest(e) /\ Changed(v, e, t, Current[t], v.rows[t], "no")
                         => Sound(q, In(p, e, TRUE), i)
    PROVE  Sound(Renew(t) \o q, In(d, v, o), i)
<1>1. t \in Table /\ Rest(v) /\ Rest(d) /\ Settled(d) /\ o \in BOOLEAN
  BY Fields, Tabular DEF Fine
<1> DEFINE e1 == Effect(Aside(t), v)
           p1 == IF o THEN d ELSE e1
<1>2. Rest(e1) /\ Changed(v, e1, t, "none", "none", v.rows[t])
  BY <1>1, RestAside
<1>3. e1.shape[t] = "none" /\ e1.aside[t] = v.rows[t] /\ v.rows[t] \in Rows
  BY <1>1, <1>2, RestOf DEF Changed
<1>4. /\ Aside(t) \in Statement /\ Aside(t).do = "aside" /\ Aside(t).on = t
      /\ Copy(t) \in Statement /\ Copy(t).do = "copy"
      /\ Forget(t) \in Statement /\ Forget(t).do = "forget"
  BY <1>1, Statements DEF Aside, Copy, Forget, Stmt
<1>5. ~Fails(Aside(t), v) /\ (\A u : ~Fails(Forget(t), u))
  BY <1>4 DEF Fails
<1> HIDE DEF e1
<1>6. Both(d, e1, o) = In(p1, e1, o)
  BY DEF Both, In
<1>7. Fine(In(p1, e1, o))
  BY <1>2, <1>6, FineBoth
<1> HIDE DEF p1
<1> DEFINE q2 == <<Forget(t)>> \o q
           q1 == <<Copy(t)>> \o q2
<1>8. q2 \in Seq(Statement) /\ q1 \in Seq(Statement)
  BY <1>4, Cons
<1>9. ASSUME NEW e, Rest(e), Changed(e1, e, t, Current[t], "none", e1.aside[t])
      PROVE  Sound(q1, Both(p1, e, o), i)
  <2> DEFINE p == IF o THEN p1 ELSE e
             f == Effect(Copy(t), e)
             g == Effect(Forget(t), f)
  <2>1. Changed(v, e, t, Current[t], "none", v.rows[t])
    BY <1>1, <1>2, <1>3, <1>9, ChangedTwice
  <2>2. e.shape[t] = Current[t] /\ e.rows[t] = "none" /\ e.aside[t] = v.rows[t] /\ v.rows[t] # "no"
    BY <1>3, <2>1 DEF Changed, Rows
  <2>3. Rest(f) /\ Changed(e, f, t, Current[t], v.rows[t], v.rows[t])
    BY <1>9, <2>2, RestCopy
  <2>4. f.shape[t] = Current[t] /\ f.rows[t] = v.rows[t] /\ f.aside[t] = v.rows[t]
    BY <2>3 DEF Changed
  <2>5. Rest(g) /\ Changed(f, g, t, Current[t], v.rows[t], "no")
    BY <2>3, <2>4, RestForget
  <2> HIDE DEF f, g
  <2>6. Changed(v, g, t, Current[t], v.rows[t], "no")
    <3>1. Changed(v, f, t, Current[t], v.rows[t], v.rows[t])
      BY <1>1, <2>1, <2>3, ChangedTwice
    <3> QED
      BY <1>1, <2>5, <3>1, ChangedTwice
  <2>7. Both(p1, e, o) = In(p, e, o)
    BY DEF Both, In
  <2>8. Fine(In(p, e, o))
    BY <1>7, <1>9, <2>1, <2>7, FineBoth
  <2> HIDE DEF p
  <2>9. Rest(p) /\ Settled(p)
    BY <2>8, Fields DEF Fine
  <2>10. Fine(In(p, f, TRUE)) /\ Both(p, g, TRUE) = In(p, g, TRUE)
    BY <2>3, <2>9, Openly, Flatly
  <2>11. Sound(q, Both(p, g, TRUE), i)
    BY <2>5, <2>6, <2>9, <2>10
  <2>12. Sound(q2, In(p, f, TRUE), i)
    BY <1>4, <1>5, <2>10, <2>11, SoundDdl DEF g
  <2>13. Sound(q1, In(p, e, o), i)
    BY <1>4, <1>8, <2>8, <2>12, SoundWrite DEF f
  <2> QED
    BY <2>7, <2>13
<1>10. ASSUME NEW e, NEW x, ~o, x \in {"torn", Current[t]}, Rest(e), Changed(e1, e, t, x, "none", e1.aside[t])
       PROVE  Settled(e)
  <2>1. Changed(v, e, t, x, "none", v.rows[t])
    BY <1>1, <1>2, <1>3, <1>10, ChangedTwice
  <2> QED
    BY <1>10, <2>1
<1> HIDE DEF q1, q2
<1>11. Sound(Make(t) \o q1, In(p1, e1, o), i)
  BY <1>1, <1>3, <1>7, <1>8, <1>9, <1>10, SoundMake
<1>12. Make(t) \in Seq(Statement) /\ Make(t) \o q1 \in Seq(Statement)
  <2>1. Make(t) \in Seq(Statement)
    BY <1>1, <1>8, SeqMake
  <2> QED
    BY <1>8, <2>1, Joined
<1>13. Sound(<<Aside(t)>> \o (Make(t) \o q1), In(d, v, o), i)
  BY <1>4, <1>5, <1>6, <1>11, <1>12, SoundDdl DEF e1
<1>14. Renew(t) \o q = <<Aside(t)>> \o (Make(t) \o q1)
  BY <1>1, SeqRenew DEF q1, q2
<1> QED
  BY <1>13, <1>14

LEMMA SeqRebuild ==
    ASSUME NEW t \in Table, NEW q \in Seq(Statement)
    PROVE  /\ Rebuild(t) \in Seq(Statement)
           /\ t \notin Guarded => Rebuild(t) \o q = Renew(t) \o q
           /\ t \in Guarded => /\ "unguarded" \in Forms[t]
                              /\ Rebuild(t) \o q = <<Alter(t, "unguarded")>> \o (Renew(t) \o q)
<1>1. Renew(t) \in Seq(Statement)
  BY SeqRenew
<1>2. CASE t \in Guarded
  <2> DEFINE a == Alter(t, "unguarded")
  <2>1. "unguarded" \in Forms[t]
    BY <1>2, FormOf DEF Guarded
  <2>2. a \in Statement
    BY <2>1, Statements
  <2>3. Rebuild(t) = <<a>> \o Renew(t)
    BY <1>2 DEF Rebuild, Strip, When
  <2> HIDE DEF a
  <2>4. <<a>> \in Seq(Statement)
    BY <2>2, Lists
  <2>5. Regroups(<<a>>, Renew(t), q) /\ <<a>> \o Renew(t) \in Seq(Statement)
    BY <1>1, <2>4, Assoc, Joined
  <2> QED
    BY <1>2, <2>1, <2>3, <2>5 DEF Regroups, a
<1>3. CASE t \notin Guarded
  <2>1. Rebuild(t) = None \o Renew(t)
    BY <1>3 DEF Rebuild, Strip, When
  <2>2. Rebuild(t) = Renew(t)
    BY <1>1, <2>1, NoneFirst
  <2> QED
    BY <1>1, <1>3, <2>2
<1> QED
  BY <1>2, <1>3

\* A table that is renamed loses its guards first.
LEMMA SoundRebuild ==
    ASSUME NEW t \in Renamed, NEW q \in Seq(Statement), NEW d, NEW v, NEW o, NEW i,
           Fine(In(d, v, o)), v.aside[t] = "no",
           t \in Guarded => v.shape[t] \notin {"none", "unguarded", Current[t]},
           t \in Guarded => \A e : ~o /\ Rest(e) /\ Changed(v, e, t, "unguarded", v.rows[t], "no")
                                 => Settled(e),
           \A e, x : ~o /\ x \in {"none", "torn", Current[t]} /\ Rest(e)
                        /\ Changed(v, e, t, x, "none", v.rows[t]) => Settled(e),
           \A p, e : Rest(p) /\ Settled(p) /\ Rest(e) /\ Changed(v, e, t, Current[t], v.rows[t], "no")
                         => Sound(q, In(p, e, TRUE), i)
    PROVE  Sound(Rebuild(t) \o q, In(d, v, o), i)
<1>1. t \in Table /\ Rest(v) /\ o \in BOOLEAN
  BY Fields, Tabular DEF Fine
<1>2. CASE t \notin Guarded
  <2>1. Sound(Renew(t) \o q, In(d, v, o), i)
    BY SoundRenew
  <2> QED
    BY <1>1, <1>2, <2>1, SeqRebuild
<1>3. CASE t \in Guarded
  <2> DEFINE e0 == Effect(Alter(t, "unguarded"), v)
             p0 == IF o THEN d ELSE e0
  <2>1. "unguarded" \in Forms[t] /\ t \notin {"content", "queue"}
    BY <1>1, <1>3, SeqRebuild, NoneFirst DEF Guarded
  <2>2. Rest(e0) /\ Changed(v, e0, t, "unguarded", v.rows[t], "no")
    BY <1>1, <1>3, <2>1, RestAlter
  <2>3. /\ Alter(t, "unguarded") \in Statement /\ Alter(t, "unguarded").do = "alter"
        /\ Alter(t, "unguarded").on = t /\ Alter(t, "unguarded").to = "unguarded"
    BY <1>1, <2>1, Statements DEF Alter, Stmt
  <2>4. ~Fails(Alter(t, "unguarded"), v)
    BY <1>3, <2>3 DEF Fails
  <2> HIDE DEF e0
  <2>5. e0.aside[t] = "no" /\ e0.rows[t] = v.rows[t]
    BY <2>2 DEF Changed
  <2>6. Both(d, e0, o) = In(p0, e0, o)
    BY DEF Both, In
  <2>7. Fine(In(p0, e0, o))
    BY <1>3, <2>2, <2>6, FineBoth
  <2> HIDE DEF p0
  <2>8. ASSUME NEW e, NEW x, ~o, x \in {"none", "torn", Current[t]}, Rest(e),
               Changed(e0, e, t, x, "none", e0.rows[t])
        PROVE  Settled(e)
    <3>1. Changed(v, e, t, x, "none", v.rows[t])
      BY <1>1, <2>2, <2>5, <2>8, ChangedTwice
    <3> QED
      BY <2>8, <3>1
  <2>9. ASSUME NEW p, NEW e, Rest(p), Settled(p), Rest(e),
               Changed(e0, e, t, Current[t], e0.rows[t], "no")
        PROVE  Sound(q, In(p, e, TRUE), i)
    <3>1. Changed(v, e, t, Current[t], v.rows[t], "no")
      BY <1>1, <2>2, <2>5, <2>9, ChangedTwice
    <3> QED
      BY <2>9, <3>1
  <2>10. Sound(Renew(t) \o q, In(p0, e0, o), i)
    BY <2>5, <2>7, <2>8, <2>9, SoundRenew
  <2>11. Renew(t) \o q \in Seq(Statement)
    BY <1>1, SeqRenew, Joined
  <2>12. Sound(<<Alter(t, "unguarded")>> \o (Renew(t) \o q), In(d, v, o), i)
    BY <2>3, <2>4, <2>6, <2>10, <2>11, SoundDdl DEF e0
  <2> QED
    BY <1>1, <1>3, <2>12, SeqRebuild
<1> QED
  BY <1>2, <1>3

-----------------------------------------------------------------------------
(***************************************************************************)
(* The migrations, one by one.                                             *)
(***************************************************************************)
LEMMA FineGood ==
    ASSUME NEW v, Good(v)
    PROVE  /\ Fine(In(v, v, FALSE)) /\ Flat(v) = In(v, v, FALSE)
           /\ Rest(v) /\ Settled(v) /\ Vouched(v) /\ Calm(v) /\ v.marks \subseteq Marks
           /\ seen \subseteq v.marks /\ NoLeftovers(v) /\ Frozen(v)
<1>1. /\ Rest(v) /\ Settled(v) /\ Vouched(v) /\ Calm(v) /\ seen \subseteq v.marks /\ NoLeftovers(v)
      /\ Frozen(v)
  BY DEF Good
<1>2. v.marks \subseteq Marks
  BY <1>1, RestOf DEF Database
<1>3. Fine(Flat(v)) /\ Flat(v) = In(v, v, FALSE)
  BY <1>1, Flatly DEF Flat
<1> QED
  BY <1>1, <1>2, <1>3

LEMMA SoundNothing ==
    ASSUME NEW v, NEW i, Good(v), Known(i, v)
    PROVE  Sound(None, Flat(v), i)
BY FineGood, SoundEnd DEF Between

LEMMA SoundOnlyCheck ==
    ASSUME NEW v, NEW i, Good(v), Known(i, v), NEW m \in Marks, Valid(m, v)
    PROVE  Sound(<<Check(m)>>, Flat(v), i)
<1>1. Sound(None, In(v, v, FALSE), i)
  BY FineGood, SoundNothing
<1>2. None \in Seq(Statement) /\ <<Check(m)>> = <<Check(m)>> \o None
  <2>1. Check(m) \in Statement
    BY Statements
  <2> QED
    BY <2>1, Lists DEF None
<1>3. Sound(<<Check(m)>> \o None, In(v, v, FALSE), i)
  BY <1>1, <1>2, FineGood, SoundCheck
<1> QED
  BY <1>2, <1>3, FineGood

\* A mark that the start has read: its validator still accepts.
LEMMA SeenValid ==
    ASSUME NEW v, Good(v), NEW m \in Marks \ Unread, m \in seen
    PROVE  Valid(m, v)
BY FineGood DEF Vouched

LEMMA SoundSeen ==
    ASSUME NEW v, NEW i, Good(v), Known(i, v), NEW m \in Marks \ Unread, m \in seen
    PROVE  Sound(<<Check(m)>>, Flat(v), i)
BY SeenValid, SoundOnlyCheck

\* After create_all the tables are there.
LEMMA KnownThere ==
    ASSUME NEW v, NEW i \in Nat \ {0}, Known(i, v)
    PROVE  v.shape["snapshots"] # "none"
BY Tabular DEF Known

\* A mark set with nothing else done.
LEMMA SoundOnlyMark ==
    ASSUME NEW v, NEW i \in Nat \ {0}, Good(v), Known(i, v),
           NEW m \in Marks \ {"journal_v1", "scope", "phase_a"}, m \in Unread \/ Valid(m, v),
           m = "journal" => i >= 14, m = "snapshot" => i >= 16
    PROVE  Sound(<<Mark(m)>>, Flat(v), i)
<1>1. Ready(m, v) /\ Known(i, Effect(Mark(m), v))
  BY FineGood, GoodReady, KnownMark, KnownThere
<1>2. Sound(<<Mark(m)>>, In(v, v, FALSE), i)
  BY <1>1, FineGood, SoundMark
<1> QED
  BY <1>2, FineGood

LEMMA SoundDone ==
    ASSUME NEW d, NEW v, NEW o, NEW i \in Nat \ {0}, Fine(In(d, v, o)), Good(v), Known(i, v),
           NEW m \in Marks \ {"journal_v1", "scope", "phase_a"}, Valid(m, v),
           m = "journal" => i >= 14, m = "snapshot" => i >= 16
    PROVE  Sound(<<Check(m), Mark(m)>>, In(d, v, o), i)
<1>1. Ready(m, v) /\ Known(i, Effect(Mark(m), v))
  BY FineGood, GoodReady, KnownMark, KnownThere
<1> QED
  BY <1>1, SoundCheckMark

LEMMA SoundOnlyCheckMark ==
    ASSUME NEW v, NEW i \in Nat \ {0}, Good(v), Known(i, v),
           NEW m \in Marks \ {"journal_v1", "scope", "phase_a"}, Valid(m, v),
           m = "journal" => i >= 14, m = "snapshot" => i >= 16
    PROVE  Sound(<<Check(m), Mark(m)>>, Flat(v), i)
BY FineGood, SoundDone

\* What a script refuses, it has an excuse for.
LEMMA SoundRefuse ==
    ASSUME NEW v, NEW i, Good(v), Manual(origin) \/ Torn(v), NEW q \in Seq(Statement)
    PROVE  Sound(<<Refuse>> \o q, Flat(v), i)
<1>1. Refuse \in Statement /\ Fails(Refuse, Flat(v).view)
  BY Statements DEF Refuse, Stmt, Fails
<1>2. Excused(Flat(v)) /\ Fine(Flat(v))
  BY FineGood, Flatly DEF Calm
<1> QED
  BY <1>1, <1>2, SoundFail

\* A change of one table that leaves the database good.
LEMMA GoodChange ==
    ASSUME NEW d, Good(d), NEW t \in Table \ {"journal", "snapshots"}, NEW e, NEW x, NEW r,
           Changed(d, e, t, x, r, d.aside[t]), Rest(e), Vouched(e), Whole(d, t, x, r)
    PROVE  Good(e)
<1>1. t = "queue" => d.aside[t] = "no"
  BY FineGood DEF Settled
<1>2. Settled(e)
  BY <1>1, FineGood, SettledAfter
<1> QED
  BY <1>2, GoodAfter

\* A column added outside of a transaction, and rows rewritten in one.
LEMMA SoundAlter ==
    ASSUME NEW v, NEW i, Rest(v), Settled(v), NEW t \in Table \ {"content"},
           NEW x \in Forms[t], x \notin {"none", "torn", "bare", "old", "plain", "weak", "v1", "base"},
           t = "queue" /\ x \in {"part", "widened"} => origin.shape["queue"] = "base",
           v.shape[t] \notin {"none", x, Current[t]}, NEW q \in Seq(Statement),
           \A e : Rest(e) /\ Changed(v, e, t, x, v.rows[t], v.aside[t]) => Sound(q, Flat(e), i)
    PROVE  Sound(<<Alter(t, x)>> \o q, Flat(v), i)
<1> DEFINE e == Effect(Alter(t, x), v)
<1>1. Rest(e) /\ Changed(v, e, t, x, v.rows[t], v.aside[t])
  BY RestAlter
<1>2. /\ Alter(t, x) \in Statement /\ Alter(t, x).do = "alter"
      /\ Alter(t, x).on = t /\ Alter(t, x).to = x
  BY Statements DEF Alter, Stmt
<1>3. ~Fails(Alter(t, x), v)
  BY <1>2 DEF Fails
<1>4. Fine(In(v, v, FALSE)) /\ Flat(v) = In(v, v, FALSE) /\ Both(v, e, FALSE) = Flat(e)
  BY Flatly DEF Flat
<1> HIDE DEF e
<1>5. Sound(q, Both(v, e, FALSE), i)
  BY <1>1, <1>4
<1>6. Sound(<<Alter(t, x)>> \o q, In(v, v, FALSE), i)
  BY <1>2, <1>3, <1>4, <1>5, SoundDdl DEF e
<1> QED
  BY <1>4, <1>6

LEMMA SoundPut ==
    ASSUME NEW d, NEW v, NEW o, NEW i, Fine(In(d, v, o)), NEW t \in Table, NEW r \in Rows,
           v.shape[t] \notin {"none", "torn"}, t \in Histories => r = v.rows[t],
           t = "analyses" => /\ "scope" \notin v.marks => v.rows["opportunities"] = "none"
                             /\ r = "sealed" => v.rows[t] = "sealed",
           t = "opportunities" /\ r # "none" => v.rows[t] # "none" /\ r # "here",
           NEW q \in Seq(Statement),
           \A e : Rest(e) /\ Changed(v, e, t, v.shape[t], r, v.aside[t]) => Sound(q, In(d, e, TRUE), i)
    PROVE  Sound(<<Put(t, r)>> \o q, In(d, v, o), i)
<1> DEFINE e == Effect(Put(t, r), v)
<1>1. Rest(v)
  BY Fields DEF Fine
<1>2. Rest(e) /\ Changed(v, e, t, v.shape[t], r, v.aside[t])
  BY <1>1, RestPut
<1>3. Put(t, r) \in Statement /\ Put(t, r).do = "put"
  BY Statements DEF Put, Stmt
<1> HIDE DEF e
<1>4. Sound(q, In(d, e, TRUE), i)
  BY <1>2
<1> QED
  BY <1>3, <1>4, SoundWrite DEF e

-----------------------------------------------------------------------------
\* 1. create_all.
Upto(T, v, d) == /\ Good(d) /\ d.marks = v.marks
                 /\ \A t \in Table : IF t \in T THEN d.shape[t] # "none"
                                                 ELSE d.shape[t] = v.shape[t]

LEMMA SoundMissing ==
    ASSUME NEW T, NEW t \in Table \ T, t # "facts", NEW v, NEW d, Upto(T, v, d),
           NEW q \in Seq(Statement), NEW i,
           \A e : Upto(T \union {t}, v, e) => Sound(q, Flat(e), i)
    PROVE  Sound(Missing(t, v) \o q, Flat(d), i)
<1>1. CASE v.shape[t] = "none"
  <2>1. Missing(t, v) = Make(t)
    BY <1>1 DEF Missing, When
  <2>2. d.shape[t] = "none" /\ Good(d)
    BY <1>1 DEF Upto
  <2>3. ASSUME NEW e, Good(e), Changed(d, e, t, Current[t], "none", d.aside[t])
        PROVE  Sound(q, Flat(e), i)
    <3>1. Current[t] # "none"
      BY CurrentIs
    <3>2. Upto(T \union {t}, v, e)
      BY <2>3, <3>1 DEF Upto, Changed
    <3> QED
      BY <3>2
  <2> QED
    BY <2>1, <2>2, <2>3, SoundNew
<1>2. CASE v.shape[t] # "none"
  <2>1. Missing(t, v) \o q = q
    BY <1>2, NoneFirst DEF Missing, When
  <2>2. Upto(T \union {t}, v, d)
    BY <1>2 DEF Upto
  <2> QED
    BY <2>1, <2>2
<1> QED
  BY <1>1, <1>2

LEMMA SeqMissing ==
    ASSUME NEW t \in Table, NEW v
    PROVE  Missing(t, v) \in Seq(Statement)
<1>1. None \in Seq(Statement)
  BY DEF None
<1> QED
  BY <1>1, SeqMake DEF Missing, When

\* The sequence, read from its first table.
LEMMA SeqCreateAll ==
    ASSUME NEW v
    PROVE  CreateAll(v) =
               Missing("artifacts", v) \o (Missing("analyses", v) \o (Missing("opportunities", v)
               \o (Missing("content", v) \o (Missing("reviews", v) \o (Missing("queue", v)
               \o (Missing("notes", v) \o (Missing("snapshots", v) \o (Missing("journal", v)
               \o Missing("media", v)))))))))
<1> DEFINE m1 == Missing("artifacts", v)  m2 == Missing("analyses", v)
           m3 == Missing("opportunities", v)  m4 == Missing("content", v)
           m5 == Missing("reviews", v)  m6 == Missing("queue", v)  m7 == Missing("notes", v)
           m8 == Missing("snapshots", v)  m9 == Missing("journal", v)  m10 == Missing("media", v)
           q9 == m9 \o m10  q8 == m8 \o q9  q7 == m7 \o q8  q6 == m6 \o q7  q5 == m5 \o q6
           q4 == m4 \o q5  q3 == m3 \o q4  q2 == m2 \o q3
           p2 == m1 \o m2  p3 == p2 \o m3  p4 == p3 \o m4  p5 == p4 \o m5  p6 == p5 \o m6
           p7 == p6 \o m7  p8 == p7 \o m8  p9 == p8 \o m9
<1>1. CreateAll(v) = p9 \o m10
  BY DEF CreateAll
<1>2. /\ m1 \in Seq(Statement) /\ m2 \in Seq(Statement) /\ m3 \in Seq(Statement)
      /\ m4 \in Seq(Statement) /\ m5 \in Seq(Statement) /\ m6 \in Seq(Statement)
      /\ m7 \in Seq(Statement) /\ m8 \in Seq(Statement) /\ m9 \in Seq(Statement)
      /\ m10 \in Seq(Statement)
  BY Tabular, SeqMissing
<1> HIDE DEF m1, m2, m3, m4, m5, m6, m7, m8, m9, m10
<1>3. p2 \in Seq(Statement) BY <1>2, Joined
<1>4. p3 \in Seq(Statement) BY <1>2, <1>3, Joined
<1>5. p4 \in Seq(Statement) BY <1>2, <1>4, Joined
<1>6. p5 \in Seq(Statement) BY <1>2, <1>5, Joined
<1>7. p6 \in Seq(Statement) BY <1>2, <1>6, Joined
<1>8. p7 \in Seq(Statement) BY <1>2, <1>7, Joined
<1>9. p8 \in Seq(Statement) BY <1>2, <1>8, Joined
<1>10. q9 \in Seq(Statement) BY <1>2, Joined
<1>11. q8 \in Seq(Statement) BY <1>2, <1>10, Joined
<1>12. q7 \in Seq(Statement) BY <1>2, <1>11, Joined
<1>13. q6 \in Seq(Statement) BY <1>2, <1>12, Joined
<1>14. q5 \in Seq(Statement) BY <1>2, <1>13, Joined
<1>15. q4 \in Seq(Statement) BY <1>2, <1>14, Joined
<1>16. q3 \in Seq(Statement) BY <1>2, <1>15, Joined
<1> HIDE DEF p2, p3, p4, p5, p6, p7, p8, q9, q8, q7, q6, q5, q4, q3
<1>17. /\ Regroups(p8, m9, m10) /\ Regroups(p7, m8, q9) /\ Regroups(p6, m7, q8)
       /\ Regroups(p5, m6, q7) /\ Regroups(p4, m5, q6) /\ Regroups(p3, m4, q5)
       /\ Regroups(p2, m3, q4) /\ Regroups(m1, m2, q3)
  BY <1>2, <1>3, <1>4, <1>5, <1>6, <1>7, <1>8, <1>9, <1>10, <1>11, <1>12, <1>13, <1>14,
     <1>15, <1>16, Assoc
<1>18. p9 \o m10 = p8 \o q9 BY <1>17 DEF Regroups, q9
<1>19. p8 \o q9 = p7 \o q8 BY <1>17 DEF Regroups, p8, q8
<1>20. p7 \o q8 = p6 \o q7 BY <1>17 DEF Regroups, p7, q7
<1>21. p6 \o q7 = p5 \o q6 BY <1>17 DEF Regroups, p6, q6
<1>22. p5 \o q6 = p4 \o q5 BY <1>17 DEF Regroups, p5, q5
<1>23. p4 \o q5 = p3 \o q4 BY <1>17 DEF Regroups, p4, q4
<1>24. p3 \o q4 = p2 \o q3 BY <1>17 DEF Regroups, p3, q3
<1>25. p2 \o q3 = m1 \o q2 BY <1>17 DEF Regroups, p2
<1>26. CreateAll(v) = m1 \o q2
  BY <1>1, <1>18, <1>19, <1>20, <1>21, <1>22, <1>23, <1>24, <1>25
<1> QED
  BY <1>26 DEF q3, q4, q5, q6, q7, q8, q9, m1, m2, m3, m4, m5, m6, m7, m8, m9, m10

LEMMA SoundCreateAll ==
    ASSUME NEW v, Between(0, v)
    PROVE  Sound(CreateAll(v), Flat(v), 1)
<1> DEFINE T1 == {} \union {"artifacts"}  T2 == T1 \union {"analyses"}
           T3 == T2 \union {"opportunities"}  T4 == T3 \union {"content"}
           T5 == T4 \union {"reviews"}  T6 == T5 \union {"queue"}  T7 == T6 \union {"notes"}
           T8 == T7 \union {"snapshots"}  T9 == T8 \union {"journal"}  T10 == T9 \union {"media"}
           q10 == Missing("media", v) \o None
           q9 == Missing("journal", v) \o q10  q8 == Missing("snapshots", v) \o q9
           q7 == Missing("notes", v) \o q8  q6 == Missing("queue", v) \o q7
           q5 == Missing("reviews", v) \o q6  q4 == Missing("content", v) \o q5
           q3 == Missing("opportunities", v) \o q4  q2 == Missing("analyses", v) \o q3
           q1 == Missing("artifacts", v) \o q2
           All(T, q) == \A d : Upto(T, v, d) => Sound(q, Flat(d), 1)
<1>1. /\ "artifacts" \in Table \ {} /\ "analyses" \in Table \ T1 /\ "opportunities" \in Table \ T2
      /\ "content" \in Table \ T3 /\ "reviews" \in Table \ T4 /\ "queue" \in Table \ T5
      /\ "notes" \in Table \ T6 /\ "snapshots" \in Table \ T7 /\ "journal" \in Table \ T8
      /\ "media" \in Table \ T9 /\ Table \ {"facts"} = T10
  BY Tabular
<1>2. ASSUME NEW d, Upto(T10, v, d) PROVE Sound(None, Flat(d), 1)
  <2>1. Known(1, d)
    BY <1>1, <1>2 DEF Upto, Between, Known
  <2> QED
    BY <1>2, <2>1, SoundNothing DEF Upto
<1>3. \A t \in Table : Missing(t, v) \in Seq(Statement)
  BY SeqMissing
<1>4. None \in Seq(Statement)
  BY DEF None
<1>5. q10 \in Seq(Statement) BY <1>1, <1>3, <1>4, Joined
<1>6. q9 \in Seq(Statement) BY <1>1, <1>3, <1>5, Joined
<1>7. q8 \in Seq(Statement) BY <1>1, <1>3, <1>6, Joined
<1>8. q7 \in Seq(Statement) BY <1>1, <1>3, <1>7, Joined
<1>9. q6 \in Seq(Statement) BY <1>1, <1>3, <1>8, Joined
<1>10. q5 \in Seq(Statement) BY <1>1, <1>3, <1>9, Joined
<1>11. q4 \in Seq(Statement) BY <1>1, <1>3, <1>10, Joined
<1>12. q3 \in Seq(Statement) BY <1>1, <1>3, <1>11, Joined
<1>13. q2 \in Seq(Statement) BY <1>1, <1>3, <1>12, Joined
<1> HIDE DEF T1, T2, T3, T4, T5, T6, T7, T8, T9
<1>14. All(T9, q10) BY <1>1, <1>2, <1>4, SoundMissing
<1> HIDE DEF q10
<1>15. All(T8, q9) BY <1>1, <1>5, <1>14, SoundMissing DEF T9
<1> HIDE DEF q9
<1>16. All(T7, q8) BY <1>1, <1>6, <1>15, SoundMissing DEF T8
<1> HIDE DEF q8
<1>17. All(T6, q7) BY <1>1, <1>7, <1>16, SoundMissing DEF T7
<1> HIDE DEF q7
<1>18. All(T5, q6) BY <1>1, <1>8, <1>17, SoundMissing DEF T6
<1> HIDE DEF q6
<1>19. All(T4, q5) BY <1>1, <1>9, <1>18, SoundMissing DEF T5
<1> HIDE DEF q5
<1>20. All(T3, q4) BY <1>1, <1>10, <1>19, SoundMissing DEF T4
<1> HIDE DEF q4
<1>21. All(T2, q3) BY <1>1, <1>11, <1>20, SoundMissing DEF T3
<1> HIDE DEF q3
<1>22. All(T1, q2) BY <1>1, <1>12, <1>21, SoundMissing DEF T2
<1> HIDE DEF q2
<1>23. All({}, q1) BY <1>1, <1>13, <1>22, SoundMissing DEF T1
<1>24. Upto({}, v, v)
  BY DEF Upto, Between
<1>25. q10 = Missing("media", v)
  BY <1>1, <1>3, NoneFirst DEF q10
<1>26. CreateAll(v) = q1
  BY <1>25, SeqCreateAll DEF q9, q8, q7, q6, q5, q4, q3, q2
<1> QED
  BY <1>23, <1>24, <1>26

-----------------------------------------------------------------------------
\* 2. The provenance of artifacts.
LEMMA SoundProvenance ==
    ASSUME NEW v, Between(1, v)
    PROVE  Sound(Provenance(v), Flat(v), 2)
<1>1. Good(v) /\ Known(1, v)
  BY DEF Between
<1>2. CASE v.shape["artifacts"] = "plain"
  <2>1. "artifacts" \in Table /\ "produced" \in Forms["artifacts"] /\ Current["artifacts"] = "produced"
    BY Tabular, FormOf, CurrentIs
  <2>2. ASSUME NEW e, Rest(e), Changed(v, e, "artifacts", "produced", v.rows["artifacts"], v.aside["artifacts"])
        PROVE  Sound(None, Flat(e), 2)
    <3>1. Vouched(e)
      BY <1>1, <2>1, <2>2, FineGood, FreeTables, FreeStays
    <3>2. Good(e)
      BY <1>1, <2>1, <2>2, <3>1, GoodChange DEF Whole, Guarded
    <3>3. Known(2, e)
      BY <1>1, <2>1, <2>2 DEF Known, Changed
    <3> QED
      BY <3>2, <3>3, SoundNothing
  <2>3. None \in Seq(Statement)
    BY DEF None
  <2>4. Sound(<<Alter("artifacts", "produced")>> \o None, Flat(v), 2)
    BY <1>1, <1>2, <2>1, <2>2, <2>3, FineGood, SoundAlter
  <2>5. Alter("artifacts", "produced") \in Statement
    BY <2>1, Statements
  <2> QED
    BY <1>2, <2>4, <2>5, Lists DEF Provenance, When
<1>3. CASE v.shape["artifacts"] # "plain"
  <2>1. Known(2, v)
    BY <1>1 DEF Known
  <2> QED
    BY <1>1, <1>3, <2>1, SoundNothing DEF Provenance, When
<1> QED
  BY <1>2, <1>3

-----------------------------------------------------------------------------
\* 3. The scope of analyses.
LEMMA MarkScope ==
    ASSUME NEW d, NEW v, NEW o, Fine(In(d, v, o)), Good(v), Known(2, v),
           v.shape["analyses"] # "bare", v.rows["opportunities"] = "none"
    PROVE  Sound(<<Mark("scope")>>, In(d, v, o), 3)
<1>1. "scope" \in Marks \ {"journal_v1"} /\ "scope" \in Unread
  BY DEF Marks, Unread
<1>2. Ready("scope", v)
  BY <1>1, KnownThere, GoodReady
<1>3. Known(3, Effect(Mark("scope"), v))
  <2> DEFINE e == Effect(Mark("scope"), v)
  <2>1. e.marks = v.marks \union {"scope"} /\ e.shape = v.shape
    BY <1>1, FineGood, RestMark
  <2> HIDE DEF e
  <2>2. Known(3, e)
    BY <2>1 DEF Known
  <2> QED
    BY <2>2 DEF e
<1> QED
  BY <1>1, <1>2, <1>3, SoundMark

Withdraw(v) == When(v.rows["analyses"] = "claimed",
                    <<Put("opportunities", "none"), Put("analyses", "withdrawn")>>)

LEMMA SeqWithdraw ==
    ASSUME NEW v
    PROVE  /\ Put("opportunities", "none") \in Statement
           /\ Put("analyses", "withdrawn") \in Statement
           /\ <<Mark("scope")>> \in Seq(Statement)
           /\ Withdraw(v) \in Seq(Statement)
<1>1. Put("opportunities", "none") \in Statement /\ Put("analyses", "withdrawn") \in Statement
  BY Tabular, Statements DEF Rows
<1>2. <<Mark("scope")>> \in Seq(Statement)
  BY Statements, Lists DEF Marks
<1> QED
  BY <1>1, <1>2, Lists DEF Withdraw, When, None

LEMMA SoundWithdraw ==
    ASSUME NEW v, Good(v), Known(2, v), "scope" \notin v.marks, v.shape["analyses"] # "bare"
    PROVE  Sound(Withdraw(v) \o <<Mark("scope")>>, Flat(v), 3)
<1>1. /\ "opportunities" \in Table /\ "analyses" \in Table /\ {"none", "withdrawn"} \subseteq Rows
      /\ "opportunities" \notin Histories /\ "analyses" \notin Histories
  BY Tabular DEF Rows, Histories
<1>2. /\ v.shape["opportunities"] \notin {"none", "torn"}
      /\ v.shape["analyses"] \notin {"none", "torn"}
  <2>1. \A t \in Table : v.shape[t] \in Forms[t]
    BY FineGood, RestOf
  <2>2. \A t \in Table \ {"facts"} : v.shape[t] # "none"
    BY DEF Known
  <2> QED
    BY <1>1, <2>1, <2>2, FormOf
<1> DEFINE a == Put("opportunities", "none")
           b == Put("analyses", "withdrawn")
           q == <<Mark("scope")>>
<1>3. CASE v.rows["analyses"] = "claimed"
  <2>1. "sealing" \notin v.marks
    BY <1>3, FineGood DEF Vouched, Unread, Valid, SealValid
  <2>2. ASSUME NEW e, Rest(e), Changed(v, e, "opportunities", v.shape["opportunities"], "none", v.aside["opportunities"])
        PROVE  Sound(<<b>> \o q, In(v, e, TRUE), 3)
    <3>1. Vouched(e)
      <4>1. e.marks = v.marks /\ e.shape["opportunities"] = v.shape["opportunities"]
        BY <2>2 DEF Changed
      <4>2. \A m \in v.marks \ Unread : Valid(m, v)
        BY FineGood DEF Vouched
      <4>3. ASSUME NEW m \in v.marks \ Unread PROVE (\A t \in Of(m) : Agree(v, e, t)) \/ Valid(m, e)
        <5>1. CASE m = "phase_a"
          BY <4>1, <4>2, <4>3, <5>1 DEF Valid, GradesValid
        <5>2. CASE m # "phase_a"
          <6>1. "opportunities" \notin Of(m)
            BY <5>2 DEF Of
          <6> QED
            BY <2>2, <6>1, OfTables DEF Changed, Agree
        <5> QED
          BY <5>1, <5>2
      <4> QED
        BY <4>1, <4>3, FineGood, VouchedAs
    <3>2. Good(e)
      <4>1. "opportunities" \in Table \ {"journal", "snapshots"}
        BY <1>1
      <4> QED
        BY <2>2, <3>1, <4>1, GoodChange DEF Whole, Guarded
    <3>3. /\ e.rows["opportunities"] = "none" /\ e.marks = v.marks
          /\ \A u \in Table : e.shape[u] = v.shape[u]
      BY <2>2 DEF Changed
    <3>4. ASSUME NEW f, Rest(f), Changed(e, f, "analyses", e.shape["analyses"], "withdrawn", e.aside["analyses"])
          PROVE  Sound(q, In(v, f, TRUE), 3)
      <4>1. Free("analyses", e)
        BY <2>1, <3>3 DEF Free, Of
      <4>2. Vouched(f)
        BY <1>1, <3>2, <3>4, <4>1, FineGood, FreeStays
      <4>3. Good(f)
        <5>1. Whole(e, "analyses", e.shape["analyses"], "withdrawn")
          BY DEF Whole, Guarded
        <5> QED
          BY <1>1, <3>2, <3>4, <4>2, <5>1, GoodChange
      <4>4. /\ f.rows["opportunities"] = "none" /\ f.marks = v.marks
            /\ \A u \in Table : f.shape[u] = v.shape[u]
        BY <1>1, <3>3, <3>4 DEF Changed
      <4>5. Known(2, f)
        BY <4>4 DEF Known
      <4>6. Fine(In(v, f, TRUE))
        BY <3>4, FineGood, Openly
      <4> QED
        BY <1>1, <4>3, <4>4, <4>5, <4>6, MarkScope
    <3>5. Fine(In(v, e, TRUE))
      BY <2>2, FineGood, Openly
    <3> QED
      BY <1>1, <1>2, <3>3, <3>4, <3>5, SeqWithdraw, SoundPut
  <2>3. b \in Statement /\ a \in Statement /\ q \in Seq(Statement)
    BY SeqWithdraw
  <2> HIDE DEF b, q
  <2>4. <<b>> \o q \in Seq(Statement)
    BY <2>3, Cons
  <2>5. Sound(<<a>> \o (<<b>> \o q), Flat(v), 3)
    BY <1>1, <1>2, <2>2, <2>4, FineGood, SoundPut
  <2> HIDE DEF a
  <2>6. Regroups(<<a>>, <<b>>, q) /\ <<a, b>> = <<a>> \o <<b>>
    BY <2>3, Lists, Assoc
  <2>7. Sound(<<a, b>> \o q, Flat(v), 3)
    BY <2>5, <2>6 DEF Regroups
  <2> QED
    BY <1>3, <2>7 DEF Withdraw, When, a, b, q
<1>4. CASE v.rows["analyses"] # "claimed"
  <2>1. v.rows["opportunities"] = "none"
    BY <1>4, FineGood DEF Rest, Claims
  <2>2. Sound(q, Flat(v), 3)
    BY <2>1, FineGood, MarkScope
  <2>3. Withdraw(v) \o q = q
    BY <1>4, SeqWithdraw, NoneFirst DEF Withdraw, When
  <2> QED
    BY <2>2, <2>3
<1> QED
  BY <1>3, <1>4

LEMMA SoundScope ==
    ASSUME NEW v, Between(2, v)
    PROVE  Sound(Scope(v), Flat(v), 3)
<1>1. Good(v) /\ Known(2, v)
  BY DEF Between
<1>2. CASE "scope" \in v.marks
  <2>1. Claims(v) /\ "scope" \in Marks
    BY <1>1, FineGood DEF Rest, Marks
  <2>2. Valid("scope", v)
    BY <1>2, <2>1 DEF Claims, Valid
  <2>3. Known(3, v)
    BY <1>1, <1>2 DEF Known
  <2> QED
    BY <1>1, <1>2, <2>1, <2>2, <2>3, SoundOnlyCheck DEF Scope
<1>3. CASE "scope" \notin v.marks
  <2> DEFINE q == Withdraw(v) \o <<Mark("scope")>>
             a == When(v.shape["analyses"] = "bare", <<Alter("analyses", "scoped")>>)
  <2>1. q \in Seq(Statement) /\ a \in Seq(Statement) /\ Alter("analyses", "scoped") \in Statement
    <3>1. Alter("analyses", "scoped") \in Statement
      BY Tabular, FormOf, Statements
    <3>2. None \in Seq(Statement)
      BY DEF None
    <3> QED
      BY <3>1, <3>2, SeqWithdraw, Joined, Lists DEF When
  <2>2. Scope(v) = a \o q
    <3>1. Scope(v) = (a \o Withdraw(v)) \o <<Mark("scope")>>
      BY <1>3 DEF Scope, Withdraw
    <3>2. Regroups(a, Withdraw(v), <<Mark("scope")>>)
      BY <2>1, SeqWithdraw, Assoc
    <3> QED
      BY <3>1, <3>2 DEF Regroups
  <2>3. CASE v.shape["analyses"] = "bare"
    <3>1. ASSUME NEW e, Rest(e), Changed(v, e, "analyses", "scoped", v.rows["analyses"], v.aside["analyses"])
          PROVE  Sound(q, Flat(e), 3)
      <4>1. "analyses" \in Table
        BY Tabular
      <4>2. Vouched(e)
        BY <1>1, <2>3, <3>1, <4>1, FineGood, FreeTables, FreeStays DEF SealValid
      <4>3. Good(e)
        <5>1. Whole(v, "analyses", "scoped", v.rows["analyses"])
          BY DEF Whole, Guarded
        <5>2. "analyses" \in Table \ {"journal", "snapshots"}
          BY <4>1
        <5> QED
          BY <1>1, <3>1, <4>2, <5>1, <5>2, GoodChange
      <4>4. e.marks = v.marks /\ e.shape["analyses"] = "scoped" /\ e.rows["analyses"] = v.rows["analyses"]
        BY <3>1 DEF Changed
      <4>5. Known(2, e)
        BY <1>1, <3>1 DEF Known, Changed
      <4>6. Withdraw(e) = Withdraw(v)
        BY <4>4 DEF Withdraw
      <4> QED
        BY <1>3, <4>3, <4>4, <4>5, <4>6, SoundWithdraw
    <3>2. "analyses" \in Table /\ "scoped" \in Forms["analyses"] /\ Current["analyses"] = "sealed"
      BY Tabular, FormOf, CurrentIs
    <3> HIDE DEF q
    <3>3. Sound(<<Alter("analyses", "scoped")>> \o q, Flat(v), 3)
      BY <1>1, <2>1, <2>3, <3>1, <3>2, FineGood, SoundAlter
    <3> QED
      BY <2>2, <2>3, <3>3 DEF When
  <2>4. CASE v.shape["analyses"] # "bare"
    <3>1. a \o q = q
      BY <2>1, <2>4, NoneFirst DEF When
    <3> QED
      BY <1>1, <1>3, <2>2, <2>4, <3>1, SoundWithdraw
  <2> QED
    BY <2>3, <2>4
<1> QED
  BY <1>2, <1>3

-----------------------------------------------------------------------------
\* 4 and 6. The audit of reviews.
LEMMA SoundAuditRebuild ==
    ASSUME NEW v, Between(3, v), "audit" \notin v.marks, v.shape["reviews"] = "plain"
    PROVE  Sound(Rebuild("reviews") \o <<Check("audit"), Mark("audit")>>, Flat(v), 4)
<1>1. Good(v) /\ Known(3, v) /\ "reviews" \in Renamed /\ "reviews" \in Table /\ "audit" \in Marks
  BY Tabular DEF Between, Renamed, Marks
<1>2. v.aside["reviews"] = "no"
  BY <1>1, FineGood DEF Rest
<1>3. Free("reviews", v)
  BY <1>1, FineGood, FreeTables
<1>4. ASSUME NEW e, NEW x, NEW r, NEW a, Changed(v, e, "reviews", x, r, a)
      PROVE  Settled(e) /\ Vouched(e)
  <2>1. Vouched(e)
    BY <1>1, <1>3, <1>4, FineGood, FreeStays
  <2> QED
    BY <1>1, <1>4, <2>1, FineGood, SettledAfter
<1>5. ASSUME NEW p, NEW e, Rest(p), Settled(p), Rest(e),
             Changed(v, e, "reviews", Current["reviews"], v.rows["reviews"], "no")
      PROVE  Sound(<<Check("audit"), Mark("audit")>>, In(p, e, TRUE), 4)
  <2>1. e.shape["reviews"] = "audited"
    BY <1>5, CurrentIs DEF Changed
  <2>2. Good(e)
    <3>1. Current["reviews"] # "torn" /\ "reviews" \in Table
      BY Tabular, CurrentIs
    <3>2. Vouched(e) /\ Settled(e)
      BY <1>4, <1>5
    <3>3. Whole(v, "reviews", Current["reviews"], v.rows["reviews"])
      BY <3>1 DEF Whole, Guarded
    <3> QED
      BY <1>1, <1>5, <3>1, <3>2, <3>3, GoodAfter
  <2>3. Known(4, e)
    BY <1>1, <1>5, <2>1 DEF Known, Changed
  <2>4. Valid("audit", e)
    BY <2>1 DEF Valid, ReviewAuditValid
  <2>5. Fine(In(p, e, TRUE))
    BY <1>5, Openly
  <2>6. 4 \in Nat \ {0} /\ "audit" \in Marks \ {"journal_v1", "scope", "phase_a"}
    BY <1>1
  <2> QED
    BY <2>2, <2>3, <2>4, <2>5, <2>6, SoundDone
<1>6. <<Check("audit"), Mark("audit")>> \in Seq(Statement)
  BY <1>1, Statements, Lists
<1> DEFINE q == <<Check("audit"), Mark("audit")>>
<1>7. \A e, x : ~FALSE /\ x \in {"none", "torn", Current["reviews"]} /\ Rest(e)
                /\ Changed(v, e, "reviews", x, "none", v.rows["reviews"]) => Settled(e)
  BY <1>4
<1>8. Fine(In(v, v, FALSE)) /\ Flat(v) = In(v, v, FALSE)
  BY <1>1, FineGood
<1> HIDE DEF q
<1>9. \A p, e : Rest(p) /\ Settled(p) /\ Rest(e)
                /\ Changed(v, e, "reviews", Current["reviews"], v.rows["reviews"], "no")
                    => Sound(q, In(p, e, TRUE), 4)
  BY <1>5 DEF q
<1>10. Sound(Rebuild("reviews") \o q, In(v, v, FALSE), 4)
  BY <1>1, <1>2, <1>6, <1>7, <1>8, <1>9, SoundRebuild DEF q, Guarded
<1> QED
  BY <1>8, <1>10 DEF q

LEMMA SoundAudit ==
    ASSUME NEW v, NEW i \in {4, 6}, Between(i - 1, v)
    PROVE  Sound(Audit(v), Flat(v), i)
<1>1. /\ Good(v) /\ Known(i - 1, v) /\ v.shape["reviews"] \in Forms["reviews"]
      /\ v.shape["reviews"] # "none" /\ "audit" \in Marks \ Unread /\ i \in Nat
  <2>1. Good(v) /\ Known(i - 1, v) /\ "reviews" \in Table /\ i \in Nat /\ i - 1 >= 1
    BY Tabular DEF Between
  <2>2. v.shape["reviews"] \in Forms["reviews"]
    BY <2>1, FineGood, RestOf
  <2> QED
    BY <2>1, <2>2 DEF Known, Marks, Unread
<1>2. v.shape["reviews"] # "plain" => Known(i, v)
  <2>1. CASE i = 4
    BY <1>1, <2>1 DEF Known
  <2>2. CASE i = 6
    BY <1>1, <2>2 DEF Known
  <2> QED
    BY <2>1, <2>2
<1>3. CASE "audit" \in v.marks
  <2>1. Valid("audit", v)
    BY <1>1, <1>3, FineGood DEF Vouched
  <2>2. v.shape["reviews"] # "plain"
    BY <2>1 DEF Valid, ReviewAuditValid
  <2> QED
    BY <1>1, <1>2, <1>3, <2>1, <2>2, SoundOnlyCheck DEF Audit
<1>4. CASE "audit" \notin v.marks /\ v.shape["reviews"] = "old"
  BY <1>1, <1>2, <1>4, SoundNothing DEF Audit
<1>5. CASE "audit" \notin v.marks /\ v.shape["reviews"] = "plain"
  <2>1. i = 4 /\ Between(3, v)
    BY <1>1, <1>5 DEF Known, Between
  <2>2. Audit(v) = Rebuild("reviews") \o <<Check("audit"), Mark("audit")>>
    BY <1>5 DEF Audit, When
  <2> QED
    BY <1>5, <2>1, <2>2, SoundAuditRebuild
<1>6. CASE "audit" \notin v.marks /\ v.shape["reviews"] \in {"torn", "audited"}
  <2>1. Valid("audit", v)
    BY <1>6 DEF Valid, ReviewAuditValid
  <2>2. Audit(v) = <<Check("audit"), Mark("audit")>>
    <3>1. <<Check("audit"), Mark("audit")>> \in Seq(Statement)
      BY <1>1, Statements, Lists
    <3> QED
      BY <1>6, <3>1, NoneFirst DEF Audit, When
  <2> QED
    BY <1>1, <1>2, <1>6, <2>1, <2>2, SoundOnlyCheckMark DEF Unread
<1> QED
  BY <1>1, <1>3, <1>4, <1>5, <1>6, FormOf

-----------------------------------------------------------------------------
\* 5. Content and its reviews, made again together: what is on the disk in between is
\* settled, because a mark of the audit makes it torn.
Beside(v, e) ==
    /\ e.marks = v.marks /\ e.aside["reviews"] = v.aside["reviews"]
    /\ \A u \in Table \ {"content", "reviews"} : Agree(v, e, u)

LEMMA BesideSettled ==
    ASSUME NEW v, Good(v), NEW e, Beside(v, e), e.shape["reviews"] \in {"none", "torn", "audited"}
    PROVE  /\ Settled(e)
           /\ e.shape["reviews"] = "audited" => Vouched(e)
<1>1. "audit" \notin v.marks \/ e.shape["reviews"] = "audited" => Vouched(e)
  <2> SUFFICES ASSUME "audit" \notin v.marks \/ e.shape["reviews"] = "audited"
               PROVE  Vouched(e)
    OBVIOUS
  <2>1. ASSUME NEW m \in v.marks \ Unread PROVE (\A t \in Of(m) : Agree(v, e, t)) \/ Valid(m, e)
    <3>1. CASE m = "audit"
      BY <2>1, <3>1 DEF Valid, ReviewAuditValid
    <3>2. CASE m # "audit"
      <4>1. "reviews" \notin Of(m) /\ "content" \notin Of(m)
        BY <3>2 DEF Of
      <4> QED
        BY <4>1, OfTables DEF Beside
    <3> QED
      BY <3>1, <3>2
  <2> QED
    BY <2>1, FineGood, VouchedAs DEF Beside
<1>2. "audit" \in v.marks /\ e.shape["reviews"] # "audited" => Torn(e)
  BY DEF Torn, Beside, ReviewAuditValid
<1>3. Agree(v, e, "queue") /\ Agree(v, e, "snapshots") /\ Agree(v, e, "journal")
  BY Tabular DEF Beside
<1>4. Settled(e)
  BY <1>1, <1>2, <1>3, FineGood DEF Settled, Beside, Agree, NewSnapshots
<1> QED
  BY <1>1, <1>4

LEMMA BesideChanged ==
    ASSUME NEW v, NEW d, Beside(v, d), NEW e, NEW t \in {"content", "reviews"}, NEW x, NEW r,
           Changed(d, e, t, x, r, d.aside[t])
    PROVE  Beside(v, e)
BY Tabular DEF Beside, Changed, Agree

LEMMA BesideGood ==
    ASSUME NEW v, Good(v), NEW e, Beside(v, e), Rest(e), e.shape["reviews"] = "audited"
    PROVE  Good(e)
<1>1. Settled(e) /\ Vouched(e)
  BY BesideSettled
<1>2. /\ Agree(v, e, "queue") /\ Agree(v, e, "notes") /\ Agree(v, e, "journal")
      /\ Agree(v, e, "media") /\ Agree(v, e, "analyses") /\ Agree(v, e, "snapshots")
      /\ Agree(v, e, "facts") /\ e.marks = v.marks
  BY Tabular DEF Beside
<1>3. NoLeftovers(v) /\ Calm(v) /\ seen \subseteq v.marks /\ Frozen(v)
  BY FineGood
<1>4. Torn(e) => Torn(v)
  <2>1. Bound(e) <=> Bound(v)
    BY <1>2, BoundSame DEF Agree
  <2> QED
    BY <1>2, <2>1 DEF Torn, Agree, Beside, ReviewAuditValid, Guarded
<1>5. Calm(e) /\ NoLeftovers(e) /\ Frozen(e)
  BY <1>2, <1>3, <1>4 DEF Calm, NoLeftovers, Agree, Beside, Frozen
<1> QED
  BY <1>1, <1>3, <1>5 DEF Good, Beside

LEMMA SeqContent ==
    /\ Drop("reviews") \in Statement /\ Drop("content") \in Statement
    /\ Make("content") \in Seq(Statement) /\ Make("reviews") \in Seq(Statement)
    /\ <<Mark("content")>> \in Seq(Statement)
    /\ ((<<Drop("reviews"), Drop("content")>> \o Make("content")) \o Make("reviews")) \o <<Mark("content")>>
          = <<Drop("reviews")>> \o (<<Drop("content")>> \o (Make("content")
                \o (Make("reviews") \o <<Mark("content")>>)))
<1> DEFINE a == <<Drop("reviews")>> b == <<Drop("content")>> c == Make("content")
           d == Make("reviews") m == <<Mark("content")>>
           dm == d \o m  cdm == c \o dm  ab == a \o b  abc == ab \o c
<1>1. Drop("reviews") \in Statement /\ Drop("content") \in Statement /\ Mark("content") \in Statement
  BY Tabular, Statements DEF Marks
<1>2. /\ a \in Seq(Statement) /\ b \in Seq(Statement) /\ c \in Seq(Statement)
      /\ d \in Seq(Statement) /\ m \in Seq(Statement)
      /\ <<Drop("reviews"), Drop("content")>> = ab
  <2>1. a \in Seq(Statement) /\ b \in Seq(Statement) /\ m \in Seq(Statement)
    BY <1>1, Singleton
  <2>2. <<Drop("reviews"), Drop("content")>> = ab
    BY <1>1, Lists
  <2>3. c \in Seq(Statement) /\ d \in Seq(Statement)
    <3>1. "content" \in Table /\ "reviews" \in Table /\ None \in Seq(Statement)
      BY Tabular DEF None
    <3> QED
      BY <3>1, SeqMake
  <2> QED
    BY <2>1, <2>2, <2>3
<1> HIDE DEF a, b, c, d, m
<1>3. ab \in Seq(Statement) /\ dm \in Seq(Statement)
  BY <1>2, Joined
<1> HIDE DEF ab, dm
<1>4. abc \in Seq(Statement) /\ cdm \in Seq(Statement)
  BY <1>2, <1>3, Joined
<1> HIDE DEF abc, cdm
<1>5. Regroups(abc, d, m) /\ Regroups(ab, c, dm) /\ Regroups(a, b, cdm)
  BY <1>2, <1>3, <1>4, Assoc
<1>6. (abc \o d) \o m = abc \o dm BY <1>5 DEF Regroups, dm
<1>7. abc \o dm = ab \o cdm BY <1>5 DEF Regroups, abc, cdm
<1>8. ab \o cdm = a \o (b \o cdm) BY <1>5 DEF Regroups, ab
<1>9. (abc \o d) \o m = a \o (b \o cdm)
  BY <1>6, <1>7, <1>8
<1>10. ((<<Drop("reviews"), Drop("content")>> \o c) \o d) \o m = a \o (b \o (c \o (d \o m)))
  BY <1>2, <1>9 DEF abc, cdm, dm
<1> QED
  BY <1>1, <1>2, <1>10 DEF a, b, c, d, m

LEMMA SoundContentMark ==
    ASSUME NEW v, NEW i, Good(v), Known(4, v), ContentValid(v)
    PROVE  Sound(<<Mark("content")>>, Flat(v), 5)
<1>1. Known(5, v) /\ "content" \in Marks /\ "content" \in Unread
  BY DEF Known, Marks, Unread
<1> QED
  BY <1>1, SoundOnlyMark

LEMMA SoundContentAgain ==
    ASSUME NEW v, Between(4, v), v.rows["content"] = "none", v.rows["reviews"] = "none"
    PROVE  Sound(<<Drop("reviews")>> \o (<<Drop("content")>> \o (Make("content")
                    \o (Make("reviews") \o <<Mark("content")>>))), Flat(v), 5)
<1>1. Good(v) /\ Known(4, v) /\ "reviews" \in Table /\ "content" \in Table
  BY Tabular DEF Between
<1> DEFINE q4 == <<Mark("content")>>
           q3 == Make("reviews") \o q4
           q2 == Make("content") \o q3
           q1 == <<Drop("content")>> \o q2
           e1 == Effect(Drop("reviews"), v)
           e2 == Effect(Drop("content"), e1)
<1>2. /\ Drop("reviews") \in Statement /\ Drop("reviews").do = "drop"
      /\ Drop("content") \in Statement /\ Drop("content").do = "drop"
  BY SeqContent DEF Drop, Stmt
<1>3. ~Fails(Drop("reviews"), v) /\ ~Fails(Drop("content"), e1)
  BY <1>2 DEF Fails
<1>4. q4 \in Seq(Statement) /\ q3 \in Seq(Statement) /\ q2 \in Seq(Statement) /\ q1 \in Seq(Statement)
  <2>1. q4 \in Seq(Statement) /\ q3 \in Seq(Statement)
    BY SeqContent, Joined
  <2> HIDE DEF q3
  <2>2. q2 \in Seq(Statement)
    BY <2>1, SeqContent, Joined
  <2> HIDE DEF q2
  <2> QED
    BY <1>2, <2>1, <2>2, Cons
<1>5. Rest(e1) /\ Changed(v, e1, "reviews", "none", "none", v.aside["reviews"])
  BY <1>1, FineGood, RestDrop
<1>6. Beside(v, v)
  BY DEF Beside, Agree
<1> HIDE DEF e1
<1>7. Beside(v, e1) /\ e1.shape["reviews"] = "none" /\ e1.rows["content"] = "none" /\ Settled(e1)
  <2>1. Beside(v, e1) /\ e1.shape["reviews"] = "none"
    BY <1>5, <1>6, BesideChanged DEF Changed
  <2>2. e1.rows["content"] = "none"
    BY <1>1, <1>5 DEF Changed
  <2> QED
    BY <1>1, <2>1, <2>2, BesideSettled
<1>8. Rest(e2) /\ Changed(e1, e2, "content", "none", "none", e1.aside["content"])
  BY <1>1, <1>5, <1>7, RestDrop
<1> HIDE DEF e2
<1>9. /\ Beside(v, e2) /\ e2.shape["reviews"] = "none" /\ e2.shape["content"] = "none" /\ Settled(e2)
  <2>1. Beside(v, e2)
    BY <1>7, <1>8, BesideChanged
  <2>2. e2.shape["reviews"] = "none" /\ e2.shape["content"] = "none"
    BY <1>1, <1>7, <1>8 DEF Changed
  <2> QED
    BY <1>1, <2>1, <2>2, BesideSettled
<1>10. ASSUME NEW e, Rest(e), Changed(e2, e, "content", Current["content"], "none", e2.aside["content"])
       PROVE  Sound(q3, Both(e2, e, FALSE), 5)
  <2>1. Beside(v, e)
    BY <1>9, <1>10, BesideChanged
  <2>2. e.shape["reviews"] = "none" /\ e.shape["content"] = "whole"
    BY <1>1, <1>9, <1>10, CurrentIs DEF Changed
  <2>3. Settled(e)
    BY <1>1, <2>1, <2>2, BesideSettled
  <2>4. ASSUME NEW f, Rest(f), NEW x, x \in {"torn", Current["reviews"]},
               Changed(e, f, "reviews", x, "none", e.aside["reviews"])
        PROVE  /\ Beside(v, f) /\ f.shape["reviews"] = x /\ f.shape["content"] = "whole" /\ Settled(f)
    <3>1. Beside(v, f)
      BY <2>1, <2>4, BesideChanged
    <3>2. f.shape["reviews"] = x /\ f.shape["content"] = "whole" /\ x \in {"torn", "audited"}
      BY <1>1, <2>2, <2>4, CurrentIs DEF Changed
    <3> QED
      BY <1>1, <3>1, <3>2, BesideSettled
  <2>5. ASSUME NEW f, Rest(f), Changed(e, f, "reviews", Current["reviews"], "none", e.aside["reviews"])
        PROVE  Sound(q4, Both(e, f, FALSE), 5)
    <3>1. Beside(v, f) /\ f.shape["reviews"] = "audited" /\ f.shape["content"] = "whole"
      BY <2>4, <2>5, CurrentIs
    <3>2. Good(f)
      BY <1>1, <2>5, <3>1, BesideGood
    <3>3. \A u \in Table \ {"content", "reviews"} : f.shape[u] = v.shape[u]
      BY <3>1 DEF Beside, Agree
    <3>4. Known(4, f) /\ ContentValid(f)
      BY <1>1, <3>1, <3>3 DEF Known, ContentValid, Beside
    <3>5. Sound(q4, Flat(f), 5)
      BY <3>2, <3>4, SoundContentMark
    <3> QED
      BY <3>5, Flatly
  <2>6. Fine(In(e, e, FALSE)) /\ Both(e2, e, FALSE) = In(e, e, FALSE)
    BY <1>10, <2>3, Flatly DEF Flat
  <2>7. Sound(Make("reviews") \o q4, In(e, e, FALSE), 5)
    BY <1>1, <1>4, <2>2, <2>4, <2>5, <2>6, SoundMake
  <2> QED
    BY <2>6, <2>7
<1>11. ASSUME NEW e, NEW x, x \in {"torn", Current["content"]}, Rest(e),
              Changed(e2, e, "content", x, "none", e2.aside["content"])
       PROVE  Settled(e)
  <2>1. Beside(v, e) /\ e.shape["reviews"] = "none"
    BY <1>1, <1>9, <1>11, BesideChanged DEF Changed
  <2> QED
    BY <1>1, <2>1, BesideSettled
<1>12. Fine(In(e2, e2, FALSE)) /\ Both(e1, e2, FALSE) = In(e2, e2, FALSE)
  BY <1>8, <1>9, Flatly DEF Flat
<1>13. Fine(In(e1, e1, FALSE)) /\ Both(v, e1, FALSE) = In(e1, e1, FALSE)
  BY <1>5, <1>7, Flatly DEF Flat
<1> HIDE DEF q3, q4
<1>14. Sound(q2, In(e2, e2, FALSE), 5)
  BY <1>1, <1>4, <1>9, <1>10, <1>11, <1>12, SoundMake
<1> HIDE DEF q2
<1>15. Sound(q1, In(e1, e1, FALSE), 5)
  <2>1. e2 = Effect(Drop("content"), e1)
    BY DEF e2
  <2> QED
    BY <1>2, <1>3, <1>4, <1>12, <1>13, <1>14, <2>1, SoundDdl
<1> HIDE DEF q1
<1>16. Sound(<<Drop("reviews")>> \o q1, In(v, v, FALSE), 5)
  <2>1. e1 = Effect(Drop("reviews"), v) /\ Fine(In(v, v, FALSE))
    BY <1>1, FineGood DEF e1
  <2> QED
    BY <1>2, <1>3, <1>4, <1>13, <1>15, <2>1, SoundDdl
<1> QED
  BY <1>1, <1>16, FineGood DEF q1, q2, q3, q4

LEMMA SoundContent ==
    ASSUME NEW v, Between(4, v)
    PROVE  Sound(Content(v), Flat(v), 5)
<1>1. Good(v) /\ Known(4, v) /\ Rest(v) /\ Calm(v)
  BY FineGood DEF Between
<1>2. CASE ContentValid(v)
  BY <1>1, <1>2, SoundContentMark DEF Content
<1>3. CASE ~ContentValid(v) /\ (v.rows["content"] # "none" \/ v.rows["reviews"] # "none")
  <2>1. /\ v.shape["content"] \in {"old", "whole"} /\ v.shape["reviews"] \in {"torn", "old", "audited"}
        /\ v.rows["reviews"] \in {"none", "here"}
    <3>1. /\ v.shape["content"] \in Forms["content"] /\ v.shape["reviews"] \in Forms["reviews"]
          /\ v.rows["reviews"] \in {"none", "here"}
      BY <1>1, RestOf, Tabular DEF Histories
    <3>2. /\ v.shape["content"] # "none" /\ v.shape["reviews"] # "none" /\ v.shape["reviews"] # "plain"
      BY <1>1, Tabular DEF Known
    <3> QED
      BY <3>1, <3>2, FormOf
  <2>2. v.rows["content"] # "none"
    BY <1>1, <1>3, <2>1 DEF Rest
  <2>3. v.shape["content"] = "old" => Manual(origin)
    BY <1>1, <2>2 DEF Rest, Manual
  <2>4. v.shape["reviews"] = "torn" => Torn(v)
    BY DEF Torn
  <2>5. Manual(origin) \/ Torn(v)
    BY <1>1, <1>3, <2>1, <2>3, <2>4 DEF ContentValid, Rest
  <2>6. Content(v) = <<Refuse>> \o None /\ None \in Seq(Statement)
    <3>1. Content(v) = <<Refuse>>
      BY <1>3 DEF Content
    <3> QED
      BY <3>1, Statements, Lists DEF None
  <2> QED
    BY <1>1, <2>5, <2>6, SoundRefuse
<1>4. CASE ~ContentValid(v) /\ v.rows["content"] = "none" /\ v.rows["reviews"] = "none"
  <2>1. Content(v) = ((<<Drop("reviews"), Drop("content")>> \o Make("content")) \o Make("reviews")) \o <<Mark("content")>>
    BY <1>4 DEF Content
  <2> QED
    BY <1>4, <2>1, SeqContent, SoundContentAgain
<1> QED
  BY <1>2, <1>3, <1>4

-----------------------------------------------------------------------------
\* 7. The quarantine of old cleanup requests.
LEMMA CommitMark ==
    ASSUME NEW v, NEW i \in Nat \ {0}, Good(v), Known(i, v), Valid("quarantine", v)
    PROVE  Sound(<<Commit, Mark("quarantine")>>, Flat(v), i)
<1>1. "quarantine" \in Marks \ {"journal_v1", "scope", "phase_a"}
  BY DEF Marks
<1>2. Sound(<<Mark("quarantine")>>, Flat(v), i)
  BY <1>1, SoundOnlyMark
<1>3. /\ Commit \in Statement /\ Mark("quarantine") \in Statement
      /\ <<Mark("quarantine")>> \in Seq(Statement)
      /\ <<Commit, Mark("quarantine")>> = <<Commit>> \o <<Mark("quarantine")>>
  BY <1>1, Statements, Lists
<1>4. Sound(<<Commit>> \o <<Mark("quarantine")>>, In(v, v, FALSE), i)
  BY <1>2, <1>3, FineGood, SoundCommit
<1> QED
  BY <1>3, <1>4, FineGood

\* Whatever marks are set, the queue is as they need it.
LEMMA QueueMarks ==
    ASSUME NEW v, Vouched(v), QueueValid(v, FALSE, FALSE)
    PROVE  Valid("quarantine", v)
<1>1. "identity" \in v.marks => QueueValid(v, TRUE, FALSE)
  BY DEF Vouched, Unread, Valid
<1>2. "token" \in v.marks => QueueValid(v, TRUE, TRUE)
  BY DEF Vouched, Unread, Valid
<1> QED
  BY <1>1, <1>2 DEF Valid, QueueValid

LEMMA SoundQuarantine ==
    ASSUME NEW v, Between(6, v)
    PROVE  Sound(Quarantine(v), Flat(v), 7)
<1>1. /\ Good(v) /\ Known(6, v) /\ Rest(v) /\ Calm(v)
      /\ "quarantine" \in Marks \ Unread /\ "queue" \in Table
  BY FineGood, Tabular DEF Between, Marks, Unread
<1> DEFINE q == <<Commit, Mark("quarantine")>>
<1>2. Commit \in Statement /\ q \in Seq(Statement)
  BY <1>1, Statements, Lists
<1>3. CASE "quarantine" \in seen
  <2>1. v.shape["queue"] \in {"base", "identified", "token"}
    BY <1>1, <1>3, SeenValid DEF Valid, QueueValid
  <2>2. Known(7, v)
    BY <1>1, <2>1 DEF Known
  <2> QED
    BY <1>1, <1>3, <2>2, SoundSeen DEF Quarantine
<1>4. CASE "quarantine" \notin seen /\ QueueValid(v, FALSE, FALSE)
  <2>0. v.shape["queue"] \in {"base", "identified", "token"}
    BY <1>4 DEF QueueValid
  <2>1. Known(7, v)
    BY <1>1, <2>0 DEF Known
  <2>2. Valid("quarantine", v)
    BY <1>1, <1>4, FineGood, QueueMarks
  <2>3. Quarantine(v) = q
    BY <1>2, <1>4, NoneFirst DEF Quarantine
  <2> QED
    BY <1>1, <2>1, <2>2, <2>3, CommitMark
<1>5. CASE "quarantine" \notin seen /\ ~QueueValid(v, FALSE, FALSE) /\ v.rows["queue"] # "none"
  <2>1. v.shape["queue"] \in Forms["queue"] /\ v.shape["queue"] \notin {"none", "torn"}
    BY <1>1, <1>5, RestOf DEF Rest
  <2>2. v.shape["queue"] \in {"part", "widened", "tokened"}
    BY <1>5, <2>1, FormOf DEF QueueValid
  <2>3. Manual(origin) \/ Torn(v)
    BY <1>1, <2>2 DEF Rest, Manual, Torn
  <2>4. Quarantine(v) = <<Refuse>> \o q
    BY <1>5 DEF Quarantine
  <2> QED
    BY <1>1, <1>2, <2>3, <2>4, SoundRefuse
<1>6. CASE "quarantine" \notin seen /\ ~QueueValid(v, FALSE, FALSE) /\ v.rows["queue"] = "none"
  <2>1. Quarantine(v) = (<<Drop("queue")>> \o Make("queue")) \o q
    BY <1>6 DEF Quarantine
  <2>2. Free("queue", v)
    BY <1>1, <1>6, FineGood, FreeTables
  <2> HIDE DEF q
  <2>3. ASSUME NEW e, Good(e), Changed(v, e, "queue", Current["queue"], "none", v.aside["queue"])
        PROVE  Sound(q, Flat(e), 7)
    <3>1. e.shape["queue"] = "token"
      BY <2>3, CurrentIs DEF Changed
    <3>2. Valid("quarantine", e)
      BY <3>1 DEF Valid, QueueValid
    <3>3. \A u \in Table \ {"queue"} : e.shape[u] = v.shape[u]
      BY <2>3 DEF Changed
    <3>4. e.marks = v.marks
      BY <2>3 DEF Changed
    <3>5. Known(7, e)
      <4>1. \A u \in Table \ {"facts"} : e.shape[u] # "none"
        BY <1>1, <3>1, <3>3 DEF Known
      <4>2. e.shape["reviews"] = v.shape["reviews"] /\ e.shape["content"] = v.shape["content"]
        BY <3>3, Tabular
      <4> QED
        BY <1>1, <3>1, <3>4, <4>1, <4>2 DEF Known, ContentValid
    <3> QED
      BY <2>3, <3>2, <3>5, CommitMark DEF q
  <2> QED
    BY <1>1, <1>2, <1>6, <2>1, <2>2, <2>3, SoundRemake
<1> QED
  BY <1>3, <1>4, <1>5, <1>6

-----------------------------------------------------------------------------
\* 8. The identity columns of the queue.  The queue of before them is widened, and the
\* check after it fails: what is on the disk then is for a person.
LEMMA SoundIdentity ==
    ASSUME NEW v, Between(7, v)
    PROVE  Sound(Identity(v), Flat(v), 8)
<1>1. /\ Good(v) /\ Known(7, v) /\ Rest(v) /\ Calm(v) /\ v.shape["queue"] \in {"base", "identified", "token"}
      /\ "identity" \in Marks \ Unread /\ "identity" \in Marks \ {"journal_v1", "scope", "phase_a"}
      /\ "queue" \in Table /\ Current["queue"] = "token"
  <2>1. Good(v) /\ Known(7, v)
    BY DEF Between
  <2>2. v.shape["queue"] \in {"base", "identified", "token"}
    BY <2>1 DEF Known
  <2>3. /\ "identity" \in Marks \ Unread /\ "identity" \in Marks \ {"journal_v1", "scope", "phase_a"}
        /\ "queue" \in Table /\ Current["queue"] = "token"
    BY Tabular, CurrentIs DEF Marks, Unread
  <2> QED
    BY <2>1, <2>2, <2>3, FineGood
<1> DEFINE q == <<Check("identity"), Mark("identity")>>
<1>2. /\ Check("identity") \in Statement /\ Mark("identity") \in Statement /\ q \in Seq(Statement)
      /\ q = <<Check("identity")>> \o <<Mark("identity")>> /\ <<Mark("identity")>> \in Seq(Statement)
  BY <1>1, Statements, Lists
<1>3. Valid("identity", v) => Known(8, v)
  <2>1. Valid("identity", v) => v.shape["queue"] \in {"identified", "token"}
    BY DEF Valid, QueueValid
  <2>2. v.shape["queue"] \in {"identified", "token"} => Known(8, v)
    BY <1>1 DEF Known
  <2> QED
    BY <2>1, <2>2
<1>4. CASE "identity" \in seen
  BY <1>1, <1>3, <1>4, SeenValid, SoundSeen DEF Identity
<1>5. CASE "identity" \notin seen /\ v.shape["queue"] # "base"
  <2>1. v.shape["queue"] \in {"token", "identified"}
    BY <1>1, <1>5
  <2>2. Identity(v) = q
    BY <1>2, <1>5, <2>1, NoneFirst DEF Identity, When
  <2>3. Valid("identity", v)
    BY <2>1 DEF Valid, QueueValid
  <2> QED
    BY <1>1, <1>3, <2>2, <2>3, SoundOnlyCheckMark
<1>6. CASE "identity" \notin seen /\ v.shape["queue"] = "base"
  <2>1. Manual(origin) /\ origin.shape["queue"] = "base"
    BY <1>1, <1>6 DEF Rest, Manual
  <2> DEFINE a == Alter("queue", "part") b == Alter("queue", "widened")
  <2>2. /\ a \in Statement /\ b \in Statement
        /\ "part" \in Forms["queue"] /\ "widened" \in Forms["queue"]
    BY <1>1, FormOf, Statements
  <2>3. Identity(v) = <<a>> \o (<<b>> \o q) /\ <<b>> \o q \in Seq(Statement)
    <3> HIDE DEF a, b, q
    <3>1. Identity(v) = <<a, b>> \o q
      BY <1>6 DEF Identity, When, a, b, q
    <3>2. <<a, b>> = <<a>> \o <<b>> /\ <<a>> \in Seq(Statement) /\ <<b>> \in Seq(Statement)
      BY <2>2, Lists
    <3>3. Regroups(<<a>>, <<b>>, q)
      BY <1>2, <3>2, Assoc
    <3> QED
      BY <1>2, <2>2, <3>1, <3>2, <3>3, Cons DEF Regroups
  <2>4. ASSUME NEW d, Rest(d), Settled(d), d.aside["reviews"] = v.aside["reviews"],
               NEW e, NEW x, Changed(d, e, "queue", x, d.rows["queue"], d.aside["queue"]), Rest(e)
        PROVE  Settled(e) /\ Calm(e) /\ e.aside["reviews"] = v.aside["reviews"]
    <3>1. Settled(e)
      BY <1>1, <2>1, <2>4, SettledAfter DEF Settled
    <3>2. e.aside["reviews"] = v.aside["reviews"]
      BY <2>4, Tabular DEF Changed
    <3> QED
      BY <1>1, <2>1, <3>1, <3>2 DEF Calm
  <2>5. ASSUME NEW e, Rest(e), Changed(v, e, "queue", "part", v.rows["queue"], v.aside["queue"])
        PROVE  Sound(<<b>> \o q, Flat(e), 8)
    <3>1. Settled(e) /\ e.aside["reviews"] = v.aside["reviews"]
      BY <1>1, <2>4, <2>5, FineGood
    <3>2. e.shape["queue"] = "part"
      BY <2>5 DEF Changed
    <3>3. ASSUME NEW f, Rest(f), Changed(e, f, "queue", "widened", e.rows["queue"], e.aside["queue"])
          PROVE  Sound(q, Flat(f), 8)
      <4>1. Settled(f) /\ Calm(f)
        BY <2>4, <2>5, <3>1, <3>3
      <4>2. f.shape["queue"] = "widened"
        BY <3>3 DEF Changed
      <4>3. ~Valid("identity", f)
        BY <4>2 DEF Valid, QueueValid
      <4>4. Fails(Check("identity"), Flat(f).view)
        <5>1. Check("identity").do = "check" /\ Check("identity").on = "identity"
          BY DEF Check, Stmt
        <5>2. Flat(f).view = f
          BY Flatly
        <5> QED
          BY <4>3, <5>1, <5>2 DEF Fails
      <4>5. Fine(Flat(f)) /\ Excused(Flat(f))
        BY <2>1, <3>3, <4>1, Flatly
      <4>6. Sound(<<Check("identity")>> \o <<Mark("identity")>>, Flat(f), 8)
        BY <1>2, <4>4, <4>5, SoundFail
      <4> QED
        BY <1>2, <4>6
    <3> HIDE DEF q
    <3> QED
      BY <1>1, <1>2, <2>1, <2>2, <2>5, <3>1, <3>2, <3>3, SoundAlter
  <2> HIDE DEF b, q
  <2>6. Sound(<<a>> \o (<<b>> \o q), Flat(v), 8)
    BY <1>1, <1>6, <2>1, <2>2, <2>3, <2>5, FineGood, SoundAlter
  <2> QED
    BY <2>3, <2>6
<1> QED
  BY <1>4, <1>5, <1>6

-----------------------------------------------------------------------------
\* 9. The tokens of the queue: all of the rebuild is in one transaction.
SeqTail == <<Mark("token"), Commit, Check("token")>>

LEMMA SoundTokenTail ==
    ASSUME NEW p, NEW v, Fine(In(p, v, TRUE)), Good(v), Known(8, v), v.shape["queue"] = "token"
    PROVE  Sound(SeqTail, In(p, v, TRUE), 9)
<1>1. "token" \in Marks \ Unread /\ "token" \in Marks \ {"journal_v1", "scope", "phase_a"}
  BY DEF Marks, Unread
<1> DEFINE e == Effect(Mark("token"), v)
<1>2. e.marks = v.marks \union {"token"} /\ e.shape = v.shape
  BY <1>1, FineGood, RestMark
<1>3. Good(e)
  <2>1. Ready("token", v)
    BY <1>1, GoodReady, KnownThere DEF Valid, QueueValid
  <2> QED
    BY <1>1, <2>1, GoodMark
<1>4. Known(9, v)
  BY DEF Known
<1>5. Known(9, e)
  BY <1>1, <1>4, FineGood, KnownMark
<1>6. /\ Mark("token") \in Statement /\ Commit \in Statement /\ Check("token") \in Statement
      /\ Mark("token").do = "mark"
  BY <1>1, Statements DEF Mark, Stmt
<1> HIDE DEF e
<1>7. Valid("token", e)
  BY <1>2 DEF Valid, QueueValid
<1>8. Sound(<<Check("token")>>, Flat(e), 9)
  BY <1>1, <1>3, <1>5, <1>7, SoundOnlyCheck
<1>9. Fine(In(p, e, TRUE))
  <2>1. Rest(p) /\ Settled(p)
    BY Openly
  <2> QED
    BY <1>3, <2>1, FineGood, Openly
<1>10. /\ <<Check("token")>> \in Seq(Statement)
       /\ <<Commit, Check("token")>> = <<Commit>> \o <<Check("token")>>
       /\ <<Commit, Check("token")>> \in Seq(Statement)
       /\ SeqTail = <<Mark("token")>> \o <<Commit, Check("token")>>
  BY <1>6, Lists DEF SeqTail
<1>11. Sound(<<Commit, Check("token")>>, In(p, e, TRUE), 9)
  BY <1>8, <1>9, <1>10, SoundCommit
<1>12. e = Effect(Mark("token"), v)
  BY DEF e
<1>13. Sound(<<Mark("token")>> \o <<Commit, Check("token")>>, In(p, v, TRUE), 9)
  BY <1>6, <1>10, <1>11, <1>12, SoundWrite
<1> QED
  BY <1>10, <1>13

\* From a queue that is identified or has tokens: v is what the migration found, d what
\* is on the disk when the rows are written.
LEMMA SoundTokenRows ==
    ASSUME NEW v, Between(8, v), NEW d, Rest(d), Settled(d), d.aside["queue"] = "no",
           NEW x, x \in {"identified", "tokened", "token"},
           Changed(v, d, "queue", x, v.rows["queue"], v.aside["queue"])
    PROVE  Sound(<<Put("queue", v.rows["queue"])>> \o (Rebuild("queue") \o SeqTail), Flat(d), 9)
<1>1. /\ Good(v) /\ Known(8, v) /\ Rest(v)
      /\ "queue" \in Table /\ "queue" \in Renamed /\ v.rows["queue"] \in Rows
      /\ "queue" \in Histories /\ Current["queue"] = "token"
  BY FineGood, RestOf, Tabular, CurrentIs DEF Between, Renamed, Histories
<1>2. SeqTail \in Seq(Statement)
  BY Statements, Lists DEF SeqTail, Marks
<1>3. Rebuild("queue") \o SeqTail \in Seq(Statement)
  BY <1>1, <1>2, SeqRebuild, Joined
<1>4. d.shape["queue"] = x /\ d.rows["queue"] = v.rows["queue"] /\ d.aside["queue"] = "no"
  BY DEF Changed
<1>5. ASSUME NEW e, Rest(e), Changed(d, e, "queue", x, v.rows["queue"], "no")
      PROVE  Sound(Rebuild("queue") \o SeqTail, In(d, e, TRUE), 9)
  <2>1. Changed(v, e, "queue", x, v.rows["queue"], "no")
    BY <1>1, <1>5, ChangedTwice
  <2>2. e.aside["queue"] = "no" /\ e.rows["queue"] = v.rows["queue"]
    BY <2>1 DEF Changed
  <2>3. Fine(In(d, e, TRUE))
    BY <1>5, Openly
  <2>4. ASSUME NEW p, NEW f, Rest(p), Settled(p), Rest(f),
               Changed(e, f, "queue", Current["queue"], v.rows["queue"], "no")
        PROVE  Sound(SeqTail, In(p, f, TRUE), 9)
    <3>1. Changed(v, f, "queue", "token", v.rows["queue"], "no")
      BY <1>1, <2>1, <2>4, ChangedTwice
    <3>2. f.shape["queue"] = "token" /\ f.marks = v.marks
      BY <3>1 DEF Changed
    <3>3. Vouched(f)
      <4>1. ASSUME NEW m \in v.marks \ Unread PROVE (\A t \in Of(m) : Agree(v, f, t)) \/ Valid(m, f)
        <5>1. CASE m \in {"quarantine", "identity", "token"}
          BY <3>2, <4>1, <5>1 DEF Valid, QueueValid
        <5>2. CASE m \notin {"quarantine", "identity", "token"}
          <6>1. "queue" \notin Of(m)
            BY <5>2 DEF Of
          <6> QED
            BY <3>1, <6>1, OfTables DEF Changed, Agree
        <5> QED
          BY <5>1, <5>2
      <4> QED
        BY <1>1, <3>2, <4>1, FineGood, VouchedAs
    <3>4. Good(f)
      <4>1. Settled(f)
        BY <1>1, <3>1, <3>3, FineGood, SettledAfter
      <4> QED
        BY <1>1, <2>4, <3>1, <3>3, <4>1, GoodAfter DEF Whole, Guarded
    <3>5. Known(8, f)
      <4>1. \A u \in Table \ {"queue"} : f.shape[u] = v.shape[u]
        BY <3>1 DEF Changed
      <4> QED
        BY <1>1, <3>2, <4>1, Tabular DEF Known, ContentValid
    <3>6. Fine(In(p, f, TRUE))
      BY <2>4, Openly
    <3> QED
      BY <3>2, <3>4, <3>5, <3>6, SoundTokenTail
  <2>5. \A f, y : ~TRUE /\ y \in {"none", "torn", Current["queue"]} /\ Rest(f)
                  /\ Changed(e, f, "queue", y, "none", e.rows["queue"]) => Settled(f)
    OBVIOUS
  <2>6. \A p, f : Rest(p) /\ Settled(p) /\ Rest(f)
                  /\ Changed(e, f, "queue", Current["queue"], e.rows["queue"], "no")
                      => Sound(SeqTail, In(p, f, TRUE), 9)
    BY <2>2, <2>4
  <2> QED
    BY <1>1, <1>2, <2>2, <2>3, <2>5, <2>6, SoundRebuild DEF Guarded
<1>6. \A e : Rest(e) /\ Changed(d, e, "queue", d.shape["queue"], v.rows["queue"], d.aside["queue"])
          => Sound(Rebuild("queue") \o SeqTail, In(d, e, TRUE), 9)
  BY <1>4, <1>5
<1>7. Fine(In(d, d, FALSE)) /\ Flat(d) = In(d, d, FALSE)
  BY Flatly DEF Flat
<1>8. d.shape["queue"] \notin {"none", "torn"}
  BY <1>4
<1>9. Sound(<<Put("queue", v.rows["queue"])>> \o (Rebuild("queue") \o SeqTail), In(d, d, FALSE), 9)
  BY <1>1, <1>3, <1>4, <1>6, <1>7, <1>8, SoundPut
<1> QED
  BY <1>7, <1>9

LEMMA SoundToken ==
    ASSUME NEW v, Between(8, v)
    PROVE  Sound(Token(v), Flat(v), 9)
<1>1. /\ Good(v) /\ Known(8, v) /\ Rest(v) /\ Settled(v) /\ v.shape["queue"] \in {"identified", "token"}
      /\ "token" \in Marks \ Unread /\ "queue" \in Table /\ v.aside["queue"] = "no"
      /\ Current["queue"] = "token" /\ "tokened" \in Forms["queue"] /\ v.rows["queue"] \in Rows
  <2>1. Good(v) /\ Known(8, v) /\ "queue" \in Table
    BY Tabular DEF Between
  <2>2. Rest(v) /\ Settled(v) /\ v.rows["queue"] \in Rows
    BY <2>1, FineGood, RestOf
  <2>3. v.shape["queue"] \in {"identified", "token"}
    BY <2>1 DEF Known
  <2>4. v.aside["queue"] = "no"
    BY <2>2 DEF Settled
  <2>5. "token" \in Marks \ Unread /\ Current["queue"] = "token" /\ "tokened" \in Forms["queue"]
    BY FormOf, CurrentIs DEF Marks, Unread
  <2> QED
    BY <2>1, <2>2, <2>3, <2>4, <2>5
<1>2. CASE "token" \in seen
  <2>1. Known(9, v)
    BY <1>1 DEF Known
  <2> QED
    BY <1>1, <1>2, <2>1, SoundSeen DEF Token
<1>3. CASE "token" \notin seen
  <2> DEFINE a == Alter("queue", "tokened")
             w == When(v.shape["queue"] = "identified", <<a>>)
             u == <<Put("queue", v.rows["queue"])>>
             r == Rebuild("queue")
             q == u \o (r \o SeqTail)
             wu == w \o u
             rt == r \o SeqTail
  <2>1. /\ a \in Statement /\ w \in Seq(Statement) /\ u \in Seq(Statement)
        /\ r \in Seq(Statement) /\ SeqTail \in Seq(Statement)
    <3>1. a \in Statement /\ Put("queue", v.rows["queue"]) \in Statement
      BY <1>1, Statements
    <3>2. <<a>> \in Seq(Statement) /\ u \in Seq(Statement)
      BY <3>1, Singleton
    <3>3. w \in Seq(Statement)
      BY <3>2 DEF When, None
    <3>4. SeqTail \in Seq(Statement)
      BY Statements, Lists DEF SeqTail, Marks
    <3> QED
      BY <1>1, <3>1, <3>2, <3>3, <3>4, SeqRebuild
  <2>2. Token(v) = (wu \o r) \o SeqTail
    BY <1>3 DEF Token, SeqTail
  <2> HIDE DEF a, w, u, r
  <2>3. wu \in Seq(Statement) /\ rt \in Seq(Statement)
    BY <2>1, Joined
  <2>4. q \in Seq(Statement)
    BY <2>1, <2>3, Joined
  <2> HIDE DEF wu, rt
  <2>5. Regroups(wu, r, SeqTail) /\ Regroups(w, u, rt)
    BY <2>1, <2>3, Assoc
  <2>6. Token(v) = w \o q
    <3>1. (wu \o r) \o SeqTail = wu \o rt
      BY <2>5 DEF Regroups, rt
    <3>2. wu \o rt = w \o (u \o rt)
      BY <2>5 DEF Regroups, wu
    <3> QED
      BY <2>2, <3>1, <3>2 DEF rt
  <2> HIDE DEF q
  <2>7. CASE v.shape["queue"] = "identified"
    <3>1. ASSUME NEW e, Rest(e), Changed(v, e, "queue", "tokened", v.rows["queue"], v.aside["queue"])
          PROVE  Sound(q, Flat(e), 9)
      <4>1. e.shape["queue"] = "tokened" /\ e.aside["queue"] = "no"
        BY <1>1, <3>1 DEF Changed
      <4>2. Torn(e)
        BY <4>1 DEF Torn
      <4>3. Settled(e)
        BY <1>1, <3>1, <4>2, SettledAfter
      <4> QED
        BY <3>1, <4>1, <4>3, SoundTokenRows DEF q, u, r
    <3>2. Sound(<<a>> \o q, Flat(v), 9)
      BY <1>1, <2>4, <2>7, <3>1, SoundAlter DEF a
    <3> QED
      BY <2>6, <2>7, <3>2 DEF w, When
  <2>8. CASE v.shape["queue"] # "identified"
    <3>1. v.shape["queue"] = "token"
      BY <1>1, <2>8
    <3>2. Changed(v, v, "queue", "token", v.rows["queue"], v.aside["queue"])
      BY <1>1, <3>1, RestOf DEF Changed
    <3>3. Sound(q, Flat(v), 9)
      BY <1>1, <3>2, SoundTokenRows DEF q, u, r
    <3>4. w \o q = q
      BY <2>4, <2>8, NoneFirst DEF w, When
    <3> QED
      BY <2>6, <3>3, <3>4
  <2> QED
    BY <2>7, <2>8
<1> QED
  BY <1>2, <1>3

-----------------------------------------------------------------------------
\* 10. The triggers that guard the queue.
LEMMA SoundGuard ==
    ASSUME NEW v, Between(9, v)
    PROVE  Sound(Guard(v), Flat(v), 10)
<1>1. Good(v) /\ Known(10, v)
  BY DEF Between, Known
<1>2. "guard" \in Marks \ {"journal_v1", "scope", "phase_a"} /\ Valid("guard", v)
  BY DEF Marks, Valid
<1> QED
  BY <1>1, <1>2, SoundOnlyMark, SoundNothing DEF Guard, When

-----------------------------------------------------------------------------
\* 11. The evidence of notes.
NoteMarks == {"evidence", "note_ids", "canonical"}

LEMMA NoteForms ==
    ASSUME NEW v
    PROVE  /\ NoteEvidenceValid(v) <=> v.shape["notes"] \in {"evidence", "permanent", "canonical", "versioned"}
           /\ NoteIdentityValid(v) <=> v.shape["notes"] \in {"permanent", "canonical", "versioned"}
                                       /\ v.aside["notes"] = "no"
           /\ NoteCanonicalValid(v) <=> v.shape["notes"] \in {"canonical", "versioned"}
                                        /\ v.aside["notes"] = "no"
           /\ NoteVersioned(v) <=> v.shape["notes"] = "versioned"
           /\ Valid("evidence", v) <=> NoteEvidenceValid(v)
           /\ Valid("note_ids", v) <=> NoteIdentityValid(v)
           /\ Valid("canonical", v) <=> NoteCanonicalValid(v)
BY Levels DEF NoteEvidenceValid, NoteIdentityValid, NoteCanonicalValid, NoteVersioned, Valid

\* What is known when the notes are as the program has them now.
LEMMA KnownVersioned ==
    ASSUME NEW v, NEW i \in 11..15, Known(i, v), NEW j \in {i, i + 1}, j \in 11..15, j # 14 \/ i = 14,
           NEW e, e.marks = v.marks, e.rows["analyses"] = v.rows["analyses"],
           \A u \in Table \ {"notes", "facts"} : e.shape[u] = v.shape[u],
           e.shape["notes"] = "versioned", e.aside["notes"] = "no"
    PROVE  Known(j, e)
<1>1. \A u \in Table \ {"facts"} : e.shape[u] # "none"
  BY DEF Known
<1>2. /\ e.shape["reviews"] = v.shape["reviews"] /\ e.shape["content"] = v.shape["content"]
      /\ e.shape["queue"] = v.shape["queue"]
  BY Tabular
<1>3. /\ "scope" \in e.marks /\ e.shape["reviews"] # "plain" /\ ContentValid(e)
      /\ e.shape["queue"] \in {"identified", "token"}
  BY <1>2 DEF Known, ContentValid
<1>4. e.shape["queue"] \in {"base", "identified", "token"}
  BY <1>3
<1>5. NoteEvidenceValid(e) /\ NoteIdentityValid(e) /\ NoteCanonicalValid(e)
  BY NoteForms
<1>6. /\ j < 14 => ("journal" \in e.marks => "journal" \in seen)
      /\ j < 16 => ("snapshot" \in e.marks => "snapshot" \in seen)
  BY DEF Known
<1> QED
  BY <1>1, <1>3, <1>4, <1>5, <1>6 DEF Known

LEMMA SoundEvidence ==
    ASSUME NEW v, Between(10, v)
    PROVE  Sound(Evidence(v), Flat(v), 11)
<1>1. /\ Good(v) /\ Known(10, v) /\ Rest(v) /\ "notes" \in Table /\ "notes" \in Histories
      /\ "evidence" \in Marks \ Unread /\ "evidence" \in Marks \ {"journal_v1", "scope", "phase_a"}
  BY FineGood, Tabular DEF Between, Marks, Unread, Histories
<1> DEFINE q == <<Check("evidence"), Mark("evidence")>>
<1>2. q \in Seq(Statement)
  BY <1>1, Statements, Lists
<1>3. NoteEvidenceValid(v) => Known(11, v) /\ Valid("evidence", v)
  BY <1>1, NoteForms DEF Known
<1>4. CASE "evidence" \in seen
  <2>1. Valid("evidence", v) /\ NoteEvidenceValid(v)
    BY <1>1, <1>4, SeenValid, NoteForms
  <2> QED
    BY <1>1, <1>3, <1>4, <2>1, SoundOnlyCheck DEF Evidence
<1>5. CASE "evidence" \notin seen /\ NoteEvidenceValid(v)
  <2>1. Evidence(v) = q
    BY <1>2, <1>5, NoneFirst DEF Evidence
  <2> QED
    BY <1>1, <1>3, <1>5, <2>1, SoundOnlyCheckMark
<1>6. CASE "evidence" \notin seen /\ ~NoteEvidenceValid(v) /\ v.rows["notes"] # "none"
  <2>1. /\ v.shape["notes"] \in Forms["notes"] /\ v.shape["notes"] \notin {"none", "torn"}
        /\ v.rows["notes"] = "here"
    BY <1>1, <1>6, RestOf DEF Rest
  <2>2. v.shape["notes"] \in {"weak", "unguarded"}
    BY <1>6, <2>1, FormOf, NoteForms
  <2>3. Manual(origin) \/ Torn(v)
    BY <1>1, <2>1, <2>2 DEF Rest, Manual, Torn, Guarded
  <2>4. Evidence(v) = <<Refuse>> \o q
    BY <1>6 DEF Evidence
  <2> QED
    BY <1>1, <1>2, <2>3, <2>4, SoundRefuse
<1>7. CASE "evidence" \notin seen /\ ~NoteEvidenceValid(v) /\ v.rows["notes"] = "none"
  <2>1. Evidence(v) = (<<Drop("notes")>> \o Make("notes")) \o q
    BY <1>7 DEF Evidence
  <2>2. Free("notes", v) /\ v.shape["notes"] # "versioned"
    BY <1>1, <1>7, FineGood, FreeTables, NoteForms
  <2>3. ASSUME NEW e, Good(e), Changed(v, e, "notes", Current["notes"], "none", v.aside["notes"])
        PROVE  Sound(q, Flat(e), 11)
    <3>1. e.shape["notes"] = "versioned" /\ e.marks = v.marks /\ \A u \in Table \ {"notes"} : e.shape[u] = v.shape[u]
      BY <2>3, CurrentIs DEF Changed
    <3>2. NoteEvidenceValid(e) /\ Valid("evidence", e)
      BY <3>1, NoteForms
    <3>3. \A u \in Table \ {"facts"} : e.shape[u] # "none"
      BY <1>1, <3>1 DEF Known
    <3>4. /\ e.shape["reviews"] = v.shape["reviews"] /\ e.shape["content"] = v.shape["content"]
          /\ e.shape["queue"] = v.shape["queue"]
      BY <3>1, Tabular
    <3>5. Known(11, e)
      BY <1>1, <3>1, <3>2, <3>3, <3>4 DEF Known, ContentValid
    <3> QED
      BY <1>1, <2>3, <3>2, <3>5, SoundOnlyCheckMark
  <2> HIDE DEF q
  <2> QED
    BY <1>1, <1>2, <1>7, <2>1, <2>2, <2>3, SoundRemake
<1> QED
  BY <1>4, <1>5, <1>6, <1>7

-----------------------------------------------------------------------------
\* 12, 13 and 16: the notes are rebuilt.  From the loss of the first guard to the copy
\* the disk is torn.
LEMMA SoundNotes ==
    ASSUME NEW v, NEW i, Rest(v), Settled(v), v.aside["notes"] = "no", NoteEvidenceValid(v),
           ~NoteVersioned(v), NEW q \in Seq(Statement),
           \A p, e : Rest(p) /\ Settled(p) /\ Rest(e)
                        /\ Changed(v, e, "notes", "versioned", v.rows["notes"], "no")
                            => Sound(q, In(p, e, TRUE), i)
    PROVE  Sound(Rebuild("notes") \o q, Flat(v), i)
<1>1. /\ "notes" \in Renamed /\ "notes" \in Table /\ Current["notes"] = "versioned"
      /\ v.rows["notes"] # "no" /\ Fine(In(v, v, FALSE)) /\ Flat(v) = In(v, v, FALSE)
  <2>1. "notes" \in Renamed /\ "notes" \in Table /\ Current["notes"] = "versioned"
    BY Tabular, CurrentIs DEF Renamed
  <2>2. v.rows["notes"] \in Rows
    BY <2>1, RestOf
  <2>3. Fine(In(v, v, FALSE)) /\ Flat(v) = In(v, v, FALSE)
    BY Flatly DEF Flat
  <2> QED
    BY <2>1, <2>2, <2>3 DEF Rows
<1>2. ASSUME NEW e, NEW x, Changed(v, e, "notes", x, "none", v.rows["notes"]) PROVE Settled(e)
  <2>1. Torn(e)
    BY <1>1, <1>2 DEF Changed, Torn, Guarded
  <2> QED
    BY <1>1, <1>2, <2>1, SettledAfter
<1>3. ASSUME NEW e, NEW r, Changed(v, e, "notes", "unguarded", r, "no") PROVE Settled(e)
  <2>1. Torn(e)
    BY <1>3 DEF Changed, Torn, Guarded
  <2> QED
    BY <1>1, <1>3, <2>1, SettledAfter
<1>4. v.shape["notes"] \notin {"none", "unguarded", Current["notes"]}
  BY <1>1, NoteForms
<1>5. Sound(Rebuild("notes") \o q, In(v, v, FALSE), i)
  BY <1>1, <1>2, <1>3, <1>4, SoundRebuild
<1> QED
  BY <1>1, <1>5

LEMMA VersionedIs ==
    ASSUME NEW v, Vouched(v), v.marks \subseteq Marks, NEW e,
           Changed(v, e, "notes", "versioned", v.rows["notes"], "no")
    PROVE  /\ Vouched(e) /\ e.marks = v.marks /\ e.rows["analyses"] = v.rows["analyses"]
           /\ e.rows["notes"] = v.rows["notes"]
           /\ \A u \in Table \ {"notes"} : e.shape[u] = v.shape[u] /\ e.rows[u] = v.rows[u]
           /\ e.shape["notes"] = "versioned" /\ e.aside["notes"] = "no"
<1>1. /\ e.marks = v.marks /\ e.rows["analyses"] = v.rows["analyses"]
      /\ e.rows["notes"] = v.rows["notes"]
      /\ \A u \in Table \ {"notes"} : e.shape[u] = v.shape[u] /\ e.rows[u] = v.rows[u]
      /\ e.shape["notes"] = "versioned" /\ e.aside["notes"] = "no" /\ "notes" \in Table
  BY Tabular DEF Changed
<1>2. ASSUME NEW m \in v.marks \ Unread PROVE (\A t \in Of(m) : Agree(v, e, t)) \/ Valid(m, e)
  <2>1. CASE m \in NoteMarks
    BY <1>1, <2>1, NoteForms DEF NoteMarks
  <2>2. CASE m = "snapshot"
    <3>1. SnapshotValid(v)
      BY <1>2, <2>2 DEF Vouched, Valid
    <3>2. NoteVersioned(e)
      BY <1>1, NoteForms
    <3>3. /\ e.shape["snapshots"] = v.shape["snapshots"] /\ e.rows["snapshots"] = v.rows["snapshots"]
          /\ e.shape["facts"] = v.shape["facts"]
      BY <1>1, Tabular
    <3> QED
      BY <1>1, <2>2, <3>1, <3>2, <3>3 DEF Valid, SnapshotValid
  <2>3. CASE m \notin NoteMarks /\ m # "snapshot"
    <3>1. "notes" \notin Of(m)
      BY <2>3 DEF Of, NoteMarks
    <3> QED
      BY <3>1, OfTables DEF Changed, Agree
  <2> QED
    BY <2>1, <2>2, <2>3
<1>3. Vouched(e)
  BY <1>1, <1>2, VouchedAs
<1> QED
  BY <1>1, <1>3

LEMMA GoodVersioned ==
    ASSUME NEW v, Good(v), NEW e, Rest(e),
           Changed(v, e, "notes", "versioned", v.rows["notes"], "no")
    PROVE  /\ Good(e) /\ e.marks = v.marks /\ e.rows["analyses"] = v.rows["analyses"]
           /\ \A u \in Table \ {"notes"} : e.shape[u] = v.shape[u]
           /\ e.shape["notes"] = "versioned" /\ e.aside["notes"] = "no"
<1>1. /\ Vouched(e) /\ e.marks = v.marks /\ e.rows["analyses"] = v.rows["analyses"]
      /\ \A u \in Table \ {"notes"} : e.shape[u] = v.shape[u]
      /\ e.shape["notes"] = "versioned" /\ e.aside["notes"] = "no"
  <2>1. Vouched(v) /\ v.marks \subseteq Marks
    BY FineGood
  <2> QED
    BY <2>1, VersionedIs
<1>2. Settled(e)
  BY <1>1, FineGood, Tabular, SettledAfter
<1>3. Good(e)
  BY <1>1, <1>2, Tabular, GoodAfter DEF Whole, Guarded
<1> QED
  BY <1>1, <1>3

\* One level of the notes: a check of the level before, a rebuild if it is needed, the
\* check of the level and its mark.
LEMMA SoundLevel ==
    ASSUME NEW v, NEW i \in {12, 13}, Between(i - 1, v), NEW m \in NoteMarks, NEW k \in NoteMarks,
           Valid(m, v), NEW w, \/ w = Rebuild("notes") /\ ~NoteVersioned(v)
                               \/ w = None /\ Valid(k, v) /\ Known(i, v)
    PROVE  Sound((<<Check(m)>> \o w) \o <<Check(k), Mark(k)>>, Flat(v), i)
<1>1. /\ Good(v) /\ Known(i - 1, v) /\ "notes" \in Table /\ i \in Nat \ {0}
      /\ NoteMarks \subseteq Marks \ {"journal_v1", "scope", "phase_a", "journal", "snapshot"}
  BY Tabular DEF Between, NoteMarks, Marks
<1> DEFINE q == <<Check(k), Mark(k)>>
<1>2. q \in Seq(Statement) /\ <<Check(m)>> \in Seq(Statement) /\ w \in Seq(Statement)
  <2>1. Check(k) \in Statement /\ Mark(k) \in Statement /\ Check(m) \in Statement
    BY <1>1, Statements
  <2>2. None \in Seq(Statement) /\ q \in Seq(Statement) /\ <<Check(m)>> \in Seq(Statement)
    BY <2>1, Singleton DEF None
  <2>3. w \in Seq(Statement)
    BY <1>1, <2>2, SeqRebuild
  <2> QED
    BY <2>2, <2>3
<1>3. Sound(w \o q, Flat(v), i)
  <2>1. CASE w = Rebuild("notes") /\ ~NoteVersioned(v)
    <3>1. ASSUME NEW p, NEW e, Rest(p), Settled(p), Rest(e),
                 Changed(v, e, "notes", "versioned", v.rows["notes"], "no")
          PROVE  Sound(q, In(p, e, TRUE), i)
      <4>1. Good(e)
        BY <1>1, <3>1, GoodVersioned
      <4>2. Known(i, e)
        <5>1. /\ e.marks = v.marks /\ e.rows["analyses"] = v.rows["analyses"]
              /\ \A u \in Table \ {"notes"} : e.shape[u] = v.shape[u]
              /\ e.shape["notes"] = "versioned" /\ e.aside["notes"] = "no"
          BY <1>1, <3>1, GoodVersioned
        <5>2. i - 1 \in 11..15 /\ i \in 11..15 /\ i \in {i - 1, (i - 1) + 1} /\ i # 14
          OBVIOUS
        <5> QED
          BY <1>1, <5>1, <5>2, KnownVersioned
      <4>3. Valid(k, e)
        BY <1>1, <3>1, GoodVersioned, NoteForms DEF NoteMarks
      <4>4. Fine(In(p, e, TRUE))
        BY <3>1, Openly
      <4> QED
        BY <1>1, <4>1, <4>2, <4>3, <4>4, SoundDone
    <3> HIDE DEF q
    <3>2. NoteEvidenceValid(v) /\ v.aside["notes"] = "no"
      <4>1. i - 1 >= 11
        OBVIOUS
      <4>2. NoLeftovers(v)
        BY <1>1, FineGood
      <4> QED
        BY <1>1, <4>1, <4>2 DEF Known, NoLeftovers
    <3> QED
      BY <1>1, <1>2, <2>1, <3>1, <3>2, FineGood, SoundNotes
  <2>2. CASE w = None /\ Valid(k, v) /\ Known(i, v)
    <3>1. Sound(q, Flat(v), i)
      BY <1>1, <2>2, SoundOnlyCheckMark
    <3> QED
      BY <1>2, <2>2, <3>1, NoneFirst
  <2> QED
    BY <2>1, <2>2
<1> HIDE DEF q
<1>4. Regroups(<<Check(m)>>, w, q) /\ w \o q \in Seq(Statement)
  BY <1>2, Assoc, Joined
<1>5. Sound(<<Check(m)>> \o (w \o q), In(v, v, FALSE), i)
  BY <1>1, <1>3, <1>4, FineGood, SoundCheck
<1> QED
  BY <1>1, <1>4, <1>5, FineGood DEF Regroups, q

LEMMA SoundNoteIdentity ==
    ASSUME NEW v, Between(11, v)
    PROVE  Sound(NoteIdentity(v), Flat(v), 12)
<1>1. Good(v) /\ Known(11, v) /\ NoLeftovers(v) /\ "note_ids" \in Marks \ Unread
  BY FineGood DEF Between, Marks, Unread
<1>2. NoteIdentityValid(v) => Known(12, v)
  BY <1>1 DEF Known
<1>3. CASE "note_ids" \in seen
  <2>1. Valid("note_ids", v) /\ NoteIdentityValid(v)
    BY <1>1, <1>3, SeenValid, NoteForms
  <2> QED
    BY <1>1, <1>2, <1>3, <2>1, SoundOnlyCheck DEF NoteIdentity
<1>4. CASE "note_ids" \notin seen
  <2> DEFINE w == When(~NotesAtLeast(2, v), Rebuild("notes"))
  <2>1. Valid("evidence", v)
    BY <1>1, NoteForms DEF Known
  <2>2. \/ w = Rebuild("notes") /\ ~NoteVersioned(v)
        \/ w = None /\ Valid("note_ids", v) /\ Known(12, v)
    BY <1>1, <1>2, NoteForms, Levels DEF When, NoteIdentityValid, NoLeftovers
  <2>3. NoteIdentity(v) = (<<Check("evidence")>> \o w) \o <<Check("note_ids"), Mark("note_ids")>>
    BY <1>4 DEF NoteIdentity
  <2>4. "evidence" \in NoteMarks /\ "note_ids" \in NoteMarks
    BY DEF NoteMarks
  <2> HIDE DEF w
  <2> QED
    BY <2>1, <2>2, <2>3, <2>4, SoundLevel
<1> QED
  BY <1>3, <1>4

LEMMA SoundNoteCanonical ==
    ASSUME NEW v, Between(12, v)
    PROVE  Sound(NoteCanonical(v), Flat(v), 13)
<1>1. Good(v) /\ Known(12, v) /\ NoLeftovers(v) /\ "canonical" \in Marks \ Unread
  BY FineGood DEF Between, Marks, Unread
<1>2. NoteCanonicalValid(v) => Known(13, v)
  BY <1>1 DEF Known
<1>3. CASE "canonical" \in seen
  <2>1. Valid("canonical", v) /\ NoteCanonicalValid(v)
    BY <1>1, <1>3, SeenValid, NoteForms
  <2> QED
    BY <1>1, <1>2, <1>3, <2>1, SoundOnlyCheck DEF NoteCanonical
<1>4. CASE "canonical" \notin seen
  <2> DEFINE w == When(~NotesAtLeast(3, v), Rebuild("notes"))
  <2>1. Valid("note_ids", v)
    BY <1>1, NoteForms DEF Known
  <2>2. \/ w = Rebuild("notes") /\ ~NoteVersioned(v)
        \/ w = None /\ Valid("canonical", v) /\ Known(13, v)
    BY <1>1, <1>2, NoteForms, Levels DEF When, NoteCanonicalValid, NoLeftovers
  <2>3. NoteCanonical(v) = (<<Check("note_ids")>> \o w) \o <<Check("canonical"), Mark("canonical")>>
    BY <1>4 DEF NoteCanonical
  <2>4. "canonical" \in NoteMarks /\ "note_ids" \in NoteMarks
    BY DEF NoteMarks
  <2> HIDE DEF w
  <2> QED
    BY <2>1, <2>2, <2>3, <2>4, SoundLevel
<1> QED
  BY <1>3, <1>4

-----------------------------------------------------------------------------
\* 14. The journal of deletions.
\* What is known is not about the journal, the snapshots or the opportunities, and of the
\* analyses only that no claim is left.
LEMMA KnownOther ==
    ASSUME NEW v, NEW i \in 13..17, Known(i, v),
           NEW t \in {"journal", "snapshots", "facts", "analyses", "opportunities"},
           NEW e, NEW x, NEW r, NEW a, Changed(v, e, t, x, r, a), x # "none" \/ t = "facts",
           t = "analyses" => r # "claimed"
    PROVE  Known(i, e)
<1>1. /\ e.marks = v.marks /\ e.shape[t] = x /\ e.rows[t] = r
      /\ \A u \in Table \ {t} : /\ e.shape[u] = v.shape[u] /\ e.rows[u] = v.rows[u]
                                /\ e.aside[u] = v.aside[u]
  BY DEF Changed
<1>2. \A u \in Table \ {"facts"} : e.shape[u] # "none"
  BY <1>1 DEF Known
<1>3. /\ e.shape["reviews"] = v.shape["reviews"] /\ e.shape["content"] = v.shape["content"]
      /\ e.shape["queue"] = v.shape["queue"] /\ e.shape["notes"] = v.shape["notes"]
      /\ e.aside["notes"] = v.aside["notes"]
  BY <1>1, Tabular
<1>4. /\ "scope" \in e.marks /\ e.shape["reviews"] # "plain" /\ ContentValid(e)
      /\ e.shape["queue"] \in {"identified", "token"}
  BY <1>1, <1>3 DEF Known, ContentValid
<1>5. NoteEvidenceValid(e) /\ NoteIdentityValid(e) /\ NoteCanonicalValid(e)
  BY <1>3, NoteForms DEF Known
<1>6. i >= 17 => e.rows["analyses"] # "claimed"
  BY <1>1, Tabular DEF Known
<1>7. /\ i < 14 => ("journal" \in e.marks => "journal" \in seen)
      /\ i < 16 => ("snapshot" \in e.marks => "snapshot" \in seen)
  BY <1>1 DEF Known
<1>8. e.shape["queue"] \in {"base", "identified", "token"} /\ ~(i >= 18)
  BY <1>4
<1> QED
  BY <1>2, <1>4, <1>5, <1>6, <1>7, <1>8 DEF Known

SeqJournal == <<Check("journal"), Mark("journal")>>

LEMMA SoundJournalAgain ==
    ASSUME NEW v, Between(13, v), "journal" \notin v.marks, v.shape["journal"] = "v1"
    PROVE  Sound(Rebuild("journal") \o SeqJournal, Flat(v), 14)
<1>1. /\ Good(v) /\ Known(13, v) /\ "journal" \in Marks \ {"journal_v1"}
      /\ "journal" \in Renamed /\ "journal" \in Table /\ Current["journal"] = "v2"
  BY Tabular, CurrentIs DEF Between, Marks, Renamed
<1>2. v.aside["journal"] = "no" /\ v.rows["journal"] # "no"
  <2>1. v.aside["journal"] = "no"
    BY <1>1, FineGood DEF NoLeftovers
  <2>2. v.rows["journal"] \in Rows
    BY <1>1, FineGood, RestOf
  <2> QED
    BY <2>1, <2>2 DEF Rows
<1>3. SeqJournal \in Seq(Statement)
  BY <1>1, Statements, Lists DEF SeqJournal
<1>4. ASSUME NEW e, NEW x, Changed(v, e, "journal", x, "none", v.rows["journal"]) PROVE Settled(e)
  <2>1. Torn(e)
    BY <1>2, <1>4 DEF Changed, Torn, Guarded
  <2> QED
    BY <1>1, <1>2, <1>4, <2>1, FineGood, SettledAfter
<1>5. ASSUME NEW p, NEW e, Rest(p), Settled(p), Rest(e),
             Changed(v, e, "journal", Current["journal"], v.rows["journal"], "no")
      PROVE  Sound(SeqJournal, In(p, e, TRUE), 14)
  <2>1. e.shape["journal"] = "v2" /\ e.aside["journal"] = "no" /\ e.marks = v.marks
    BY <1>1, <1>5 DEF Changed
  <2>2. Vouched(e)
    <3>1. Free("journal", v)
      BY <1>1, FineGood, FreeTables
    <3> QED
      BY <1>1, <1>5, <3>1, FineGood, FreeStays
  <2>3. Calm(e) /\ NoLeftovers(e) /\ seen \subseteq e.marks /\ Frozen(e)
    <3>1. Whole(v, "journal", Current["journal"], v.rows["journal"])
      BY <1>1 DEF Whole
    <3>2. /\ Changed(v, e, "journal", Current["journal"], v.rows["journal"], "no")
          /\ Good(v) /\ Frozen(v) /\ "journal" \in Table /\ "no" \in {"no", v.aside["journal"]}
      BY <1>1, <1>5, FineGood
    <3>3. Frozen(e)
      BY <3>1, <3>2, BoundAfter
    <3> QED
      BY <2>2, <3>1, <3>2, <3>3, CalmAfter
  <2>4. e.aside["queue"] = "no" /\ NewSnapshots(e) /\ e.shape["snapshots"] # "none"
    <3>1. v.aside["queue"] = "no" /\ NewSnapshots(v)
      BY <1>1, FineGood DEF Settled
    <3>2. v.shape["snapshots"] # "none"
      BY <1>1, Tabular DEF Known
    <3> QED
      BY <1>5, <2>1, <3>1, <3>2, Tabular DEF Changed, NewSnapshots
  <2>5. Valid("journal", e)
    BY <2>1 DEF Valid, JournalValid
  <2>6. Ready("journal", e)
    BY <1>5, <2>2, <2>3, <2>4, <2>5 DEF Ready
  <2>7. Known(14, Effect(Mark("journal"), e))
    <3>1. Known(13, e)
      BY <1>1, <1>5, KnownOther
    <3>2. Known(14, e)
      BY <3>1 DEF Known
    <3> QED
      BY <1>1, <1>5, <3>2, KnownMark
  <2>8. Fine(In(p, e, TRUE))
    BY <1>5, Openly
  <2> QED
    BY <1>1, <2>5, <2>6, <2>7, <2>8, SoundCheckMark DEF SeqJournal
<1>6. ASSUME NEW e, NEW r, Changed(v, e, "journal", "unguarded", r, "no") PROVE Settled(e)
  <2>1. Torn(e)
    BY <1>6 DEF Changed, Torn, Guarded
  <2> QED
    BY <1>1, <1>6, <2>1, FineGood, SettledAfter
<1>7. Sound(Rebuild("journal") \o SeqJournal, In(v, v, FALSE), 14)
  BY <1>1, <1>2, <1>3, <1>4, <1>5, <1>6, FineGood, SoundRebuild
<1> QED
  BY <1>1, <1>7, FineGood

LEMMA SoundJournal ==
    ASSUME NEW v, Between(13, v)
    PROVE  Sound(Journal(v), Flat(v), 14)
<1>1. /\ Good(v) /\ Known(13, v) /\ Known(14, v) /\ Rest(v) /\ Settled(v) /\ NoLeftovers(v)
      /\ {"journal", "journal_v1"} \subseteq Marks /\ "journal" \in Marks \ Unread
      /\ "journal" \in Marks \ {"journal_v1", "scope", "phase_a"}
      /\ "journal" \in Table /\ Current["journal"] = "v2"
  <2>1. Good(v) /\ Known(13, v)
    BY DEF Between
  <2>2. Known(14, v)
    BY <2>1 DEF Known
  <2> QED
    BY <2>1, <2>2, FineGood, Tabular, CurrentIs DEF Marks, Unread
<1>2. SeqJournal \in Seq(Statement) /\ Check("journal_v1") \in Statement
  BY <1>1, Statements, Lists DEF SeqJournal
<1>3. CASE "journal" \in seen
  BY <1>1, <1>3, SoundSeen DEF Journal
<1>4. CASE "journal" \notin seen /\ "journal_v1" \in v.marks
  <2>1. "journal" \notin v.marks
    BY <1>1, <1>4 DEF Known
  <2>2. v.shape["journal"] \in {"v1", "unguarded"}
    BY <1>1, <1>4, <2>1 DEF Settled, NoLeftovers
  <2>3. Journal(v) = (<<Check("journal_v1")>> \o Rebuild("journal")) \o SeqJournal
    BY <1>4 DEF Journal, SeqJournal
  <2>4. Rebuild("journal") \in Seq(Statement) /\ <<Check("journal_v1")>> \in Seq(Statement)
    BY <1>1, <1>2, SeqRebuild, Lists
  <2>5. Regroups(<<Check("journal_v1")>>, Rebuild("journal"), SeqJournal)
        /\ Rebuild("journal") \o SeqJournal \in Seq(Statement)
    BY <1>2, <2>4, Assoc, Joined
  <2>6. ASSUME v.shape["journal"] = "v1"
        PROVE  Sound(<<Check("journal_v1")>> \o (Rebuild("journal") \o SeqJournal), In(v, v, FALSE), 14)
    <3>1. Valid("journal_v1", v)
      BY <2>6 DEF Valid, JournalV1Valid
    <3>2. Sound(Rebuild("journal") \o SeqJournal, In(v, v, FALSE), 14)
      <4>1. Sound(Rebuild("journal") \o SeqJournal, Flat(v), 14)
        BY <2>1, <2>6, SoundJournalAgain
      <4> QED
        BY <1>1, <4>1, FineGood
    <3> QED
      BY <1>1, <2>5, <3>1, <3>2, FineGood, SoundCheck
  <2>7. ASSUME v.shape["journal"] = "unguarded"
        PROVE  Sound(<<Check("journal_v1")>> \o (Rebuild("journal") \o SeqJournal), In(v, v, FALSE), 14)
    <3>1. ~Valid("journal_v1", v) /\ Torn(v)
      BY <2>7 DEF Valid, JournalV1Valid, Torn, Guarded
    <3>2. Fails(Check("journal_v1"), Flat(v).view)
      <4>1. Check("journal_v1").do = "check" /\ Check("journal_v1").on = "journal_v1"
        BY DEF Check, Stmt
      <4>2. Flat(v).view = v
        BY Flatly
      <4> QED
        BY <3>1, <4>1, <4>2 DEF Fails
    <3>3. Fine(Flat(v)) /\ Excused(Flat(v))
      BY <1>1, <3>1, FineGood, Flatly DEF Calm
    <3>4. Sound(<<Check("journal_v1")>> \o (Rebuild("journal") \o SeqJournal), Flat(v), 14)
      <4> DEFINE r == Rebuild("journal") \o SeqJournal
                 s == Check("journal_v1")
                 c == Flat(v)
      <4>1. /\ s \in Statement /\ r \in Seq(Statement) /\ Fine(c) /\ Fails(s, c.view) /\ Excused(c)
        BY <1>2, <2>5, <3>2, <3>3
      <4> HIDE DEF r, s, c
      <4>2. Sound(<<s>> \o r, c, 14)
        BY <4>1, SoundFail
      <4> QED
        BY <4>2 DEF r, s, c
    <3> QED
      BY <1>1, <3>4, FineGood
  <2>8. Sound(<<Check("journal_v1")>> \o (Rebuild("journal") \o SeqJournal), In(v, v, FALSE), 14)
    BY <2>2, <2>6, <2>7
  <2> QED
    BY <1>1, <2>3, <2>5, <2>8, FineGood DEF Regroups
<1>5. CASE "journal" \notin seen /\ "journal_v1" \notin v.marks /\ JournalValid(v)
  <2>1. Journal(v) = SeqJournal
    BY <1>2, <1>5, NoneFirst DEF Journal, SeqJournal
  <2>2. Valid("journal", v)
    BY <1>5 DEF Valid
  <2> QED
    BY <1>1, <2>1, <2>2, SoundOnlyCheckMark DEF SeqJournal
<1>6. CASE "journal" \notin seen /\ "journal_v1" \notin v.marks /\ ~JournalValid(v)
           /\ v.rows["journal"] # "none"
  <2>1. v.shape["journal"] = "unguarded"
    <3>1. v.shape["journal"] \in Forms["journal"] /\ v.aside["journal"] = "no"
      BY <1>1, RestOf DEF NoLeftovers
    <3>2. v.shape["journal"] # "v1" /\ v.shape["journal"] # "v2"
      BY <1>1, <1>6, <3>1 DEF Rest, JournalValid
    <3>3. v.shape["journal"] \notin {"none", "torn"}
      BY <1>1, <1>6 DEF Rest
    <3> QED
      BY <3>1, <3>2, <3>3, FormOf
  <2>2. Torn(v)
    BY <2>1 DEF Torn, Guarded
  <2>3. Journal(v) = <<Refuse>> \o SeqJournal
    BY <1>6 DEF Journal, SeqJournal
  <2> QED
    BY <1>1, <1>2, <2>2, <2>3, SoundRefuse
<1>7. CASE "journal" \notin seen /\ "journal_v1" \notin v.marks /\ ~JournalValid(v)
           /\ v.rows["journal"] = "none"
  <2>1. v.rows["journal"] = "none"
    BY <1>7
  <2>2. Journal(v) = (<<Drop("journal")>> \o Make("journal")) \o SeqJournal
    BY <1>7, <2>1 DEF Journal, SeqJournal
  <2>3. Free("journal", v)
    BY <1>1, <1>7, FineGood, FreeTables
  <2>4. ASSUME NEW e, Good(e), Changed(v, e, "journal", Current["journal"], "none", v.aside["journal"])
        PROVE  Sound(SeqJournal, Flat(e), 14)
    <3>1. Known(14, e)
      BY <1>1, <2>4, KnownOther
    <3>2. Valid("journal", e)
      BY <1>1, <2>4 DEF Changed, NoLeftovers, Valid, JournalValid
    <3> QED
      BY <1>1, <2>4, <3>1, <3>2, SoundOnlyCheckMark DEF SeqJournal
  <2>5. /\ "journal" \in Table \ {"analyses", "content", "snapshots", "facts"} /\ Good(v) /\ SeqJournal \in Seq(Statement)
        /\ "journal" = "journal" => "journal_v1" \notin v.marks
    BY <1>1, <1>2, <1>7
  <2>6. Sound((<<Drop("journal")>> \o Make("journal")) \o SeqJournal, Flat(v), 14)
    BY <2>1, <2>3, <2>4, <2>5, SoundRemake
  <2> QED
    BY <2>2, <2>6
<1> QED
  BY <1>3, <1>4, <1>5, <1>6, <1>7

-----------------------------------------------------------------------------
\* 15. The binding of notes.
LEMMA SoundBindingAgain ==
    ASSUME NEW v, Between(14, v), Unbound(v)
    PROVE  Sound(<<Check("canonical"), Drop("facts"), Create("facts", "bound"), Check("binding"),
                   Mark("binding")>>, Flat(v), 15)
<1>1. /\ Good(v) /\ Known(15, v) /\ Rest(v) /\ "canonical" \in Marks
      /\ "binding" \in Marks \ {"journal_v1", "scope", "phase_a"} /\ "binding" \in Unread
      /\ "facts" \in Table \ {"journal", "snapshots"} /\ "facts" \notin Histories
      /\ "bound" \in Forms["facts"] /\ "none" \in Forms["facts"]
  <2>1. Good(v) /\ Known(14, v)
    BY DEF Between
  <2>2. Known(15, v)
    BY <2>1 DEF Known
  <2> QED
    BY <2>1, <2>2, FineGood, Tabular, FormOf DEF Marks, Unread, Histories
<1> DEFINE q == <<Check("binding"), Mark("binding")>>
           c == Check("canonical") d == Drop("facts") n == Create("facts", "bound")
           e == Effect(d, v)  f == Effect(n, e)
<1>2. /\ c \in Statement /\ d \in Statement /\ n \in Statement /\ q \in Seq(Statement)
      /\ d.do = "drop" /\ n.do = "create" /\ (\A u : ~Fails(d, u)) /\ (\A u : ~Fails(n, u))
  <2>1. /\ c \in Statement /\ d \in Statement /\ n \in Statement
        /\ Check("binding") \in Statement /\ Mark("binding") \in Statement
    BY <1>1, Statements
  <2>2. q \in Seq(Statement)
    BY <2>1, Lists
  <2>3. d.do = "drop" /\ n.do = "create"
    BY DEF Drop, Create, Stmt
  <2> QED
    BY <2>1, <2>2, <2>3 DEF Fails
<1>3. <<c, d, n, Check("binding"), Mark("binding")>> = <<c>> \o (<<d>> \o (<<n>> \o q))
  OBVIOUS
<1>4. Rest(e) /\ Changed(v, e, "facts", "none", "none", v.aside["facts"])
  BY <1>1, RestDrop
<1> HIDE DEF e
<1>5. Rest(f) /\ Changed(e, f, "facts", "bound", "none", e.aside["facts"])
  <2>1. e.shape["facts"] = "none"
    BY <1>4 DEF Changed
  <2> QED
    BY <1>1, <1>4, <2>1, RestCreate
<1> HIDE DEF f
<1>6. Good(e) /\ Unbound(e)
  <2>1. Vouched(e)
    BY <1>1, <1>4, FineGood, FreeTables, FreeStays DEF Unbound
  <2>2. Good(e)
    BY <1>1, <1>4, <2>1, GoodChange DEF Whole, Guarded
  <2> QED
    BY <1>4, <2>2, Tabular DEF Unbound, Changed
<1>7. Good(f)
  <2>1. Vouched(f)
    BY <1>1, <1>5, <1>6, FineGood, FreeTables, FreeStays DEF Unbound
  <2> QED
    BY <1>1, <1>5, <1>6, <2>1, GoodChange DEF Whole, Guarded
<1>8. Known(15, f) /\ Valid("binding", f)
  <2>1. Known(15, e)
    BY <1>1, <1>4, KnownOther
  <2>2. Known(15, f)
    BY <1>5, <2>1, KnownOther
  <2> QED
    BY <1>5, <2>2 DEF Changed, Valid
<1>9. Sound(q, Flat(f), 15)
  BY <1>1, <1>7, <1>8, SoundOnlyCheckMark
<1>10. /\ Fine(In(e, e, FALSE)) /\ Flat(e) = In(e, e, FALSE) /\ Both(e, f, FALSE) = Flat(f)
       /\ Fine(In(v, v, FALSE)) /\ Flat(v) = In(v, v, FALSE) /\ Both(v, e, FALSE) = Flat(e)
  BY <1>1, <1>6, FineGood, Flatly
<1> DEFINE qn == <<n>> \o q  qd == <<d>> \o qn
<1>11. f = Effect(n, e) /\ e = Effect(d, v)
  BY DEF e, f
<1> HIDE DEF c, d, n, q
<1>12. qn \in Seq(Statement) /\ qd \in Seq(Statement)
  BY <1>2, Cons
<1>13. Sound(qn, In(e, e, FALSE), 15)
  BY <1>2, <1>9, <1>10, <1>11, SoundDdl
<1> HIDE DEF qn
<1>14. Sound(qd, In(v, v, FALSE), 15)
  BY <1>2, <1>10, <1>11, <1>12, <1>13, SoundDdl
<1>15. Valid("canonical", v)
  BY <1>1, NoteForms DEF Known
<1> HIDE DEF qd
<1>16. Sound(<<c>> \o qd, In(v, v, FALSE), 15)
  BY <1>1, <1>10, <1>12, <1>14, <1>15, SoundCheck DEF c
<1> QED
  BY <1>3, <1>10, <1>16 DEF qd, qn, c, d, n, q

LEMMA SoundBinding ==
    ASSUME NEW v, Between(14, v)
    PROVE  Sound(Binding(v), Flat(v), 15)
<1>1. /\ Good(v) /\ Known(14, v) /\ Known(15, v) /\ "binding" \in Marks /\ Frozen(v)
      /\ "snapshot" \in v.marks => "snapshot" \in seen
  <2>1. Good(v) /\ Known(14, v)
    BY DEF Between
  <2>2. Known(15, v) /\ ("snapshot" \in v.marks => "snapshot" \in seen)
    BY <2>1 DEF Known
  <2> QED
    BY <2>1, <2>2, FineGood DEF Marks
<1>2. CASE "snapshot" \in seen \/ begun
  BY <1>1, <1>2, SoundNothing DEF Binding
<1>3. CASE ~("snapshot" \in seen \/ begun) /\ BindingMarks \subseteq seen
  <2>1. Valid("binding", v)
    BY <1>1, <1>3 DEF Frozen, Valid
  <2> QED
    BY <1>1, <1>3, <2>1, SoundOnlyCheck DEF Binding
<1>4. CASE ~("snapshot" \in seen \/ begun) /\ ~(BindingMarks \subseteq seen)
  <2>1. Unbound(v)
    BY <1>1, <1>4, KnownThere DEF Unbound
  <2> QED
    BY <1>4, <2>1, SoundBindingAgain DEF Binding
<1> QED
  BY <1>2, <1>3, <1>4

-----------------------------------------------------------------------------
\* 16. The snapshots of notes.
SeqSnapshot == <<Check("snapshot"), Mark("snapshot")>>

\* From the drop of the triggers to the mark, in the notes, the snapshots and the facts
\* alone the view differs from what the migration found.
Kept(v, e) ==
    /\ e.marks = v.marks /\ e.aside["notes"] = "no" /\ e.rows["notes"] = v.rows["notes"]
    /\ \A u \in Table \ {"notes", "snapshots", "facts"} : Agree(v, e, u)

\* When the notes have their snapshots and the facts are sealed, all is as a mark needs it.
LEMMA KeptReady ==
    ASSUME NEW v, Good(v), Known(15, v), NEW e, Rest(e), Vouched(e), Kept(v, e),
           v.shape["snapshots"] = e.shape["snapshots"], Valid("snapshot", e)
    PROVE  Ready("snapshot", e) /\ Known(16, e)
<1>1. /\ Agree(v, e, "analyses") /\ Agree(v, e, "journal") /\ Agree(v, e, "queue")
      /\ Agree(v, e, "reviews") /\ Agree(v, e, "media") /\ e.marks = v.marks
      /\ e.aside["notes"] = "no"
  BY Tabular DEF Kept
<1>2. e.shape["notes"] = "versioned" /\ e.shape["snapshots"] # "none"
  BY NoteForms DEF Valid, SnapshotValid
<1>3. Torn(e) => Torn(v)
  <2>1. Bound(e)
    BY <1>2 DEF Bound, Upgrading
  <2>2. ~("audit" \in e.marks /\ ~ReviewAuditValid(e))
    BY DEF Vouched, Unread, Valid
  <2>3. ASSUME \E u \in Guarded : e.aside[u] # "no" \/ e.shape[u] = "unguarded"
        PROVE  Torn(v)
    BY <1>1, <1>2, <2>3 DEF Guarded, Agree, Torn
  <2> QED
    BY <1>1, <2>1, <2>2, <2>3 DEF Torn, Agree
<1>4. Calm(e) /\ NoLeftovers(e)
  BY <1>1, <1>3, FineGood DEF Calm, NoLeftovers, Agree
<1>5. e.aside["queue"] = "no" /\ Versioned(e)
  BY <1>1, FineGood DEF Settled, Versioned, Agree
<1>6. Ready("snapshot", e)
  <2>1. seen \subseteq e.marks
    BY <1>1, FineGood
  <2> QED
    BY <1>1, <1>2, <1>4, <1>5, <2>1 DEF Ready
<1>7. Known(15, e)
  <2>1. \A u \in Table \ {"notes", "facts"} : e.shape[u] = v.shape[u]
    BY DEF Kept, Agree
  <2> QED
    BY <1>1, <1>2, <2>1, KnownVersioned DEF Agree
<1>8. Known(16, e)
  BY <1>7 DEF Known
<1> QED
  BY <1>6, <1>8

\* The script once the notes are versioned and the old table of snapshots is gone: v is
\* what the migration found.
LEMMA SoundSnapshotTail ==
    ASSUME NEW v, Good(v), Known(15, v), NEW d, NEW e, NEW o, Fine(In(d, e, o)),
           Settled(e), Vouched(e), Kept(v, e), "snapshot" \notin e.marks,
           e.shape["snapshots"] = "none", e.shape["facts"] = "none", e.shape["notes"] = "versioned",
           v.shape["snapshots"] = "whole", v.rows["notes"] \in Rows
    PROVE  Sound(Make("snapshots") \o (<<Put("snapshots", v.rows["notes"])>>
                    \o (<<Create("facts", "sealed")>> \o SeqSnapshot)), In(d, e, o), 16)
<1>1. /\ "snapshots" \in Table /\ "snapshots" \notin Histories /\ Current["snapshots"] = "whole"
      /\ "facts" \in Table /\ Current["facts"] = "sealed" /\ "sealed" \in Forms["facts"]
      /\ "snapshot" \in Marks \ {"journal_v1"} /\ Rest(e)
      /\ e.marks \subseteq Marks
  <2>1. /\ "snapshots" \in Table /\ "snapshots" \notin Histories /\ Current["snapshots"] = "whole"
        /\ "facts" \in Table /\ Current["facts"] = "sealed" /\ "sealed" \in Forms["facts"]
        /\ "snapshot" \in Marks \ {"journal_v1"}
    BY Tabular, CurrentIs, FormOf DEF Marks, Histories
  <2>2. Rest(e)
    BY Fields DEF Fine
  <2> QED
    BY <2>1, <2>2, RestOf DEF Database
<1> DEFINE a == Put("snapshots", v.rows["notes"])
           n == Create("facts", "sealed")
           q2 == <<n>> \o SeqSnapshot
           q == <<a>> \o q2
<1>2. /\ a \in Statement /\ n \in Statement /\ n.do = "create" /\ SeqSnapshot \in Seq(Statement)
      /\ q2 \in Seq(Statement) /\ q \in Seq(Statement) /\ \A u : ~Fails(n, u)
  <2>1. a \in Statement /\ n \in Statement /\ SeqSnapshot \in Seq(Statement)
    BY <1>1, Statements, Lists DEF SeqSnapshot
  <2>2. n.do = "create"
    BY DEF Create, Stmt
  <2>3. q2 \in Seq(Statement)
    BY <2>1, Cons
  <2> HIDE DEF q2
  <2>4. q \in Seq(Statement)
    BY <2>1, <2>3, Cons
  <2> QED
    BY <2>1, <2>2, <2>3, <2>4 DEF Fails
<1>3. Free("snapshots", e) /\ Free("facts", e)
  BY <1>1, FreeTables
<1>4. ASSUME NEW f, NEW x, NEW r, Changed(e, f, "snapshots", x, r, e.aside["snapshots"])
      PROVE  Vouched(f) /\ Free("facts", f) /\ (r = "none" => Settled(f))
  <2>1. Vouched(f) /\ Free("facts", f)
    BY <1>1, <1>3, <1>4, FreeStays DEF Free, Changed
  <2> QED
    BY <1>1, <1>4, <2>1, SettledAfter
<1>5. ASSUME NEW p, Rest(p), Settled(p),
             NEW g, Rest(g), Changed(e, g, "snapshots", "whole", v.rows["notes"], e.aside["snapshots"])
      PROVE  Sound(q2, In(p, g, TRUE), 16)
  <2> DEFINE h == Effect(n, g)
  <2>1. g.shape["facts"] = "none" /\ Vouched(g) /\ Free("facts", g) /\ g.marks = e.marks
    BY <1>1, <1>4, <1>5 DEF Changed
  <2>2. Rest(h) /\ Changed(g, h, "facts", "sealed", "none", g.aside["facts"])
    BY <1>1, <1>5, <2>1, RestCreate
  <2> HIDE DEF h
  <2>3. Vouched(h)
    BY <1>1, <2>1, <2>2, FreeStays
  <2>4. /\ h.marks = e.marks /\ h.shape["snapshots"] = "whole" /\ h.rows["snapshots"] = v.rows["notes"]
        /\ h.shape["facts"] = "sealed"
    BY <1>1, <1>5, <2>2 DEF Changed
  <2>5. \A u \in Table \ {"snapshots", "facts"} : Agree(e, h, u)
    BY <1>5, <2>2 DEF Changed, Agree
  <2>6. Agree(e, h, "notes")
    BY <2>5, Tabular
  <2>7. Kept(v, h)
    BY <2>4, <2>5, <2>6 DEF Kept, Agree
  <2>8. Valid("snapshot", h)
    BY <2>4, <2>6, <2>7, NoteForms DEF Agree, Valid, SnapshotValid, Kept
  <2>9. Ready("snapshot", h) /\ Known(16, h)
    BY <2>2, <2>3, <2>4, <2>7, <2>8, KeptReady
  <2>10. Known(16, Effect(Mark("snapshot"), h))
    BY <1>1, <2>2, <2>9, KnownMark
  <2>11. Fine(In(p, h, TRUE)) /\ Fine(In(p, g, TRUE)) /\ Both(p, h, TRUE) = In(p, h, TRUE)
    BY <1>5, <2>2, Openly, Flatly
  <2>12. Sound(SeqSnapshot, In(p, h, TRUE), 16)
    BY <1>1, <2>8, <2>9, <2>10, <2>11, SoundCheckMark DEF SeqSnapshot
  <2>13. h = Effect(n, g)
    BY DEF h
  <2> HIDE DEF n
  <2> QED
    BY <1>2, <2>11, <2>12, <2>13, SoundDdl
<1>6. ASSUME NEW f, Rest(f), Changed(e, f, "snapshots", "whole", "none", e.aside["snapshots"])
      PROVE  Sound(q, Both(d, f, o), 16)
  <2> DEFINE p == IF o THEN d ELSE f
  <2>1. Settled(f)
    BY <1>4, <1>6
  <2>2. Both(d, f, o) = In(p, f, o)
    BY DEF Both, In
  <2>3. Fine(In(p, f, o))
    BY <1>6, <2>1, <2>2, FineBoth
  <2> HIDE DEF p
  <2>4. Rest(p) /\ Settled(p)
    BY <2>3, Fields DEF Fine
  <2>5. f.shape["snapshots"] = "whole" /\ f.aside["snapshots"] = e.aside["snapshots"]
    BY <1>6 DEF Changed
  <2> HIDE DEF q2
  <2>6. ASSUME NEW g, Rest(g),
               Changed(f, g, "snapshots", f.shape["snapshots"], v.rows["notes"], f.aside["snapshots"])
        PROVE  Sound(q2, In(p, g, TRUE), 16)
    <3>1. Changed(e, g, "snapshots", "whole", v.rows["notes"], e.aside["snapshots"])
      BY <1>1, <1>6, <2>5, <2>6, ChangedTwice
    <3> QED
      BY <1>5, <2>4, <2>6, <3>1
  <2>7. Sound(<<a>> \o q2, In(p, f, o), 16)
    BY <1>1, <1>2, <2>3, <2>5, <2>6, SoundPut
  <2> QED
    BY <2>2, <2>7
<1>7. \A f, x : ~o /\ x \in {"torn", Current["snapshots"]} /\ Rest(f)
                /\ Changed(e, f, "snapshots", x, "none", e.aside["snapshots"]) => Settled(f)
  BY <1>4
<1>8. \A f : Rest(f) /\ Changed(e, f, "snapshots", Current["snapshots"], "none", e.aside["snapshots"])
                => Sound(q, Both(d, f, o), 16)
  BY <1>1, <1>6
<1> HIDE DEF q
<1>9. Sound(Make("snapshots") \o q, In(d, e, o), 16)
  BY <1>1, <1>2, <1>7, <1>8, SoundMake
<1> QED
  BY <1>9 DEF q, q2

\* The triggers and the snapshots are gone: the notes are rebuilt if they have to be.
LEMMA SoundSnapshotNotes ==
    ASSUME NEW v, Good(v), Known(15, v), v.shape["snapshots"] = "whole",
           NEW e, Rest(e), Settled(e), Vouched(e), Kept(v, e), "snapshot" \notin e.marks,
           e.shape["snapshots"] = "none", e.shape["facts"] = "none", e.shape["notes"] = v.shape["notes"],
           NEW w, (w = Rebuild("notes") /\ ~NoteVersioned(v)) \/ (w = None /\ NoteVersioned(v)),
           NEW q \in Seq(Statement), q = Make("snapshots") \o (<<Put("snapshots", v.rows["notes"])>>
                                            \o (<<Create("facts", "sealed")>> \o SeqSnapshot))
    PROVE  Sound(w \o q, Flat(e), 16)
<1>1. /\ v.rows["notes"] \in Rows /\ "notes" \in Table
      /\ Fine(In(e, e, FALSE)) /\ Flat(e) = In(e, e, FALSE) /\ e.marks \subseteq Marks
  <2>1. Fine(In(e, e, FALSE)) /\ Flat(e) = In(e, e, FALSE)
    BY Flatly DEF Flat
  <2>2. Rest(v) /\ "notes" \in Table
    BY FineGood, Tabular
  <2>3. v.rows["notes"] \in Rows /\ e.marks \subseteq Marks
    BY <2>2, RestOf DEF Database
  <2> QED
    BY <2>1, <2>2, <2>3
<1>2. CASE w = Rebuild("notes") /\ ~NoteVersioned(v)
  <2>1. ASSUME NEW p, NEW f, Rest(p), Settled(p), Rest(f),
               Changed(e, f, "notes", "versioned", e.rows["notes"], "no")
        PROVE  Sound(q, In(p, f, TRUE), 16)
    <3>1. /\ Vouched(f) /\ f.marks = e.marks /\ f.rows["notes"] = e.rows["notes"]
          /\ f.shape["notes"] = "versioned" /\ f.aside["notes"] = "no"
      BY <1>1, <2>1, VersionedIs
    <3>2. Settled(f)
      BY <1>1, <2>1, <3>1, SettledAfter
    <3>3. \A u \in Table \ {"notes"} : Agree(e, f, u)
      BY <2>1 DEF Changed, Agree
    <3>4. Kept(v, f)
      BY <3>1, <3>3 DEF Kept, Agree
    <3>5. f.shape["snapshots"] = "none" /\ f.shape["facts"] = "none"
      BY <3>3, Tabular DEF Agree
    <3>6. Fine(In(p, f, TRUE))
      BY <2>1, Openly
    <3> QED
      BY <1>1, <3>1, <3>2, <3>4, <3>5, <3>6, SoundSnapshotTail
  <2>2. NoteEvidenceValid(e) /\ ~NoteVersioned(e) /\ e.aside["notes"] = "no"
    BY <1>2, NoteForms DEF Known, Kept
  <2> QED
    BY <1>2, <2>1, <2>2, SoundNotes
<1>3. CASE w = None /\ NoteVersioned(v)
  <2>1. e.shape["notes"] = "versioned"
    BY <1>3, NoteForms
  <2>2. Sound(q, In(e, e, FALSE), 16)
    BY <1>1, <2>1, SoundSnapshotTail
  <2> QED
    BY <1>1, <1>3, <2>2, NoneFirst
<1> QED
  BY <1>2, <1>3

LEMMA SoundSnapshotDrop ==
    ASSUME NEW v, Between(15, v), "snapshot" \notin v.marks,
           NEW w, (w = Rebuild("notes") /\ ~NoteVersioned(v)) \/ (w = None /\ NoteVersioned(v))
    PROVE  Sound(<<Drop("facts")>> \o (<<Drop("snapshots")>> \o (w \o (Make("snapshots")
                    \o (<<Put("snapshots", v.rows["notes"])>>
                    \o (<<Create("facts", "sealed")>> \o SeqSnapshot))))), Flat(v), 16)
<1>1. /\ Good(v) /\ Known(15, v) /\ Rest(v) /\ "snapshots" \in Table /\ "snapshots" \notin Histories
      /\ "facts" \in Table /\ "facts" \notin Histories /\ "sealed" \in Forms["facts"]
      /\ "notes" \in Table /\ v.rows["notes"] \in Rows /\ NoLeftovers(v) /\ v.marks \subseteq Marks
      /\ v.shape["snapshots"] = "whole" /\ "snapshot" \in Marks
  <2>1. /\ Good(v) /\ Known(15, v) /\ "snapshots" \in Table /\ "notes" \in Table
        /\ "snapshots" \notin Histories /\ "facts" \in Table /\ "facts" \notin Histories
        /\ "sealed" \in Forms["facts"]
    BY Tabular, FormOf DEF Between, Histories
  <2>2. /\ Rest(v) /\ v.rows["notes"] \in Rows /\ NoLeftovers(v) /\ v.marks \subseteq Marks
        /\ v.shape["snapshots"] \in Forms["snapshots"]
    BY <2>1, FineGood, RestOf
  <2>3. v.shape["snapshots"] # "none" /\ "snapshot" \in Marks
    BY <2>1, KnownThere DEF Marks
  <2> QED
    BY <2>1, <2>2, <2>3, FormOf
<1> DEFINE q == Make("snapshots") \o (<<Put("snapshots", v.rows["notes"])>>
                    \o (<<Create("facts", "sealed")>> \o SeqSnapshot))
           df == Drop("facts")  ds == Drop("snapshots")
           e == Effect(df, v)  f == Effect(ds, e)
<1>2. /\ q \in Seq(Statement) /\ df \in Statement /\ ds \in Statement /\ df.do = "drop" /\ ds.do = "drop"
      /\ \A u : ~Fails(df, u) /\ ~Fails(ds, u)
  <2>1. /\ Put("snapshots", v.rows["notes"]) \in Statement /\ SeqSnapshot \in Seq(Statement)
        /\ df \in Statement /\ ds \in Statement /\ Create("facts", "sealed") \in Statement
    BY <1>1, Statements, Lists DEF SeqSnapshot
  <2> DEFINE r == <<Create("facts", "sealed")>> \o SeqSnapshot
  <2>2. r \in Seq(Statement)
    BY <2>1, Cons
  <2> HIDE DEF r
  <2>3. <<Put("snapshots", v.rows["notes"])>> \o r \in Seq(Statement)
    BY <2>1, <2>2, Cons
  <2>4. Make("snapshots") \in Seq(Statement)
    BY <1>1, <2>1, SeqMake
  <2>5. df.do = "drop" /\ ds.do = "drop"
    BY DEF Drop, Stmt
  <2> QED
    BY <2>1, <2>3, <2>4, <2>5, Joined DEF Fails, r
<1>3. Rest(e) /\ Changed(v, e, "facts", "none", "none", v.aside["facts"])
  BY <1>1, RestDrop
<1> HIDE DEF e
<1>4. Rest(f) /\ Changed(e, f, "snapshots", "none", "none", e.aside["snapshots"])
  BY <1>1, <1>3, RestDrop
<1> HIDE DEF f
<1>5. Vouched(e) /\ Settled(e) /\ e.marks = v.marks
  <2>1. Vouched(v) /\ Settled(v)
    BY <1>1, FineGood
  <2>2. Free("facts", v)
    BY <1>1, <2>1, FreeTables
  <2>3. Vouched(e)
    BY <1>1, <1>3, <2>1, <2>2, FreeStays
  <2>4. e.marks = v.marks
    BY <1>3 DEF Changed
  <2> QED
    BY <1>1, <1>3, <2>1, <2>3, <2>4, SettledAfter
<1>6. Vouched(f) /\ Settled(f)
  <2>1. Vouched(f)
    BY <1>1, <1>4, <1>5, FreeTables, FreeStays
  <2> QED
    BY <1>1, <1>4, <1>5, <2>1, SettledAfter
<1>7. /\ f.marks = v.marks /\ f.shape["snapshots"] = "none" /\ f.shape["facts"] = "none"
      /\ \A u \in Table \ {"snapshots", "facts"} : Agree(v, f, u)
  BY <1>1, <1>3, <1>4 DEF Changed, Agree
<1>8. Agree(v, f, "notes") /\ f.aside["notes"] = "no"
  BY <1>1, <1>7, Tabular DEF Agree, NoLeftovers
<1>9. Kept(v, f)
  BY <1>7, <1>8 DEF Kept, Agree
<1> HIDE DEF q
<1>10. Sound(w \o q, Flat(f), 16)
  BY <1>1, <1>2, <1>4, <1>6, <1>7, <1>8, <1>9, SoundSnapshotNotes DEF q, Agree
<1>11. w \o q \in Seq(Statement)
  <2>1. None \in Seq(Statement)
    BY DEF None
  <2>2. w \in Seq(Statement)
    BY <1>1, <2>1, SeqRebuild
  <2> QED
    BY <1>2, <2>2, Joined
<1>12. /\ Fine(In(e, e, FALSE)) /\ Flat(e) = In(e, e, FALSE) /\ Both(e, f, FALSE) = Flat(f)
       /\ Fine(In(v, v, FALSE)) /\ Flat(v) = In(v, v, FALSE) /\ Both(v, e, FALSE) = Flat(e)
  <2>1. Fine(In(v, v, FALSE)) /\ Flat(v) = In(v, v, FALSE)
    BY <1>1, FineGood
  <2>2. Fine(Flat(e)) /\ Flat(e) = In(e, e, FALSE)
    BY <1>3, <1>5, Flatly DEF Flat
  <2>3. Both(e, f, FALSE) = Flat(f) /\ Both(v, e, FALSE) = Flat(e)
    BY Flatly
  <2> QED
    BY <2>1, <2>2, <2>3
<1>13. e = Effect(df, v) /\ f = Effect(ds, e)
  BY DEF e, f
<1> DEFINE qs == <<ds>> \o (w \o q)
<1> HIDE DEF ds, df
<1>14. qs \in Seq(Statement)
  BY <1>2, <1>11, Cons
<1>15. Sound(qs, In(e, e, FALSE), 16)
  BY <1>2, <1>10, <1>11, <1>12, <1>13, SoundDdl
<1> HIDE DEF qs
<1>16. Sound(<<df>> \o qs, In(v, v, FALSE), 16)
  BY <1>2, <1>12, <1>13, <1>14, <1>15, SoundDdl
<1> QED
  BY <1>12, <1>16 DEF qs, q, df, ds

LEMMA SoundSnapshot ==
    ASSUME NEW v, Between(15, v)
    PROVE  Sound(Snapshot(v), Flat(v), 16)
<1>1. /\ Good(v) /\ Known(15, v) /\ Known(16, v) /\ Rest(v) /\ "snapshot" \in Marks \ Unread
      /\ "canonical" \in Marks /\ "snapshot" \in Marks \ {"journal_v1", "scope", "phase_a"}
      /\ "snapshots" \in Table /\ "notes" \in Table /\ "facts" \in Table /\ v.rows["notes"] \in Rows
      /\ "sealed" \in Forms["facts"]
  <2>1. Good(v) /\ Known(15, v)
    BY DEF Between
  <2>2. Known(16, v)
    BY <2>1 DEF Known
  <2> QED
    BY <2>1, <2>2, FineGood, RestOf, Tabular, FormOf DEF Marks, Unread
<1>2. CASE "snapshot" \in seen
  BY <1>1, <1>2, SoundSeen DEF Snapshot
<1>3. CASE "snapshot" \notin seen /\ SnapshotValid(v)
  <2>1. Snapshot(v) = <<Mark("snapshot")>> /\ Valid("snapshot", v)
    BY <1>3 DEF Snapshot, Valid
  <2> QED
    BY <1>1, <2>1, SoundOnlyMark
<1>4. CASE "snapshot" \notin seen /\ ~SnapshotValid(v)
  <2>1. "snapshot" \notin v.marks /\ v.rows["snapshots"] = "none"
    <3>1. "snapshot" \notin v.marks
      BY <1>1, <1>4 DEF Known
    <3> QED
      BY <1>1, <3>1, FineGood DEF Settled, NewSnapshots
  <2> DEFINE c == <<Check("canonical")>>
             df == <<Drop("facts")>>  ds == <<Drop("snapshots")>>  d == df \o ds
             w == When(~NoteVersioned(v), Rebuild("notes"))
             m == Make("snapshots")
             a == <<Put("snapshots", v.rows["notes"])>>  n == <<Create("facts", "sealed")>>
             u == a \o n
             ns == n \o SeqSnapshot  us == a \o ns  mus == m \o us  wmus == w \o mus
             ss == ds \o wmus  q == df \o ss
             cd == c \o d  cdw == cd \o w  cdwm == cdw \o m
  <2>2. /\ Check("canonical") \in Statement /\ c \in Seq(Statement)
        /\ df \in Seq(Statement) /\ ds \in Seq(Statement)
        /\ w \in Seq(Statement) /\ m \in Seq(Statement) /\ a \in Seq(Statement) /\ n \in Seq(Statement)
        /\ SeqSnapshot \in Seq(Statement)
        /\ <<Drop("facts"), Drop("snapshots")>> = d
        /\ <<Put("snapshots", v.rows["notes"]), Create("facts", "sealed")>> = u
    <3>1. /\ Check("canonical") \in Statement /\ Drop("snapshots") \in Statement
          /\ Drop("facts") \in Statement /\ Create("facts", "sealed") \in Statement
          /\ Put("snapshots", v.rows["notes"]) \in Statement
          /\ Check("snapshot") \in Statement /\ Mark("snapshot") \in Statement
      BY <1>1, Statements
    <3>2. /\ c \in Seq(Statement) /\ df \in Seq(Statement) /\ ds \in Seq(Statement)
          /\ a \in Seq(Statement) /\ n \in Seq(Statement) /\ SeqSnapshot \in Seq(Statement)
      BY <3>1, Singleton DEF SeqSnapshot
    <3>3. None \in Seq(Statement)
      BY DEF None
    <3>4. w \in Seq(Statement) /\ m \in Seq(Statement)
      BY <1>1, <3>3, SeqRebuild, SeqMake DEF When
    <3>5. /\ <<Drop("facts"), Drop("snapshots")>> = d
          /\ <<Put("snapshots", v.rows["notes"]), Create("facts", "sealed")>> = u
      BY <3>1, Lists
    <3> QED
      BY <3>1, <3>2, <3>4, <3>5
  <2>3. Snapshot(v) = (((((c \o None) \o d) \o w) \o m) \o u) \o SeqSnapshot
    BY <1>4, <2>1, <2>2 DEF Snapshot, When, SeqSnapshot
  <2>4. (w = Rebuild("notes") /\ ~NoteVersioned(v)) \/ (w = None /\ NoteVersioned(v))
    BY DEF When
  <2>5. Sound(q, Flat(v), 16)
    <3> HIDE DEF w
    <3> QED
      BY <2>1, <2>4, SoundSnapshotDrop
  <2> HIDE DEF c, df, ds, w, m, a, n
  <2>6. c \o None = c
    BY <2>2, NoneFirst
  <2>7. d \in Seq(Statement) /\ u \in Seq(Statement) /\ ns \in Seq(Statement) BY <2>2, Joined
  <2> HIDE DEF d, u, ns
  <2>8. cd \in Seq(Statement) /\ us \in Seq(Statement) BY <2>2, <2>7, Joined
  <2> HIDE DEF cd, us
  <2>9. cdw \in Seq(Statement) /\ mus \in Seq(Statement) BY <2>2, <2>8, Joined
  <2> HIDE DEF cdw, mus
  <2>10. cdwm \in Seq(Statement) /\ wmus \in Seq(Statement) BY <2>2, <2>9, Joined
  <2> HIDE DEF cdwm, wmus
  <2>11. ss \in Seq(Statement) BY <2>2, <2>10, Joined
  <2> HIDE DEF ss
  <2>12. q \in Seq(Statement) BY <2>2, <2>11, Joined
  <2> HIDE DEF q
  <2>13. /\ Regroups(cdwm, u, SeqSnapshot) /\ Regroups(a, n, SeqSnapshot) /\ Regroups(cdw, m, us)
         /\ Regroups(cd, w, mus) /\ Regroups(c, d, wmus) /\ Regroups(df, ds, wmus)
    BY <2>2, <2>7, <2>8, <2>9, <2>10, Assoc
  <2>14. (cdwm \o u) \o SeqSnapshot = cdwm \o us BY <2>13 DEF Regroups, u, us, ns
  <2>15. cdwm \o us = cdw \o mus BY <2>13 DEF Regroups, cdwm, mus
  <2>16. cdw \o mus = cd \o wmus BY <2>13 DEF Regroups, cdw, wmus
  <2>17. cd \o wmus = c \o (d \o wmus) BY <2>13 DEF Regroups, cd
  <2>18. d \o wmus = q BY <2>13 DEF Regroups, d, q, ss
  <2>19. Snapshot(v) = c \o q
    BY <2>3, <2>6, <2>14, <2>15, <2>16, <2>17, <2>18 DEF cd, cdw, cdwm
  <2>20. Valid("canonical", v)
    BY <1>1, NoteForms DEF Known
  <2>21. Sound(q, In(v, v, FALSE), 16)
    BY <1>1, <2>5, FineGood
  <2>22. Sound(c \o q, In(v, v, FALSE), 16)
    BY <1>1, <2>12, <2>20, <2>21, FineGood, SoundCheck DEF c
  <2> QED
    BY <1>1, <2>19, <2>22, FineGood
<1> QED
  BY <1>2, <1>3, <1>4

-----------------------------------------------------------------------------
\* 17. The seal of analyses.
\* A check that fails on tables that a crash left torn.
LEMMA SoundTorn ==
    ASSUME NEW v, NEW i, Good(v), Torn(v), NEW m \in Marks, ~Valid(m, v)
    PROVE  Sound(<<Check(m), Mark(m)>>, Flat(v), i)
<1>1. /\ Check(m) \in Statement /\ Mark(m) \in Statement /\ <<Mark(m)>> \in Seq(Statement)
      /\ <<Check(m), Mark(m)>> = <<Check(m)>> \o <<Mark(m)>>
  BY Statements, Lists
<1>2. Fails(Check(m), Flat(v).view)
  <2>1. Check(m).do = "check" /\ Check(m).on = m /\ Flat(v).view = v
    BY Flatly DEF Check, Stmt
  <2> QED
    BY <2>1 DEF Fails
<1>3. Fine(Flat(v)) /\ Excused(Flat(v))
  BY FineGood, Flatly DEF Calm
<1>4. Sound(<<Check(m)>> \o <<Mark(m)>>, Flat(v), i)
  BY <1>1, <1>2, <1>3, SoundFail
<1> QED
  BY <1>1, <1>4

SeqSealing == <<Check("sealing"), Mark("sealing")>>

LEMMA SoundSealed ==
    ASSUME NEW v, Between(16, v), v.shape["analyses"] = "scoped",
           NEW r, r = IF v.rows["analyses"] = "claimed" THEN "unsealed" ELSE v.rows["analyses"]
    PROVE  Sound(<<Alter("analyses", "sealed")>> \o (<<Put("analyses", r)>> \o SeqSealing), Flat(v), 17)
<1>1. /\ Good(v) /\ Known(16, v) /\ Rest(v) /\ Settled(v) /\ "scope" \in v.marks
      /\ "analyses" \in Table /\ "analyses" \notin Histories /\ "sealed" \in Forms["analyses"]
      /\ Current["analyses"] = "sealed" /\ "sealing" \in Marks \ {"journal_v1", "scope", "phase_a"}
  <2>1. Good(v) /\ Known(16, v)
    BY DEF Between
  <2>2. "scope" \in v.marks
    BY <2>1 DEF Known
  <2> QED
    BY <2>1, <2>2, FineGood, Tabular, CurrentIs, FormOf DEF Histories, Marks
<1>2. r \in Rows /\ r # "claimed" /\ (r = "sealed" => v.rows["analyses"] = "sealed")
  BY <1>1, RestOf DEF Rows
<1> DEFINE a == Put("analyses", r)
           q == <<a>> \o SeqSealing
<1>3. a \in Statement /\ SeqSealing \in Seq(Statement) /\ q \in Seq(Statement)
  <2>1. a \in Statement /\ SeqSealing \in Seq(Statement)
    BY <1>1, <1>2, Statements, Lists DEF SeqSealing
  <2> QED
    BY <2>1, Cons
<1>4. Free("analyses", v)
  BY <1>1, FineGood, FreeTables DEF SealValid
<1>5. ASSUME NEW e, NEW y, Changed(v, e, "analyses", "sealed", y, v.aside["analyses"])
      PROVE  Vouched(e) /\ Settled(e)
  <2>1. Vouched(e)
    BY <1>1, <1>4, <1>5, FineGood, FreeStays
  <2> QED
    BY <1>1, <1>5, <2>1, SettledAfter
<1>6. ASSUME NEW e, Rest(e), Changed(v, e, "analyses", "sealed", v.rows["analyses"], v.aside["analyses"])
      PROVE  Sound(q, Flat(e), 17)
  <2>1. /\ e.shape["analyses"] = "sealed" /\ e.rows["analyses"] = v.rows["analyses"]
        /\ e.aside["analyses"] = v.aside["analyses"] /\ e.marks = v.marks
    BY <1>6 DEF Changed
  <2>2. Settled(e) /\ Fine(In(e, e, FALSE)) /\ Flat(e) = In(e, e, FALSE)
    BY <1>5, <1>6, Flatly DEF Flat
  <2>3. ASSUME NEW f, Rest(f),
               Changed(e, f, "analyses", e.shape["analyses"], r, e.aside["analyses"])
        PROVE  Sound(SeqSealing, In(e, f, TRUE), 17)
    <3>1. Changed(v, f, "analyses", "sealed", r, v.aside["analyses"])
      BY <1>1, <1>6, <2>1, <2>3, ChangedTwice
    <3>2. Good(f)
      <4>1. Whole(v, "analyses", "sealed", r)
        BY <1>2 DEF Whole, Guarded
      <4> QED
        BY <1>1, <1>5, <2>3, <3>1, <4>1, GoodAfter
    <3>3. f.shape["analyses"] = "sealed" /\ f.rows["analyses"] # "claimed"
      BY <1>2, <3>1 DEF Changed
    <3>4. Known(17, f)
      <4>1. Known(16, f)
        BY <1>1, <1>2, <3>1, KnownOther
      <4> QED
        BY <3>3, <4>1 DEF Known
    <3>5. Valid("sealing", f)
      BY <3>3 DEF Valid, SealValid
    <3>6. Fine(In(e, f, TRUE))
      BY <1>6, <2>2, <2>3, Openly
    <3>7. 17 \in Nat \ {0}
      OBVIOUS
    <3> QED
      BY <1>1, <3>2, <3>4, <3>5, <3>6, <3>7, SoundDone DEF SeqSealing
  <2>4. Sound(<<a>> \o SeqSealing, In(e, e, FALSE), 17)
    BY <1>1, <1>2, <1>3, <2>1, <2>2, <2>3, SoundPut
  <2> QED
    BY <2>2, <2>4
<1> HIDE DEF q
<1>7. Sound(<<Alter("analyses", "sealed")>> \o q, Flat(v), 17)
  <2>1. "sealed" \notin {"none", "torn", "bare", "old", "plain", "weak", "v1", "base"}
    OBVIOUS
  <2>2. v.shape["analyses"] \notin {"none", "sealed", Current["analyses"]}
    BY <1>1
  <2> QED
    BY <1>1, <1>3, <1>6, <2>1, <2>2, SoundAlter
<1> QED
  BY <1>7 DEF q

LEMMA SoundSealing ==
    ASSUME NEW v, Between(16, v)
    PROVE  Sound(Sealing(v), Flat(v), 17)
<1>1. /\ Good(v) /\ Known(16, v) /\ Rest(v) /\ "sealing" \in Marks \ Unread
      /\ "sealing" \in Marks \ {"journal_v1", "scope", "phase_a"}
      /\ "analyses" \in Table /\ v.shape["analyses"] \in {"scoped", "sealed"}
      /\ v.rows["analyses"] \in Rows
  <2>1. Good(v) /\ Known(16, v) /\ "analyses" \in Table
    BY Tabular DEF Between
  <2>2. "scope" \in v.marks /\ v.shape["analyses"] # "none"
    BY <2>1 DEF Known
  <2>3. v.shape["analyses"] \in Forms["analyses"] /\ v.shape["analyses"] # "bare" /\ v.rows["analyses"] \in Rows
    <3>1. Rest(v)
      BY <2>1, FineGood
    <3>2. Claims(v)
      BY <3>1 DEF Rest
    <3> QED
      BY <2>1, <2>2, <3>1, <3>2, RestOf DEF Claims
  <2> QED
    BY <2>1, <2>2, <2>3, FineGood, FormOf DEF Marks, Unread
<1>2. v.rows["analyses"] # "claimed" => Known(17, v)
  BY <1>1 DEF Known
<1>3. CASE "sealing" \in seen
  <2>1. SealValid(v)
    BY <1>1, <1>3, SeenValid DEF Valid
  <2>2. Known(17, v)
    BY <1>2, <2>1 DEF SealValid
  <2> QED
    BY <1>1, <1>3, <2>2, SoundSeen DEF Sealing
<1>4. CASE "sealing" \notin seen /\ v.shape["analyses"] = "scoped"
  <2> DEFINE r == IF v.rows["analyses"] = "claimed" THEN "unsealed" ELSE v.rows["analyses"]
             a == Alter("analyses", "sealed")
             b == Put("analyses", r)
  <2>1. a \in Statement /\ b \in Statement /\ SeqSealing \in Seq(Statement)
    <3>1. r \in Rows
      BY <1>1 DEF Rows
    <3>2. "sealed" \in Forms["analyses"]
      BY FormOf
    <3> HIDE DEF r
    <3> QED
      BY <1>1, <3>1, <3>2, Statements, Lists DEF SeqSealing
  <2>2. Sealing(v) = <<a, b>> \o SeqSealing
    BY <1>4 DEF Sealing, When, SeqSealing
  <2>3. Sound(<<a>> \o (<<b>> \o SeqSealing), Flat(v), 17)
    <3> HIDE DEF r
    <3>1. r = IF v.rows["analyses"] = "claimed" THEN "unsealed" ELSE v.rows["analyses"]
      BY DEF r
    <3> QED
      BY <1>4, <3>1, SoundSealed
  <2> HIDE DEF a, b
  <2>4. <<a, b>> = <<a>> \o <<b>> /\ Regroups(<<a>>, <<b>>, SeqSealing)
    BY <2>1, Lists, Assoc
  <2> QED
    BY <2>2, <2>3, <2>4 DEF Regroups
<1>5. CASE "sealing" \notin seen /\ v.shape["analyses"] = "sealed"
  <2>1. Sealing(v) = SeqSealing
    <3>1. SeqSealing \in Seq(Statement)
      BY <1>1, Statements, Lists DEF SeqSealing
    <3> QED
      BY <1>5, <3>1, NoneFirst DEF Sealing, When, SeqSealing
  <2>2. CASE v.rows["analyses"] = "claimed"
    <3>1. Torn(v) /\ ~Valid("sealing", v)
      BY <1>5, <2>2 DEF Torn, Valid, SealValid
    <3> QED
      BY <1>1, <2>1, <3>1, SoundTorn DEF SeqSealing
  <2>3. CASE v.rows["analyses"] # "claimed"
    <3>1. Valid("sealing", v)
      BY <1>5, <2>3 DEF Valid, SealValid
    <3> QED
      BY <1>1, <1>2, <2>1, <2>3, <3>1, SoundOnlyCheckMark DEF SeqSealing
  <2> QED
    BY <2>2, <2>3
<1> QED
  BY <1>1, <1>3, <1>4, <1>5

-----------------------------------------------------------------------------
\* 18. The grades of opportunities.
SeqGrades == <<Check("phase_a"), Mark("phase_a")>>
Reject(v) == When(v.rows["opportunities"] = "here", <<Put("opportunities", "rejected")>>)

LEMMA MarkGrades ==
    ASSUME NEW d, NEW v, NEW o, Fine(In(d, v, o)), Good(v), Known(17, v),
           v.shape["opportunities"] = "graded", v.rows["opportunities"] # "here"
    PROVE  Sound(SeqGrades, In(d, v, o), 18)
<1>1. "phase_a" \in Marks \ {"journal_v1"}
  BY DEF Marks
<1>2. Valid("phase_a", v)
  BY DEF Valid, GradesValid
<1>3. Ready("phase_a", v)
  <2>1. 17 \in Nat \ {0}
    OBVIOUS
  <2> QED
    BY <1>1, <1>2, <2>1, GoodReady, KnownThere
<1>4. Known(18, Effect(Mark("phase_a"), v))
  <2> DEFINE e == Effect(Mark("phase_a"), v)
  <2>1. /\ e.marks = v.marks \union {"phase_a"} /\ e.shape = v.shape /\ e.rows = v.rows
        /\ e.aside = v.aside
    BY <1>1, FineGood, RestMark
  <2> HIDE DEF e
  <2>2. Known(18, e)
    BY <2>1, NoteForms DEF Known, ContentValid
  <2> QED
    BY <2>2 DEF e
<1> QED
  BY <1>1, <1>2, <1>3, <1>4, SoundCheckMark DEF SeqGrades

LEMMA SeqReject ==
    ASSUME NEW v
    PROVE  /\ Put("opportunities", "rejected") \in Statement
           /\ Reject(v) \in Seq(Statement) /\ SeqGrades \in Seq(Statement)
           /\ Reject(v) \o SeqGrades \in Seq(Statement)
<1>1. /\ Put("opportunities", "rejected") \in Statement /\ Check("phase_a") \in Statement
      /\ Mark("phase_a") \in Statement
  BY Tabular, Statements DEF Rows, Marks
<1>2. <<Put("opportunities", "rejected")>> \in Seq(Statement) /\ SeqGrades \in Seq(Statement)
  BY <1>1, Singleton DEF SeqGrades
<1>3. Reject(v) \in Seq(Statement)
  BY <1>2 DEF Reject, When, None
<1> QED
  BY <1>1, <1>2, <1>3, Joined

LEMMA SoundReject ==
    ASSUME NEW v, Good(v), Known(17, v), v.shape["opportunities"] = "graded"
    PROVE  Sound(Reject(v) \o SeqGrades, Flat(v), 18)
<1>1. /\ "opportunities" \in Table \ {"journal", "snapshots"} /\ "opportunities" \notin Histories
      /\ "rejected" \in Rows /\ Rest(v) /\ v.marks \subseteq Marks
  BY Tabular, FineGood DEF Histories, Rows
<1>2. CASE v.rows["opportunities"] = "here"
  <2>1. ASSUME NEW e, Rest(e), Changed(v, e, "opportunities", v.shape["opportunities"], "rejected", v.aside["opportunities"])
        PROVE  Sound(SeqGrades, In(v, e, TRUE), 18)
    <3>1. /\ e.marks = v.marks /\ e.shape["opportunities"] = "graded"
          /\ e.rows["opportunities"] = "rejected"
      BY <2>1 DEF Changed
    <3>2. Vouched(e)
      <4>1. ASSUME NEW m \in v.marks \ Unread PROVE (\A t \in Of(m) : Agree(v, e, t)) \/ Valid(m, e)
        <5>1. CASE m = "phase_a"
          BY <3>1, <5>1 DEF Valid, GradesValid
        <5>2. CASE m # "phase_a"
          <6>1. "opportunities" \notin Of(m)
            BY <5>2 DEF Of
          <6> QED
            BY <2>1, <6>1, OfTables DEF Changed, Agree
        <5> QED
          BY <5>1, <5>2
      <4> QED
        BY <1>1, <3>1, <4>1, FineGood, VouchedAs
    <3>3. Good(e)
      BY <1>1, <2>1, <3>2, GoodChange DEF Whole, Guarded
    <3>4. Known(17, e)
      BY <2>1, KnownOther
    <3>5. Fine(In(v, e, TRUE))
      BY <2>1, FineGood, Openly
    <3> QED
      BY <3>1, <3>3, <3>4, <3>5, MarkGrades
  <2>2. Reject(v) = <<Put("opportunities", "rejected")>>
    BY <1>2 DEF Reject, When
  <2>3. Fine(In(v, v, FALSE)) /\ Flat(v) = In(v, v, FALSE)
    BY FineGood
  <2>4. Sound(<<Put("opportunities", "rejected")>> \o SeqGrades, In(v, v, FALSE), 18)
    BY <1>1, <1>2, <2>1, <2>3, SeqReject, SoundPut
  <2> QED
    BY <2>2, <2>3, <2>4
<1>3. CASE v.rows["opportunities"] # "here"
  <2>1. Reject(v) \o SeqGrades = SeqGrades
    BY <1>3, SeqReject, NoneFirst DEF Reject, When
  <2> QED
    BY <1>3, <2>1, FineGood, MarkGrades
<1> QED
  BY <1>2, <1>3

\* One of the columns.
LEMMA SoundGrade ==
    ASSUME NEW v, Good(v), Known(17, v), v.shape["opportunities"] \in {"plain", "part"},
           NEW x \in {"part", "graded"}, v.shape["opportunities"] # x, NEW q \in Seq(Statement),
           \A e : /\ Good(e) /\ Known(17, e) /\ e.shape["opportunities"] = x
                  /\ e.rows["opportunities"] = v.rows["opportunities"]
                  => Sound(q, Flat(e), 18)
    PROVE  Sound(<<Alter("opportunities", x)>> \o q, Flat(v), 18)
<1>1. /\ "opportunities" \in Table \ {"journal", "snapshots"} /\ x \in Forms["opportunities"]
      /\ Current["opportunities"] = "graded"
  BY Tabular, FormOf, CurrentIs
<1>2. Free("opportunities", v)
  BY FineGood, FreeTables DEF GradesValid
<1>3. ASSUME NEW e, Rest(e), Changed(v, e, "opportunities", x, v.rows["opportunities"], v.aside["opportunities"])
      PROVE  Sound(q, Flat(e), 18)
  <2>1. Vouched(e)
    BY <1>1, <1>2, <1>3, FineGood, FreeStays
  <2>2. Good(e)
    BY <1>1, <1>3, <2>1, GoodChange DEF Whole, Guarded
  <2>3. Known(17, e)
    BY <1>3, KnownOther
  <2>4. e.shape["opportunities"] = x /\ e.rows["opportunities"] = v.rows["opportunities"]
    BY <1>3 DEF Changed
  <2> QED
    BY <2>2, <2>3, <2>4
<1> QED
  BY <1>1, <1>3, FineGood, SoundAlter

LEMMA SoundPhaseA ==
    ASSUME NEW v, Between(17, v)
    PROVE  Sound(PhaseA(v), Flat(v), 18)
<1>1. /\ Good(v) /\ Known(17, v) /\ "phase_a" \in Marks \ Unread
      /\ v.shape["opportunities"] \in {"plain", "part", "graded"}
  <2>1. Good(v) /\ Known(17, v) /\ "opportunities" \in Table
    BY Tabular DEF Between
  <2>2. v.shape["opportunities"] # "none"
    BY <2>1 DEF Known
  <2>3. v.shape["opportunities"] \in Forms["opportunities"]
    BY <2>1, FineGood, RestOf
  <2> QED
    BY <2>1, <2>2, <2>3, FormOf DEF Marks, Unread
<1>2. CASE "phase_a" \in seen
  <2>1. "phase_a" \in v.marks
    BY <1>1, <1>2, FineGood
  <2>2. Known(18, v)
    BY <1>1, <2>1 DEF Known
  <2> QED
    BY <1>1, <1>2, <2>2, SoundSeen DEF PhaseA
<1>3. CASE "phase_a" \notin seen
  <2> DEFINE a == Alter("opportunities", "part")
             b == Alter("opportunities", "graded")
             s == v.shape["opportunities"]
             w == When(s = "plain", <<a>>)
             u == When(s \in {"plain", "part"}, <<b>>)
             r == Reject(v)
             rt == r \o SeqGrades  q == u \o rt  wu == w \o u
  <2>1. /\ a \in Statement /\ b \in Statement /\ w \in Seq(Statement) /\ u \in Seq(Statement)
        /\ r \in Seq(Statement) /\ SeqGrades \in Seq(Statement)
    <3>1. a \in Statement /\ b \in Statement
      BY Tabular, FormOf, Statements
    <3>2. <<a>> \in Seq(Statement) /\ <<b>> \in Seq(Statement)
      BY <3>1, Singleton
    <3> QED
      BY <3>1, <3>2, SeqReject DEF When, None
  <2>2. PhaseA(v) = (wu \o r) \o SeqGrades
    BY <1>3 DEF PhaseA, Reject, SeqGrades
  <2> HIDE DEF a, b, w, u, r
  <2>3. wu \in Seq(Statement) /\ rt \in Seq(Statement)
    BY <2>1, Joined
  <2> HIDE DEF wu, rt
  <2>4. q \in Seq(Statement)
    BY <2>1, <2>3, Joined
  <2>5. Regroups(wu, r, SeqGrades) /\ Regroups(w, u, rt)
    BY <2>1, <2>3, Assoc
  <2>6. PhaseA(v) = w \o q
    <3>1. (wu \o r) \o SeqGrades = wu \o rt BY <2>5 DEF Regroups, rt
    <3>2. wu \o rt = w \o q BY <2>5 DEF Regroups, wu
    <3> QED
      BY <2>2, <3>1, <3>2
  <2>7. ASSUME NEW e, Good(e), Known(17, e), e.shape["opportunities"] = "graded",
               e.rows["opportunities"] = v.rows["opportunities"]
        PROVE  Sound(rt, Flat(e), 18)
    <3>1. Reject(e) = Reject(v)
      BY <2>7 DEF Reject
    <3> QED
      BY <2>7, <3>1, SoundReject DEF rt, r
  <2>8. ASSUME NEW e, Good(e), Known(17, e), e.shape["opportunities"] = "part",
               e.rows["opportunities"] = v.rows["opportunities"]
        PROVE  Sound(<<b>> \o rt, Flat(e), 18)
    BY <2>3, <2>7, <2>8, SoundGrade DEF b
  <2>9. <<b>> \o rt \in Seq(Statement)
    BY <2>1, <2>3, Cons
  <2> HIDE DEF q
  <2>10. CASE s = "plain"
    <3>1. w = <<a>> /\ q = <<b>> \o rt
      BY <2>10 DEF w, u, q, When
    <3>2. Sound(<<a>> \o (<<b>> \o rt), Flat(v), 18)
      BY <1>1, <2>8, <2>9, <2>10, SoundGrade DEF a
    <3> QED
      BY <2>6, <3>1, <3>2
  <2>11. CASE s = "part"
    <3>1. w = None /\ q = <<b>> \o rt
      BY <2>11 DEF w, u, q, When
    <3>2. Sound(<<b>> \o rt, Flat(v), 18)
      BY <1>1, <2>8, <2>11
    <3> QED
      BY <2>6, <2>9, <3>1, <3>2, NoneFirst
  <2>12. CASE s = "graded"
    <3>1. w = None /\ u = None
      BY <2>12 DEF w, u, When
    <3>2. q = rt
      BY <2>3, <3>1, NoneFirst DEF q
    <3>3. Sound(rt, Flat(v), 18)
      BY <1>1, <2>7, <2>12
    <3> QED
      BY <2>3, <2>6, <3>1, <3>2, <3>3, NoneFirst
  <2> QED
    BY <1>1, <2>10, <2>11, <2>12
<1> QED
  BY <1>2, <1>3

-----------------------------------------------------------------------------
\* 19. The media tables.
LEMMA SoundMedia ==
    ASSUME NEW v, Between(18, v)
    PROVE  Sound(Media(v), Flat(v), 19)
<1>1. /\ Good(v) /\ Known(18, v) /\ Known(19, v) /\ "media" \in Marks \ Unread
      /\ "media" \in Marks \ {"journal_v1", "scope", "phase_a"}
      /\ v.shape["media"] \in {"torn", "whole"}
  <2>1. Good(v) /\ Known(18, v) /\ "media" \in Table
    BY Tabular DEF Between
  <2>2. Known(19, v)
    BY <2>1 DEF Known
  <2>3. v.shape["media"] # "none"
    BY <2>1 DEF Known
  <2>4. v.shape["media"] \in Forms["media"]
    BY <2>1, FineGood, RestOf
  <2> QED
    BY <2>1, <2>2, <2>3, <2>4, FormOf DEF Marks, Unread
<1>2. CASE "media" \in seen
  BY <1>1, <1>2, SoundSeen DEF Media
<1>3. CASE "media" \notin seen /\ v.shape["media"] = "torn"
  <2>1. Torn(v) /\ ~Valid("media", v)
    BY <1>3 DEF Torn, Valid, MediaValid
  <2> QED
    BY <1>1, <1>3, <2>1, SoundTorn DEF Media
<1>4. CASE "media" \notin seen /\ v.shape["media"] = "whole"
  <2>1. Valid("media", v)
    BY <1>4 DEF Valid, MediaValid
  <2> QED
    BY <1>1, <1>4, <2>1, SoundOnlyCheckMark DEF Media
<1> QED
  BY <1>1, <1>2, <1>3, <1>4

-----------------------------------------------------------------------------
\* Each migration takes what the one before it leaves.
LEMMA SoundScript ==
    ASSUME NEW v, NEW i \in 1..LastScript, Between(i - 1, v)
    PROVE  Sound(Script(i, v), Flat(v), i)
<1>1. i \in {1, 2, 3, 4, 5, 6, 7, 8, 9, 10, 11, 12, 13, 14, 15, 16, 17, 18, 19}
  BY DEF LastScript
<1>2. CASE i = 1  BY <1>2, SoundCreateAll DEF Script
<1>3. CASE i = 2  BY <1>3, SoundProvenance DEF Script
<1>4. CASE i = 3  BY <1>4, SoundScope DEF Script
<1>5. CASE i = 4  BY <1>5, SoundAudit DEF Script
<1>6. CASE i = 5  BY <1>6, SoundContent DEF Script
<1>7. CASE i = 6  BY <1>7, SoundAudit DEF Script
<1>8. CASE i = 7  BY <1>8, SoundQuarantine DEF Script
<1>9. CASE i = 8  BY <1>9, SoundIdentity DEF Script
<1>10. CASE i = 9  BY <1>10, SoundToken DEF Script
<1>11. CASE i = 10 BY <1>11, SoundGuard DEF Script
<1>12. CASE i = 11 BY <1>12, SoundEvidence DEF Script
<1>13. CASE i = 12 BY <1>13, SoundNoteIdentity DEF Script
<1>14. CASE i = 13 BY <1>14, SoundNoteCanonical DEF Script
<1>15. CASE i = 14 BY <1>15, SoundJournal DEF Script
<1>16. CASE i = 15 BY <1>16, SoundBinding DEF Script
<1>17. CASE i = 16 BY <1>17, SoundSnapshot DEF Script
<1>18. CASE i = 17 BY <1>18, SoundSealing DEF Script
<1>19. CASE i = 18 BY <1>19, SoundPhaseA DEF Script
<1>20. CASE i = 19 BY <1>20, SoundMedia DEF Script
<1> QED
  BY <1>1, <1>2, <1>3, <1>4, <1>5, <1>6, <1>7, <1>8, <1>9, <1>10, <1>11, <1>12, <1>13, <1>14,
     <1>15, <1>16, <1>17, <1>18, <1>19, <1>20

-----------------------------------------------------------------------------
(***************************************************************************)
(* The start.                                                              *)
(***************************************************************************)
\* What a release leaves is as a start takes it to be.
LEMMA ReleasedIs ==
    ASSUME Released(origin)
    PROVE  Rest(origin) /\ Settled(origin) /\ Calm(origin)
<1>1. /\ WellFormed(origin)
      /\ \A t \in Table : /\ origin.shape[t] \notin HalfDone /\ origin.aside[t] = "no"
                          /\ origin.shape[t] = "none" => origin.rows[t] = "none"
      /\ \A t \in Histories : origin.rows[t] \in {"none", "here"}
  BY DEF Released, WellFormed
<1>2. Vouched(origin) /\ ("scope" \in origin.marks => origin.shape["analyses"] # "bare")
  BY DEF Released, Vouched, Unread, Valid
<1>3. Claims(origin)
  BY <1>2 DEF Released, Claims
<1>4. Rest(origin)
  <2>1. /\ \A t \in Table : origin.shape[t] \in {"none", "torn"} => origin.rows[t] = "none"
        /\ \A t \in Histories : origin.rows[t] = "here" => "here" \in {origin.rows[t], origin.aside[t]}
        /\ \A t \in Table \ Renamed : origin.aside[t] = "no"
        /\ origin.aside["reviews"] = "no"
    BY <1>1, Tabular DEF HalfDone
  <2>2. /\ origin.rows["content"] # "none" => origin.rows["content"] = "here"
        /\ origin.shape["reviews"] = "old" => origin.shape["content"] = "old"
        /\ origin.rows["reviews"] = "here" => origin.rows["content"] = "here"
    BY <1>1 DEF Released, Histories
  <2>3. origin.shape["queue"] \notin {"part", "widened"}
    BY <1>1, Tabular DEF HalfDone
  <2>4. origin.shape["journal"] = "v1" => "journal_v1" \in origin.marks
    BY DEF Released
  <2> QED
    BY <1>1, <1>3, <2>1, <2>2, <2>3, <2>4 DEF Rest
<1>5. /\ origin.aside["queue"] = "no" /\ origin.aside["notes"] = "no"
      /\ origin.aside["journal"] = "no" /\ origin.aside["reviews"] = "no"
      /\ origin.shape["queue"] # "tokened" /\ origin.shape["reviews"] # "torn"
      /\ origin.shape["media"] # "torn"
      /\ \A t \in Guarded : origin.aside[t] = "no" /\ origin.shape[t] # "unguarded"
  BY <1>1, Tabular DEF HalfDone, Guarded
<1>6. Settled(origin)
  <2>1. /\ "journal_v1" \in origin.marks /\ "journal" \notin origin.marks => origin.shape["journal"] = "v1"
        /\ "snapshot" \notin origin.marks => origin.rows["snapshots"] = "none"
    BY DEF Released
  <2> QED
    BY <1>2, <1>5, <2>1 DEF Settled, NewSnapshots
<1>7. ~Torn(origin)
  <2>1. "audit" \in origin.marks => ReviewAuditValid(origin)
    BY <1>2 DEF Vouched, Unread, Valid
  <2>2. ~(origin.shape["analyses"] = "sealed" /\ origin.rows["analyses"] = "claimed")
    BY DEF Released
  <2>3. Bound(origin)
    BY DEF Released, Bound, BindingMarks, Valid
  <2> QED
    BY <1>5, <2>1, <2>2, <2>3 DEF Torn
<1> QED
  BY <1>4, <1>5, <1>6, <1>7 DEF Calm

\* What a start refuses at once, it has an excuse for.
LEMMA Unstartable ==
    ASSUME NEW d, Settled(d), Calm(d), ~Startable(d)
    PROVE  Manual(origin) \/ (crashed /\ Torn(d))
<1>1. SnapshotsAreNew(d)
  BY DEF Settled, NewSnapshots, SnapshotsAreNew
<1>2. ~NoLeftovers(d) \/ ~Bound(d) \/ ~Vouched(d)
  BY <1>1 DEF Startable, Vouched, Unread
<1>3. Torn(d) \/ Manual(origin)
  BY <1>2 DEF Settled, NoLeftovers, Torn, Guarded
<1> QED
  BY <1>3 DEF Calm

\* A start that goes on: it has read the marks, and whether the snapshots were begun.
LEMMA StartGood ==
    ASSUME NEW d, Rest(d), Settled(d), Calm(d), Startable(d), seen = d.marks, begun = Upgrading(d)
    PROVE  Sound(CreateAll(d), Flat(d), 1)
<1>1. Vouched(d) /\ NoLeftovers(d) /\ Bound(d)
  BY DEF Startable, Vouched, Unread
<1>2. Good(d)
  <2>1. Frozen(d)
    BY <1>1 DEF Bound, Frozen, Valid
  <2> QED
    BY <1>1, <2>1 DEF Good
<1>3. Known(0, d)
  BY DEF Known
<1> QED
  BY <1>2, <1>3, SoundCreateAll DEF Between

\* The same, of the state after a step.
Starts ==
    \A d : (/\ Rest(d) /\ Settled(d) /\ Calm(d) /\ Startable(d)
            /\ seen = d.marks /\ begun = Upgrading(d)) => Sound(CreateAll(d), Flat(d), 1)

LEMMA StartsAfter == Starts'
<1>1. Starts
  <2> SUFFICES ASSUME NEW d, Rest(d), Settled(d), Calm(d), Startable(d), seen = d.marks,
                      begun = Upgrading(d)
               PROVE  Sound(CreateAll(d), Flat(d), 1)
    BY DEF Starts
  <2> QED
    BY StartGood
<1> QED
  BY <1>1, PTL

\* These are about the disk, the view and the history variables only.
LEMMA SameRest ==
    ASSUME origin' = origin, NEW d
    PROVE  (Rest(d) <=> Rest(d)') /\ (Settled(d) <=> Settled(d)')
<1>1. Claims(d) <=> Claims(d)'
  BY DEF Claims
<1>2. Rest(d) <=> Rest(d)'
  BY <1>1 DEF Rest
<1>3. Settled(d) <=> Settled(d)'
  BY DEF Settled
<1> QED
  BY <1>2, <1>3

LEMMA SameCalm ==
    ASSUME origin' = origin, crashed' = crashed, NEW d
    PROVE  Calm(d) <=> Calm(d)'
BY DEF Calm

LEMMA SameBetween ==
    ASSUME origin' = origin, crashed' = crashed, seen' = seen, begun' = begun, NEW i, NEW d
    PROVE  Between(i, d) <=> Between(i, d)'
<1>1. Known(i, d) <=> Known(i, d)'
  BY DEF Known
<1>2. Good(d) <=> Good(d)'
  <2>1. Frozen(d) <=> Frozen(d)'
    BY DEF Frozen
  <2> QED
    BY <2>1, SameRest, SameCalm DEF Good
<1> QED
  BY <1>1, <1>2 DEF Between

LEMMA SameSound ==
    ASSUME origin' = origin, crashed' = crashed, seen' = seen, begun' = begun, NEW q, NEW c, NEW i
    PROVE  Sound(q, c, i) => Sound(q, c, i)'
<1>1. ASSUME NEW r, NEW b, NEW X PROVE Step(r, b, i, X) => Step(r, b, i, X)'
  <2>1. Fine(b) => Fine(b)'
    BY SameRest DEF Fine
  <2>2. Excused(b) => Excused(b)'
    BY SameCalm DEF Excused
  <2>3. Between(i, b.view) => Between(i, b.view)'
    BY SameBetween
  <2> QED
    BY <2>1, <2>2, <2>3 DEF Step
<1> QED
  BY <1>1 DEF Sound

-----------------------------------------------------------------------------
(***************************************************************************)
(* The inductive invariant.  Everywhere the disk can be started from;      *)
(* while a migration runs, what is left of its script is sound.            *)
(***************************************************************************)
Types == /\ origin \in Origins /\ crashed \in BOOLEAN /\ begun \in BOOLEAN /\ seen \subseteq Marks
         /\ phase \in {"down", "starting", "refused", "serving"} /\ at \in 0..LastScript
         /\ open \in BOOLEAN

\* The disk and the view of a process that is not starting.
Quiet == view = disk /\ ~open /\ Rest(disk) /\ Settled(disk) /\ Calm(disk)

IInv == /\ Types
        /\ phase # "starting" => Quiet
        /\ phase = "starting" => at \in 1..LastScript /\ Sound(todo, In(disk, view, open), at)
        /\ phase = "serving"  => Between(LastScript, disk)
        /\ phase = "refused"  => Manual(origin) \/ (crashed /\ Torn(disk))

LEMMA ZeroIs == 0 \in 0..LastScript
BY DEF LastScript

LEMMA InitInv == Init => IInv
<1> SUFFICES ASSUME Init PROVE IInv
  OBVIOUS
<1>1. Rest(origin) /\ Settled(origin) /\ Calm(origin)
  BY OriginsAssumption, ReleasedIs DEF Init
<1>2. Types
  BY ZeroIs DEF Init, Types
<1>3. Quiet
  BY <1>1 DEF Init, Quiet
<1> QED
  BY <1>2, <1>3 DEF Init, IInv

LEMMA MarksAre ==
    ASSUME NEW d, Rest(d)
    PROVE  d.marks \subseteq Marks
BY RestOf DEF Database

LEMMA StartInv == IInv /\ Start => IInv'
<1> SUFFICES ASSUME IInv, Start PROVE IInv'
  OBVIOUS
<1>1. Quiet /\ Types /\ phase = "down"
  BY DEF IInv, Start
<1>2. /\ origin' = origin /\ crashed' = crashed /\ disk' = disk /\ open' = open /\ view' = disk
      /\ seen' = disk.marks /\ begun' = Upgrading(disk)
  BY DEF Start
<1>3. Rest(disk) /\ Settled(disk) /\ Calm(disk)
  BY <1>1 DEF Quiet
<1>4. Rest(disk)' /\ Settled(disk)' /\ Calm(disk)'
  BY <1>2, <1>3 DEF Rest, Claims, Settled, Calm
<1>5. Quiet'
  BY <1>1, <1>2, <1>4 DEF Quiet
<1>6. Types'
  <2>1. disk.marks \subseteq Marks
    BY <1>3, MarksAre
  <2>2. begun' \in BOOLEAN
    BY <1>2 DEF Upgrading
  <2>3. phase' \in {"starting", "refused"} /\ at' \in 0..LastScript
    BY DEF Start, LastScript
  <2> QED
    BY <1>1, <1>2, <2>1, <2>2, <2>3 DEF Types
<1>7. CASE Startable(disk)
  <2>1. phase' = "starting" /\ at' = 1 /\ todo' = CreateAll(disk)
    BY <1>7 DEF Start
  <2>2. Sound(CreateAll(disk), Flat(disk), 1)'
    <3>1. Startable(disk)'
      BY <1>2, <1>7 DEF Startable
    <3>2. Starts'
      BY StartsAfter
    <3>3. seen' = (disk.marks)' /\ begun' = Upgrading(disk)'
      BY <1>2 DEF Upgrading, NoteVersioned, NotesAtLeast
    <3> QED
      BY <1>4, <3>1, <3>2, <3>3 DEF Starts
  <2>3. Sound(todo, In(disk, view, open), at)'
    <3>1. todo' = CreateAll(disk)' /\ at' = 1 /\ In(disk, view, open)' = Flat(disk)'
      BY <1>1, <1>2, <2>1 DEF Flat, In, CreateAll, Quiet, Types
    <3> QED
      BY <2>2, <3>1 DEF Sound
  <2> QED
    BY <1>6, <2>1, <2>3 DEF IInv, LastScript
<1>8. CASE ~Startable(disk)
  <2>1. phase' = "refused"
    BY <1>8 DEF Start
  <2>2. Manual(origin) \/ (crashed /\ Torn(disk))
    BY <1>3, <1>8, Unstartable
  <2>3. (Manual(origin) \/ (crashed /\ Torn(disk)))'
    BY <1>2, <2>2
  <2> QED
    BY <1>5, <1>6, <2>1, <2>3 DEF IInv
<1> QED
  BY <1>7, <1>8

\* What a migration under way knows.
LEMMA Under ==
    ASSUME IInv, phase = "starting"
    PROVE  /\ Types /\ at \in 1..LastScript /\ Sound(todo, In(disk, view, open), at)
           /\ Fine(In(disk, view, open)) /\ Rest(view) /\ Rest(disk) /\ Settled(disk)
           /\ ~open => view = disk
<1>1. Types /\ at \in 1..LastScript /\ Sound(todo, In(disk, view, open), at)
  BY DEF IInv
<1>2. Fine(In(disk, view, open))
  BY <1>1, SoundStep
<1> QED
  BY <1>1, <1>2, Fields DEF Fine

LEMMA ExecuteInv == IInv /\ Execute => IInv'
<1> SUFFICES ASSUME IInv, Execute PROVE IInv'
  OBVIOUS
<1> DEFINE s == Head(todo)
           c == In(disk, view, open)
           e == Effect(s, view)
           o == s.do # "commit" /\ (open \/ WritesRows(s))
<1>1. /\ phase = "starting" /\ phase' = "starting" /\ todo # None /\ ~Fails(s, view)
      /\ origin' = origin /\ crashed' = crashed /\ seen' = seen /\ begun' = begun /\ at' = at
  BY DEF Execute
<1>2. /\ view' = e /\ todo' = Tail(todo) /\ open' = o
      /\ disk' = IF o THEN disk ELSE e
  BY DEF Execute
<1>3. Types /\ at \in 1..LastScript /\ Sound(todo, c, at)
  BY <1>1, Under
<1>4. Sound(Tail(todo), After(s, c), at)
  <2>1. c.view = view
    BY Fields
  <2> QED
    BY <1>1, <1>3, <2>1, SoundStep
<1>5. After(s, c) = In(disk', view', open')
  BY <1>2, Fields DEF After, In
<1>6. Sound(todo', In(disk', view', open'), at')
  BY <1>1, <1>2, <1>4, <1>5
<1>7. Sound(todo, In(disk, view, open), at)'
  <2>1. \A q, d, i : Sound(q, d, i) => Sound(q, d, i)'
    BY <1>1, SameSound
  <2> QED
    BY <1>6, <2>1
<1>8. Types'
  BY <1>1, <1>2, <1>3 DEF Types
<1> QED
  BY <1>1, <1>3, <1>7, <1>8 DEF IInv

LEMMA FailInv == IInv /\ Fail => IInv'
<1> SUFFICES ASSUME IInv, Fail PROVE IInv'
  OBVIOUS
<1>1. /\ phase = "starting" /\ phase' = "refused" /\ todo # None /\ Fails(Head(todo), view)
      /\ origin' = origin /\ crashed' = crashed /\ seen' = seen /\ begun' = begun /\ at' = 0
      /\ disk' = disk /\ view' = disk /\ open' = FALSE
  BY DEF Fail
<1>2. Types /\ Sound(todo, In(disk, view, open), at) /\ Rest(disk) /\ Settled(disk)
  BY <1>1, Under
<1>3. Excused(In(disk, view, open))
  <2>1. In(disk, view, open).view = view
    BY Fields
  <2> QED
    BY <1>1, <1>2, <2>1, SoundStep
<1>4. Calm(disk) /\ (Manual(origin) \/ (crashed /\ Torn(disk)))
  BY <1>3, Fields DEF Excused
<1>5. Rest(disk)' /\ Settled(disk)' /\ Calm(disk)'
  BY <1>1, <1>2, <1>4 DEF Rest, Claims, Settled, Calm
<1>6. Quiet'
  BY <1>1, <1>5 DEF Quiet
<1>7. Types'
  BY <1>1, <1>2, ZeroIs DEF Types
<1>8. (Manual(origin) \/ (crashed /\ Torn(disk)))'
  BY <1>1, <1>4
<1> QED
  BY <1>1, <1>6, <1>7, <1>8 DEF IInv

LEMMA ProceedInv == IInv /\ Proceed => IInv'
<1> SUFFICES ASSUME IInv, Proceed PROVE IInv'
  OBVIOUS
<1>1. /\ phase = "starting" /\ todo = None /\ disk' = view /\ view' = view /\ open' = FALSE
      /\ origin' = origin /\ crashed' = crashed /\ seen' = seen /\ begun' = begun
  BY DEF Proceed
<1>2. Types /\ at \in 1..LastScript /\ Sound(todo, In(disk, view, open), at)
  BY <1>1, Under
<1>3. Between(at, view)
  <2>1. In(disk, view, open).view = view
    BY Fields
  <2> QED
    BY <1>1, <1>2, <2>1, SoundStep
<1>4. CASE at = LastScript
  <2>1. phase' = "serving" /\ at' = 0
    BY <1>4 DEF Proceed
  <2>2. Rest(view) /\ Settled(view) /\ Calm(view)
    BY <1>3, FineGood DEF Between
  <2>3. Rest(view)' /\ Settled(view)' /\ Calm(view)'
    BY <1>1, <2>2 DEF Rest, Claims, Settled, Calm
  <2>4. Quiet'
    BY <1>1, <2>3 DEF Quiet
  <2>5. Between(LastScript, disk)'
    <3>1. \A d : Between(LastScript, d) => Between(LastScript, d)'
      BY <1>1, SameBetween
    <3>2. Between(LastScript, disk')
      BY <1>1, <1>3, <1>4
    <3> QED
      BY <3>1, <3>2
  <2>6. Types'
    BY <1>1, <1>2, <2>1, ZeroIs DEF Types
  <2> QED
    BY <2>1, <2>4, <2>5, <2>6 DEF IInv
<1>5. CASE at # LastScript
  <2>1. phase' = "starting" /\ at' = at + 1 /\ todo' = Script(at + 1, view)
    BY <1>1, <1>5 DEF Proceed
  <2>2. at + 1 \in 1..LastScript /\ (at + 1) - 1 = at /\ at + 1 \in 0..LastScript
    BY <1>2, <1>5 DEF LastScript
  <2>3. Sound(Script(at + 1, view), Flat(view), at + 1)
    <3> DEFINE i == at + 1
    <3>1. i \in 1..LastScript /\ Between(i - 1, view)
      BY <1>3, <2>2
    <3> HIDE DEF i
    <3>2. Sound(Script(i, view), Flat(view), i)
      BY <3>1, SoundScript
    <3> QED
      BY <3>2 DEF i
  <2>4. Sound(todo', In(disk', view', open'), at')
    BY <1>1, <2>1, <2>3 DEF Flat
  <2>5. Sound(todo, In(disk, view, open), at)'
    <3>1. \A q, d, i : Sound(q, d, i) => Sound(q, d, i)'
      BY <1>1, SameSound
    <3> QED
      BY <2>4, <3>1
  <2>6. Types'
    BY <1>1, <1>2, <2>1, <2>2 DEF Types
  <2> QED
    BY <2>1, <2>2, <2>5, <2>6 DEF IInv
<1> QED
  BY <1>4, <1>5

LEMMA CrashInv == IInv /\ Crash => IInv'
<1> SUFFICES ASSUME IInv, Crash PROVE IInv'
  OBVIOUS
<1>1. /\ phase = "starting" /\ phase' = "down" /\ crashed' = TRUE /\ at' = 0
      /\ origin' = origin /\ seen' = seen /\ begun' = begun
      /\ disk' = disk /\ view' = disk /\ open' = FALSE
  BY DEF Crash
<1>2. Types /\ Rest(disk) /\ Settled(disk)
  BY <1>1, Under
<1>3. Rest(disk)' /\ Settled(disk)' /\ Calm(disk)'
  BY <1>1, <1>2 DEF Rest, Claims, Settled, Calm
<1>4. Quiet'
  BY <1>1, <1>3 DEF Quiet
<1>5. Types'
  BY <1>1, <1>2, ZeroIs DEF Types
<1> QED
  BY <1>1, <1>4, <1>5 DEF IInv

LEMMA StopInv == IInv /\ Stop => IInv'
<1> SUFFICES ASSUME IInv, Stop PROVE IInv'
  OBVIOUS
<1>1. /\ phase # "starting" /\ phase' = "down"
      /\ UNCHANGED <<origin, disk, view, open, at, seen, begun, crashed>>
  BY DEF Stop
<1>2. Quiet /\ Types
  BY <1>1 DEF IInv
<1>3. Quiet'
  BY <1>1, <1>2 DEF Quiet, Rest, Claims, Settled, Calm
<1>4. Types'
  BY <1>1, <1>2 DEF Types
<1> QED
  BY <1>1, <1>3, <1>4 DEF IInv

LEMMA SameInv == IInv /\ UNCHANGED vars => IInv'
<1> SUFFICES ASSUME IInv, UNCHANGED vars PROVE IInv'
  OBVIOUS
<1>1. UNCHANGED <<origin, disk, view, open, phase, at, todo, seen, begun, crashed>>
  BY DEF vars
<1>2. Types'
  BY <1>1 DEF IInv, Types
<1>3. phase' # "starting" => Quiet'
  BY <1>1 DEF IInv, Quiet, Rest, Claims, Settled, Calm
<1>4. phase' = "starting" => at' \in 1..LastScript /\ Sound(todo, In(disk, view, open), at)'
  <2>1. \A q, d, i : Sound(q, d, i) => Sound(q, d, i)'
    BY <1>1, SameSound
  <2>2. phase = "starting" => at \in 1..LastScript /\ Sound(todo, In(disk, view, open), at)
    BY DEF IInv
  <2>3. phase = "starting" => Sound(todo', In(disk', view', open'), at')
    BY <1>1, <2>2
  <2> QED
    BY <1>1, <2>1, <2>2, <2>3
<1>5. phase' = "serving" => Between(LastScript, disk)'
  <2>1. \A d : Between(LastScript, d) => Between(LastScript, d)'
    BY <1>1, SameBetween
  <2>2. phase = "serving" => Between(LastScript, disk')
    BY <1>1 DEF IInv
  <2> QED
    BY <1>1, <2>1, <2>2
<1>6. phase' = "refused" => (Manual(origin) \/ (crashed /\ Torn(disk)))'
  BY <1>1 DEF IInv
<1> QED
  BY <1>2, <1>3, <1>4, <1>5, <1>6 DEF IInv

\* At every statement of every start, whatever crashes came before, what is on the disk
\* is settled: a later start goes on from it, or refuses it because of what was left to a
\* person or of a torn state, the loss of triggers and indexes before a rename among
\* them; and what is left of the migration under way passes or fails with such an excuse
\* (Database.initialize).
THEOREM Inductive == Spec => []IInv
<1>1. IInv /\ [Next]_vars => IInv'
  BY StartInv, ExecuteInv, FailInv, ProceedInv, CrashInv, StopInv, SameInv DEF Next
<1> QED
  BY <1>1, InitInv, PTL DEF Spec

\* The rows of notes, content, reviews, the cleanup queue and the journal are in their
\* table or in the one it was renamed to, at whatever statement a start dies, from any
\* released database.
THEOREM HistoryKept == Spec => []HistoryIsKept
<1>1. IInv => HistoryIsKept
  <2> SUFFICES ASSUME IInv PROVE HistoryIsKept
    OBVIOUS
  <2>1. Rest(disk) /\ Rest(view) /\ Types /\ (~open => view = disk) /\ (open => phase = "starting")
    <3>1. CASE phase = "starting"
      BY <3>1, Under
    <3>2. CASE phase # "starting"
      BY <3>2 DEF IInv, Quiet
    <3> QED
      BY <3>1, <3>2
  <2>2. TypeOK
    BY <2>1 DEF TypeOK, Types, Rest
  <2>3. \A t \in Histories : origin.rows[t] = "here" => "here" \in {disk.rows[t], disk.aside[t]}
    BY <2>1 DEF Rest
  <2> QED
    BY <2>2, <2>3 DEF HistoryIsKept
<1> QED
  BY <1>1, Inductive, PTL

\* A process that serves has that history in its tables, not beside them; only reviews
\* may be left beside theirs, and only by a crash.
THEOREM HistoryServed == Spec => []HistoryIsServed
<1>1. IInv => HistoryIsServed
  <2> SUFFICES ASSUME IInv, phase = "serving", NEW t \in Histories, origin.rows[t] = "here"
               PROVE  \/ disk.rows[t] = "here"
                      \/ t = "reviews" /\ crashed /\ disk.aside[t] = "here"
    BY DEF HistoryIsServed
  <2>1. Rest(disk) /\ Settled(disk) /\ Calm(disk) /\ NoLeftovers(disk)
    BY FineGood DEF IInv, Between
  <2>2. "here" \in {disk.rows[t], disk.aside[t]}
    BY <2>1 DEF Rest
  <2>3. t # "reviews" => disk.aside[t] = "no"
    BY <2>1, Tabular DEF Rest, Settled, NoLeftovers, Renamed, Histories
  <2>4. disk.aside["reviews"] # "no" => crashed
    BY <2>1 DEF Calm
  <2> QED
    BY <2>2, <2>3, <2>4
<1> QED
  BY <1>1, Inductive, PTL

\* A process that serves has marked, withdrawn or rejected the claims of the releases
\* before the seal, the grades and the scope.
THEOREM ClaimsMarked == Spec => []OldClaimsAreMarked
<1>1. IInv => OldClaimsAreMarked
  <2> SUFFICES ASSUME IInv, phase = "serving"
               PROVE  /\ disk.rows["analyses"] # "claimed"
                      /\ "sealing" \notin origin.marks => disk.rows["analyses"] # "sealed"
                      /\ "phase_a" \notin origin.marks => disk.rows["opportunities"] # "here"
                      /\ "scope" \notin origin.marks => disk.rows["opportunities"] = "none"
    BY DEF OldClaimsAreMarked
  <2>1. Good(disk) /\ Known(19, disk)
    BY DEF IInv, Between, LastScript
  <2>2. Claims(disk)
    BY <2>1, FineGood DEF Rest
  <2>3. /\ disk.rows["analyses"] # "claimed" /\ "scope" \in disk.marks /\ "phase_a" \in disk.marks
    BY <2>1 DEF Known
  <2> QED
    BY <2>2, <2>3 DEF Claims
<1> QED
  BY <1>1, Inductive, PTL

\* A start refuses only what the program leaves to a person, or one of the torn states
\* that an interrupted start has left on the disk, by dying at any of its durable
\* statements: a drop of triggers and indexes, a rename, a creation or an added column.
THEOREM RefusalsKnown == Spec => []RefusalsAreKnown
<1>1. IInv => RefusalsAreKnown
  BY DEF IInv, RefusalsAreKnown
<1> QED
  BY <1>1, Inductive, PTL
=============================================================================
