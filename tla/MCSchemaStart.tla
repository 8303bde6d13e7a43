---------------------------- MODULE MCSchemaStart ----------------------------
(***************************************************************************)
(* SchemaStart from every release, populated and empty, with a crash       *)
(* between any two statements of any number of starts.                     *)
(***************************************************************************)
EXTENDS SchemaStart

(***************************************************************************)
(* The releases: each marked migration with the shapes it brought.         *)
(***************************************************************************)
Changes ==
    <<[mark |-> "scope",      gives |-> {<<"analyses", "scoped">>, <<"artifacts", "produced">>}],
      [mark |-> "content",    gives |-> {<<"content", "whole">>, <<"reviews", "plain">>}],
      [mark |-> "quarantine", gives |-> {<<"queue", "base">>}],
      [mark |-> "identity",   gives |-> {<<"queue", "identified">>}],
      [mark |-> "guard",      gives |-> {}],
      [mark |-> "token",      gives |-> {<<"queue", "token">>}],
      [mark |-> "audit",      gives |-> {<<"reviews", "audited">>}],
      [mark |-> "evidence",   gives |-> {<<"notes", "evidence">>}],
      [mark |-> "note_ids",   gives |-> {<<"notes", "permanent">>}],
      [mark |-> "canonical",  gives |-> {<<"notes", "canonical">>}],
      [mark |-> "journal_v1", gives |-> {<<"journal", "v1">>}],
      [mark |-> "binding",    gives |-> {<<"facts", "bound">>}],
      [mark |-> "journal",    gives |-> {<<"journal", "v2">>}],
      [mark |-> "snapshot",   gives |-> {<<"notes", "versioned">>, <<"snapshots", "whole">>,
                                          <<"facts", "sealed">>}],
      [mark |-> "sealing",    gives |-> {<<"analyses", "sealed">>}],
      [mark |-> "media",      gives |-> {<<"media", "whole">>}],
      [mark |-> "phase_a",    gives |-> {<<"opportunities", "graded">>}]>>

\* The shape of a table after the first r changes.
ShapeAt(t, r) ==
    LET given == {i \in 1..r : \E p \in Changes[i].gives : p[1] = t}
    IN  IF given # {}
        THEN LET last == CHOOSE i \in given : \A j \in given : j <= i
             IN  (CHOOSE p \in Changes[last].gives : p[1] = t)[2]
        ELSE CASE t = "analyses"                    -> "bare"
               [] t \in {"opportunities", "artifacts"} -> "plain"
               [] OTHER                             -> "none"

\* What a populated table holds: its history, or for claims what they rest on.
RowsIn(t, shape, marks) ==
    CASE shape[t] = "none" \/ t = "facts" -> "none"
      [] t = "analyses"    -> IF "sealing" \in marks THEN "sealed" ELSE "claimed"
      [] OTHER             -> "here"

Left(shape, marks, populated) ==
    [shape |-> shape, marks |-> marks, aside |-> [t \in Table |-> "no"],
     rows |-> [t \in Table |-> IF populated THEN RowsIn(t, shape, marks) ELSE "none"]]

Release(r) == [shape |-> [t \in Table |-> ShapeAt(t, r)],
               marks |-> {Changes[i].mark : i \in 1..r}]

\* Nothing at all; a release; and tables from before their first migration.
Empty   == [shape |-> [t \in Table |-> "none"], marks |-> {}]
Weak    == [Release(7) EXCEPT !.shape["notes"] = "weak"]
Old     == [Release(1) EXCEPT !.shape["content"] = "old", !.shape["reviews"] = "old"]
MCOrigins == {Left(d.shape, d.marks, p) :
              d \in {Release(r) : r \in 0..Len(Changes)} \union {Weak, Old}, p \in BOOLEAN}
             \union {Left(Empty.shape, Empty.marks, FALSE)}
=============================================================================
