---------------------------- MODULE ContentProofs ----------------------------
(***************************************************************************)
(* Theorems about ContentWorkflow, for any number of calls.                *)
(*                                                                         *)
(* The final transaction of a regeneration writes the item without a guard *)
(* on its status.  That it takes nothing back rests on the history alone:  *)
(* a regeneration of a revision exists only if the revision was rejected,  *)
(* and a revision has one terminal review (History).  The other facts tie  *)
(* each request to what it reserved (Requested, Packaged, Carried).        *)
(***************************************************************************)
EXTENDS ContentWorkflow, SequenceTheorems, TLAPS

Decisions == {"approve", "reject", "regenerate"}
Outcomes  == {"pending", "succeeded", "failed"}
RowType   == [rev : Nat, decision : Decisions, outcome : Outcomes]
Ids       == 1..Len(reviews)
Reviewed  == {i \in Ids : reviews[i].decision # "regenerate"}

\* What the reviews of an item say of each other and of its revisions.
History ==
    /\ \A i \in Ids : reviews[i].rev \in 1..revisions
    /\ \A i \in Reviewed : reviews[i].outcome = "succeeded"
    /\ \A i, j \in Reviewed : reviews[i].rev = reviews[j].rev => i = j
    /\ \A i \in Ids : reviews[i].decision = "regenerate" =>
          \E j \in Ids : reviews[j].decision = "reject" /\ reviews[j].rev = reviews[i].rev
    /\ \A i \in Rows("regenerate", "succeeded") : reviews[i].rev < revisions
    /\ status \in {"none", "review"} => ~Terminal(current)
    /\ status = "none" => revisions = 0
    /\ status # "none" => revisions > 0

\* The revision a request makes follows the one it expects.  No request is at
\* work in a process that is down or starting.
Requested ==
    /\ \A r \in Requests : pc[r] \in Regenerating =>
          number[r] = base[r] + 1 /\ base[r] \in 1..revisions
    /\ phase # "up" => \A r \in Requests : pc[r] \in {"new", "done", "unknown"}

\* A draft is that of a request, which holds the open attempt, unless a request
\* has ended with an error; a package under construction is that of its builder.
Holds(r) == pc[r] \in Regenerating /\ base[r] = current /\ Audit(r, "pending")

Carried ==
    phase = "up" =>
        /\ status = "draft" => \E r \in Requests : Holds(r) \/ pc[r] = "unknown"
        /\ package.status = "building" =>
              package.token \in Requests /\ pc[package.token] \in Building \union {"unknown"}

\* An export is of an item that was approved; a builder has its package.
Packaged ==
    /\ phase = "packages" => package.status # "building"
    /\ \A r \in Requests :
          /\ pc[r] \in {"read_entries", "look", "reserve"} \union Building =>
                status \in {"approved", "exported"}
          /\ seen[r].status # "building"
          /\ pc[r] \in {"write", "finalize"} => Mine(r, "building")
          /\ pc[r] = "finalize" => file[r] # "none"
    /\ package.status # "none" => package.token \in Requests

IInv == HistoryIsConsistent /\ History /\ Requested /\ Carried /\ Packaged /\ PackageIsWhole
-----------------------------------------------------------------------------
\* The initial state satisfies the inductive invariant.
LEMMA InitIInv == Init => IInv
<1> SUFFICES ASSUME Init PROVE IInv
  OBVIOUS
<1> USE NoneAssumption DEF Init, NoPackage
<1>1. TypeOK
  BY EmptySeq DEF TypeOK, Places
<1>2. HistoryIsConsistent /\ History
  BY <1>1 DEF HistoryIsConsistent, History, Ids, Reviewed, Rows, Terminal
<1>3. Requested /\ Carried /\ Packaged /\ PackageIsWhole
  BY DEF Requested, Regenerating, Carried, Packaged, Building, PackageIsWhole
<1> QED
  BY <1>2, <1>3 DEF IInv

\* A step that leaves the content leaves its history.
LEMMA HistoryKept ==
    ASSUME IInv, UNCHANGED content, TypeOK'
    PROVE  HistoryIsConsistent' /\ History'
BY DEF IInv, content, HistoryIsConsistent, History, Ids, Reviewed, Rows, Terminal

\* The types, and the ids, of the reviews.
LEMMA ReviewTypes ==
    ASSUME IInv
    PROVE  /\ TypeOK
           /\ reviews \in Seq(RowType)
           /\ Len(reviews) \in Nat
           /\ \A i \in Ids : reviews[i] \in RowType
<1>1. TypeOK /\ reviews \in Seq(RowType)
  BY DEF IInv, HistoryIsConsistent, TypeOK, RowType, Decisions, Outcomes
<1> QED
  BY <1>1, LenProperties, ElementOfSeq DEF Ids

\* A row that is added leaves the others.
LEMMA RowAdded ==
    ASSUME IInv, NEW x \in RowType, reviews' = Append(reviews, x)
    PROVE  /\ reviews' \in Seq(RowType)
           /\ Ids' = Ids \union {Len(reviews) + 1} /\ Len(reviews) + 1 \notin Ids
           /\ \A i \in Ids : reviews'[i] = reviews[i]
           /\ reviews'[Len(reviews) + 1] = x
<1>1. /\ reviews' \in Seq(RowType) /\ Len(reviews') = Len(reviews) + 1
      /\ \A i \in 1..Len(reviews) : reviews'[i] = reviews[i]
      /\ reviews'[Len(reviews) + 1] = x
  BY ReviewTypes, AppendProperties
<1> QED
  BY <1>1, ReviewTypes DEF Ids

\* The outcome of an attempt is written, and nothing else.
LEMMA OutcomeSet ==
    ASSUME IInv, NEW r \in Requests, Exact(r), NEW o \in Outcomes, SetAudit(r, o)
    PROVE  /\ reviews' \in Seq(RowType) /\ Ids' = Ids
           /\ \A i \in Ids : /\ reviews'[i].rev = reviews[i].rev
                             /\ reviews'[i].decision = reviews[i].decision
                             /\ reviews'[i].outcome = IF i = attempt[r] THEN o
                                                      ELSE reviews[i].outcome
<1> DEFINE a == attempt[r]
           e == [reviews[a] EXCEPT !.outcome = o]
<1>1. a \in 1..Len(reviews)
  BY DEF Exact
<1>2. reviews[a] \in RowType
  BY <1>1, ReviewTypes DEF Ids
<1>3. e \in RowType /\ e.rev = reviews[a].rev /\ e.decision = reviews[a].decision /\ e.outcome = o
  BY <1>2 DEF RowType
<1>4. reviews' = [reviews EXCEPT ![a] = e]
  BY DEF SetAudit
<1> HIDE DEF a, e
<1>5. /\ reviews' \in Seq(RowType) /\ Len(reviews') = Len(reviews)
      /\ \A i \in 1..Len(reviews) : reviews'[i] = IF i = a THEN e ELSE reviews[i]
  BY <1>1, <1>3, <1>4, ReviewTypes, ExceptSeq
<1> QED
  BY <1>3, <1>5 DEF Ids, a

\* Create: the first revision has no review.
LEMMA CreateIInv == IInv /\ Create => IInv'
<1> SUFFICES ASSUME IInv, Create PROVE IInv'
  OBVIOUS
<1> USE ReviewTypes DEF Create
<1>1. HistoryIsConsistent' /\ History'
  BY DEF IInv, TypeOK, HistoryIsConsistent, History, Ids, Reviewed, Rows, Terminal, local
<1>2. Requested' /\ Carried'
  BY DEF IInv, History, Requested, Carried, local, Regenerating
<1>3. Packaged' /\ PackageIsWhole'
  BY DEF IInv, Packaged, PackageIsWhole, Mine, local, NoPackage
<1> QED
  BY <1>1, <1>2, <1>3 DEF IInv

\* A review is the one terminal review of the revision.
LEMMA ReviewIInv ==
    ASSUME IInv, NEW rev \in 1..revisions, NEW d \in {"approve", "reject"}, Review(rev, d)
    PROVE  IInv'
<1> DEFINE x == Row(rev, d, "succeeded")
<1>1. x \in RowType /\ x.rev = rev /\ x.decision = d /\ x.outcome = "succeeded"
  BY ReviewTypes DEF Row, RowType, Decisions, Outcomes, TypeOK
<1>2. reviews' = Append(reviews, x)
  BY DEF Review
<1> HIDE DEF x
<1>3. /\ reviews' \in Seq(RowType)
      /\ Ids' = Ids \union {Len(reviews) + 1} /\ Len(reviews) + 1 \notin Ids
      /\ \A i \in Ids : reviews'[i] = reviews[i]
      /\ reviews'[Len(reviews) + 1] = x
  BY <1>1, <1>2, RowAdded
<1>r. /\ status = "review" /\ current = rev /\ ~Terminal(rev) /\ UNCHANGED <<current, revisions>>
      /\ status' = IF d = "approve" THEN "approved" ELSE "rejected"
      /\ UNCHANGED <<package, file, pc, base, number, attempt, seen, phase>>
  BY DEF Review, local
<1>4. TypeOK'
  BY <1>3, <1>r, ReviewTypes DEF TypeOK, RowType, Decisions, Outcomes
<1>5. \A o, v : Rows(o, v) \subseteq Rows(o, v)'
  BY <1>3 DEF Rows, Ids
<1>6. Rows("regenerate", "succeeded")' = Rows("regenerate", "succeeded")
  BY <1>1, <1>3 DEF Rows, Ids
<1>7. Len(reviews) + 1 \in Rows(d, "succeeded")'
  BY <1>1, <1>3 DEF Rows, Ids
<1>8. HistoryIsConsistent'
  <2>1. \A o, v : \A i \in Rows(o, v) : reviews'[i] = reviews[i]
    BY <1>3 DEF Rows, Ids
  <2>2. /\ status' = "approved" => \E i \in Rows("approve", "succeeded")' : reviews'[i].rev = current'
        /\ status' = "rejected" => \E i \in Rows("reject", "succeeded")' : reviews'[i].rev = current'
    BY <1>1, <1>3, <1>7, <1>r
  <2>3. \A n \in 1..revisions' : n < revisions' =>
              /\ \E i \in Rows("reject", "succeeded")' : reviews'[i].rev = n
              /\ \E i \in Rows("regenerate", "succeeded")' :
                    \A j \in Rows("regenerate", "succeeded")' :
                        (reviews'[j].rev = n) <=> (j = i)
    <3> SUFFICES ASSUME NEW n \in 1..revisions, n < revisions
                 PROVE  /\ \E i \in Rows("reject", "succeeded")' : reviews'[i].rev = n
                        /\ \E i \in Rows("regenerate", "succeeded")' :
                              \A j \in Rows("regenerate", "succeeded")' :
                                  (reviews'[j].rev = n) <=> (j = i)
      BY <1>r
    <3>1. /\ \E i \in Rows("reject", "succeeded") : reviews[i].rev = n
          /\ \E i \in Rows("regenerate", "succeeded") :
                \A j \in Rows("regenerate", "succeeded") : (reviews[j].rev = n) <=> (j = i)
      BY DEF IInv, HistoryIsConsistent
    <3> QED
      BY <1>5, <1>6, <2>1, <3>1
  <2> QED
    BY <1>4, <1>r, <2>2, <2>3 DEF IInv, HistoryIsConsistent
<1>9. History'
  <2>1. Reviewed' = Reviewed \union {Len(reviews) + 1}
    BY <1>1, <1>3 DEF Reviewed
  <2>2. \A i \in Reviewed : i \in Ids /\ reviews[i].rev # rev
    BY <1>r DEF Reviewed, Ids, Terminal
  <2>3. \A i \in Ids' : reviews'[i].rev \in 1..revisions'
    BY <1>1, <1>3, <1>r DEF IInv, History
  <2>4. \A i \in Reviewed' : reviews'[i].outcome = "succeeded"
    BY <1>1, <1>3, <2>1, <2>2 DEF IInv, History
  <2>5. \A i, j \in Reviewed' : reviews'[i].rev = reviews'[j].rev => i = j
    BY <1>1, <1>3, <1>r, <2>1, <2>2 DEF IInv, History
  <2>6. \A i \in Ids' : reviews'[i].decision = "regenerate" =>
          \E j \in Ids' : reviews'[j].decision = "reject" /\ reviews'[j].rev = reviews'[i].rev
    BY <1>1, <1>3, <1>r DEF IInv, History
  <2>7. \A i \in Rows("regenerate", "succeeded")' : reviews'[i].rev < revisions'
    BY <1>3, <1>6, <1>r DEF IInv, History, Rows, Ids
  <2> QED
    BY <1>r, <2>3, <2>4, <2>5, <2>6, <2>7 DEF IInv, History
<1>10. Requested' /\ Carried' /\ Packaged' /\ PackageIsWhole'
  BY <1>r DEF IInv, Requested, Carried, Packaged, PackageIsWhole, Mine, NoPackage
<1> QED
  BY <1>4, <1>8, <1>9, <1>10 DEF IInv

\* A request goes on, and nothing else changes.
LEMMA GoOn ==
    ASSUME IInv, NEW r \in Requests, NEW p \in Places,
           pc' = [pc EXCEPT ![r] = p],
           UNCHANGED <<content, package, file, local, phase>>,
           pc[r] \notin {"new", "done", "unknown"}, p # "new",
           p \in Regenerating => pc[r] \in Regenerating,
           p \in {"look", "reserve"} \union Building =>
               pc[r] \in {"read_entries", "look", "reserve"} \union Building,
           p # "read_entries",
           p \in {"write", "finalize"} => Mine(r, "building"),
           p = "finalize" => file[r] # "none",
           Holds(r) /\ status = "draft" => p \in Regenerating \union {"unknown"},
           package.status = "building" /\ package.token = r /\ pc[r] \in Building
               => p \in Building \union {"unknown"}
    PROVE  IInv'
<1> USE ReviewTypes
<1>1. TypeOK'
  BY DEF TypeOK, content, local
<1>2. HistoryIsConsistent' /\ History'
  BY <1>1, HistoryKept
<1>3. Requested'
  BY DEF IInv, Requested, content, local, TypeOK, Regenerating
<1>4. Carried'
  <2>1. \A q \in Requests : q # r => (Holds(q)' <=> Holds(q)) /\ pc'[q] = pc[q]
    BY DEF Holds, Audit, Exact, content, local, TypeOK
  <2>2. p \in Regenerating => (Holds(r) => Holds(r)')
    BY DEF Holds, Audit, Exact, content, local, TypeOK
  <2> QED
    BY <2>1, <2>2 DEF IInv, Carried, content, local, TypeOK
<1>5. Packaged'
  BY DEF IInv, Packaged, Mine, content, local, TypeOK, Building
<1>6. PackageIsWhole'
  BY <1>5 DEF IInv, PackageIsWhole, Packaged, Mine, NoPackage, content, local
<1> QED
  BY <1>2, <1>3, <1>4, <1>5, <1>6 DEF IInv

\* The steps of a request that read, and those whose commit does not land.
LEMMA ReadIInv ==
    ASSUME IInv, NEW r \in Requests,
           \/ Resolve(r) \/ Generate(r) \/ Check(r) \/ CommitFails(r) \/ Unproven(r)
           \/ ReadEntries(r) \/ ResolvePackage(r) \/ FinalizeFails(r) \/ Prove(r)
    PROVE  IInv'
<1> DEFINE Same == UNCHANGED <<content, package, file, local, phase>>
           Ways == {<<"resolve", "unknown">>, <<"resolve", "generate">>, <<"resolve", "normalize_1">>,
                    <<"generate", "check">>, <<"generate", "restore">>,
                    <<"check", "commit">>, <<"check", "restore">>, <<"commit", "restore">>,
                    <<"unproven", "normalize_1">>,
                    <<"read_entries", "look">>, <<"read_entries", "done">>,
                    <<"resolve_package", "unknown">>, <<"finalize", "prove">>,
                    <<"finalize", "fail">>, <<"prove", "fail">>}
<1>1. Same
  BY DEF Resolve, Generate, Check, CommitFails, Unproven, ReadEntries, ResolvePackage,
     FinalizeFails, Prove, RequestOnly, ContentOnly, ExportStep, PackageOnly, content, local
<1>2. CASE \E way \in Ways : pc[r] = way[1] /\ pc' = [pc EXCEPT ![r] = way[2]]
  <2> PICK way \in Ways : pc[r] = way[1] /\ pc' = [pc EXCEPT ![r] = way[2]]
    BY <1>2
  <2> DEFINE p == way[2]
  <2>1. /\ p \in Places /\ p # "new" /\ pc[r] \notin {"new", "done", "unknown"}
        /\ p \notin {"read_entries", "write", "finalize"}
        /\ p \in Regenerating => pc[r] \in Regenerating
        /\ pc[r] \in Regenerating => p \in Regenerating \union {"unknown"}
        /\ p \in {"look", "reserve"} \union Building =>
              pc[r] \in {"read_entries", "look", "reserve"} \union Building
        /\ pc[r] \in Building => p \in Building \union {"unknown"}
    BY DEF Places, Regenerating, Building
  <2> HIDE DEF p, Ways
  <2>2. pc' = [pc EXCEPT ![r] = p]
    BY DEF p
  <2> QED
    BY <1>1, <2>1, <2>2, GoOn DEF Holds
<1>3. CASE \/ /\ pc[r] = "resolve" /\ pc' = [pc EXCEPT ![r] = "done"]
              /\ status = "rejected"
           \/ /\ pc[r] = "unproven" /\ pc' = [pc EXCEPT ![r] = "done"]
              /\ status = "rejected"
  BY <1>1, <1>3, GoOn DEF Places, Regenerating, Building
<1>4. CASE pc[r] = "resolve_package" /\ pc' = [pc EXCEPT ![r] = "write"] /\ Mine(r, "building")
  BY <1>1, <1>4, GoOn DEF Places, Regenerating, Building, Holds
<1>5. CASE \/ /\ pc[r] = "resolve_package" /\ pc' = [pc EXCEPT ![r] = "done"]
              /\ package = seen[r]
           \/ pc[r] = "prove" /\ pc' = [pc EXCEPT ![r] = "done"] /\ Mine(r, "ready")
  <2>1. package.status # "building"
    BY <1>5 DEF IInv, Packaged, Mine
  <2> QED
    BY <1>1, <1>5, <2>1, GoOn DEF Places, Regenerating, Building, Holds
<1> QED
  BY <1>2, <1>3, <1>4, <1>5 DEF Resolve, Generate, Check, CommitFails, Unproven, ReadEntries,
     ResolvePackage, FinalizeFails, Prove, At, Goto, ItemIs, Proven

\* Outcomes of open attempts are written, or a status that the history allows.
LEMMA HistoryMoves ==
    ASSUME IInv, TypeOK', Ids' = Ids, UNCHANGED <<current, revisions>>,
           \A i \in Ids :
               /\ reviews'[i].rev = reviews[i].rev
               /\ reviews'[i].decision = reviews[i].decision
               /\ \/ reviews'[i].outcome = reviews[i].outcome
                  \/ /\ reviews[i].decision = "regenerate" /\ reviews[i].outcome # "succeeded"
                     /\ reviews'[i].outcome = "failed",
           \/ status' = status /\ status # "draft"
           \/ status \in {"draft", "rejected"} /\ status' = "rejected"
           \/ status \in {"approved", "exported"} /\ status' = "exported"
    PROVE  HistoryIsConsistent' /\ History'
<1>1. /\ Reviewed' = Reviewed
      /\ \A i \in Reviewed : i \in Ids /\ reviews'[i].outcome = reviews[i].outcome
  BY DEF Reviewed
<1>2. \A d \in {"approve", "reject", "regenerate"} : Rows(d, "succeeded")' = Rows(d, "succeeded")
  BY DEF Rows, Ids
<1>3. \A d \in Decisions : \A i \in Rows(d, "succeeded") : i \in Ids
  BY DEF Rows, Ids
<1>4. HistoryIsConsistent'
  BY <1>2, <1>3 DEF IInv, HistoryIsConsistent, Decisions
<1>5. History'
  <2>1. Terminal(current)' <=> Terminal(current)
    BY DEF Terminal, Ids
  <2>2. \A i \in Ids' : reviews'[i].decision = "regenerate" =>
          \E j \in Ids' : reviews'[j].decision = "reject" /\ reviews'[j].rev = reviews'[i].rev
    BY DEF IInv, History
  <2> QED
    BY <1>1, <1>2, <1>3, <2>1, <2>2 DEF IInv, History, Decisions
<1> QED
  BY <1>4, <1>5

\* Both rows of a failed regeneration: its own attempt, if it is open.
LEMMA RejectedIInv ==
    ASSUME IInv, NEW r \in Requests, NEW p \in {"done", "unproven", "unknown"},
           ItemIs(r, "draft") \/ ItemIs(r, "rejected"),
           Audit(r, "pending") \/ Audit(r, "failed"),
           pc[r] \in Regenerating, Rejected(r), pc' = [pc EXCEPT ![r] = p]
    PROVE  IInv'
<1>1. /\ reviews' \in Seq(RowType) /\ Ids' = Ids
      /\ \A i \in Ids : /\ reviews'[i].rev = reviews[i].rev
                        /\ reviews'[i].decision = reviews[i].decision
                        /\ reviews'[i].outcome = IF i = attempt[r] THEN "failed"
                                                 ELSE reviews[i].outcome
  BY OutcomeSet DEF Audit, Rejected, Outcomes
<1>2. /\ status' = "rejected" /\ status \in {"draft", "rejected"}
      /\ UNCHANGED <<current, revisions, base, number, attempt, package, file, seen, phase>>
  BY DEF Rejected, ContentOnly, local, ItemIs
<1>3. TypeOK'
  BY <1>1, <1>2, ReviewTypes DEF TypeOK, RowType, Decisions, Outcomes, Places, Regenerating
<1>4. HistoryIsConsistent' /\ History'
  <2>1. /\ attempt[r] \in Ids /\ reviews[attempt[r]].decision = "regenerate"
        /\ reviews[attempt[r]].outcome # "succeeded"
    BY DEF Audit, Exact, Ids
  <2> QED
    BY <1>1, <1>2, <1>3, <2>1, HistoryMoves
<1>5. Requested' /\ Carried' /\ Packaged'
  <2>1. \A q \in Requests : pc[q] \notin {"read_entries", "look", "reserve"} \union Building
    BY <1>2 DEF IInv, Packaged
  <2> QED
    BY <1>2, <2>1, ReviewTypes, SMTT(30)
    DEF IInv, TypeOK, Requested, Carried, Packaged, Mine, Building,
       Regenerating
<1>6. PackageIsWhole'
  BY <1>2, <1>5 DEF IInv, PackageIsWhole, Packaged, Building, Mine, NoPackage
<1> QED
  BY <1>4, <1>5, <1>6 DEF IInv

\* The reservation of a regeneration: its attempt is the row it adds, if it
\* lands.  Otherwise the id is that of whatever row comes next.
LEMMA ReserveIInv ==
    ASSUME IInv, NEW r \in Requests, Reserve(r)
    PROVE  IInv'
<1> DEFINE x == Row(current, "regenerate", "pending")
           n == Len(reviews) + 1
<1>1. /\ phase = "up" /\ pc[r] = "new" /\ status = "rejected"
      /\ base' = [base EXCEPT ![r] = current]
      /\ number' = [number EXCEPT ![r] = revisions + 1]
      /\ attempt' = [attempt EXCEPT ![r] = n]
      /\ UNCHANGED <<current, revisions, package, file, seen, phase>>
      /\ \E p \in {"generate", "resolve"} : pc' = [pc EXCEPT ![r] = p]
  BY DEF Reserve, At, Regenerable, Goto, Landed, ContentOnly
<1>2. \/ status' = "draft" /\ reviews' = Append(reviews, x)
      \/ UNCHANGED <<status, reviews>>
  BY DEF Reserve
<1>3. /\ current \in Nat /\ revisions \in Nat /\ n \in Nat /\ current = revisions
      /\ current \in 1..revisions /\ current \in 1..revisions
  BY <1>1, ReviewTypes DEF TypeOK, IInv, HistoryIsConsistent, History
<1>4. x \in RowType /\ x.rev = current /\ x.decision = "regenerate" /\ x.outcome = "pending"
  BY <1>3 DEF Row, RowType, Decisions, Outcomes
<1> HIDE DEF x
<1>5. CASE UNCHANGED <<status, reviews>>
  <2>1. TypeOK'
    BY <1>1, <1>3, <1>5, ReviewTypes DEF TypeOK, Places, Regenerating
  <2>2. HistoryIsConsistent' /\ History'
    BY <1>1, <1>5, <2>1, HistoryKept DEF content
  <2>3. Requested' /\ Carried'
    BY <1>1, <1>3, <1>5, ReviewTypes, SMTT(30)
    DEF IInv, TypeOK, Requested, Carried, Regenerating, Building
  <2>4. Packaged' /\ PackageIsWhole'
    BY <1>1, <1>5, ReviewTypes, SMTT(30)
    DEF IInv, TypeOK, Packaged, PackageIsWhole, Mine, Building, NoPackage
  <2> QED
    BY <2>1, <2>2, <2>3, <2>4 DEF IInv
<1>6. CASE status' = "draft" /\ reviews' = Append(reviews, x)
  <2>1. /\ reviews' \in Seq(RowType)
        /\ Ids' = Ids \union {n} /\ n \notin Ids
        /\ \A i \in Ids : reviews'[i] = reviews[i]
        /\ reviews'[n] = x
    BY <1>4, <1>6, RowAdded
  <2> HIDE DEF n
  <2>2. TypeOK'
    BY <1>1, <1>3, <1>6, <2>1, ReviewTypes, SMTT(30)
    DEF TypeOK, Places, Regenerating, RowType, Decisions,
       Outcomes
  <2>3. \A d \in Decisions : Rows(d, "succeeded")' = Rows(d, "succeeded")
    BY <1>4, <2>1 DEF Rows, Ids
  <2>4. \A d \in Decisions : \A i \in Rows(d, "succeeded") : i \in Ids /\ reviews[i].decision = d
    BY DEF Rows, Ids
  <2>5. HistoryIsConsistent'
    <3>1. n \in Rows("regenerate", "pending")'
      BY <1>4, <2>1 DEF Rows, Ids
    <3>2. \E i \in Rows("reject", "succeeded") : reviews[i].rev = current
      BY <1>1 DEF IInv, HistoryIsConsistent
    <3>3. \A d \in Decisions : \A i \in Rows(d, "succeeded") : reviews'[i] = reviews[i]
      BY <2>1, <2>4
    <3>4. \A m \in 1..revisions' : m < revisions' =>
              /\ \E i \in Rows("reject", "succeeded")' : reviews'[i].rev = m
              /\ \E i \in Rows("regenerate", "succeeded")' :
                    \A j \in Rows("regenerate", "succeeded")' :
                        (reviews'[j].rev = m) <=> (j = i)
      <4> SUFFICES ASSUME NEW m \in 1..revisions, m < revisions
                   PROVE  /\ \E i \in Rows("reject", "succeeded") : reviews[i].rev = m
                          /\ \E i \in Rows("regenerate", "succeeded") :
                                \A j \in Rows("regenerate", "succeeded") :
                                    (reviews[j].rev = m) <=> (j = i)
        BY <1>1, <2>3, <3>3 DEF Decisions
      <4> QED
        BY DEF IInv, HistoryIsConsistent
    <3>5. \E i \in Rows("reject", "succeeded")' : reviews'[i].rev = current
      BY <2>3, <3>2, <3>3 DEF Decisions
    <3> QED
      BY <1>1, <1>3, <1>4, <1>6, <2>1, <2>2, <3>1, <3>4, <3>5 DEF HistoryIsConsistent
  <2>6. History'
    <3>1. Reviewed' = Reviewed /\ \A i \in Reviewed : i \in Ids
      BY <1>4, <2>1 DEF Reviewed
    <3>2. \E j \in Ids : reviews[j].decision = "reject" /\ reviews[j].rev = current
      BY <1>1, <2>4 DEF IInv, HistoryIsConsistent, Decisions
    <3>3. \A i \in Ids' : reviews'[i].rev \in 1..revisions
      BY <1>3, <1>4, <2>1 DEF IInv, History
    <3>4. \A i \in Ids' : reviews'[i].decision = "regenerate" =>
            \E j \in Ids' : reviews'[j].decision = "reject" /\ reviews'[j].rev = reviews'[i].rev
      BY <1>4, <2>1, <3>2 DEF IInv, History
    <3>5. \A i \in Reviewed : reviews'[i] = reviews[i]
      BY <2>1, <3>1
    <3>6. /\ \A i \in Reviewed' : reviews'[i].outcome = "succeeded"
          /\ \A i, j \in Reviewed' : reviews'[i].rev = reviews'[j].rev => i = j
      BY <3>1, <3>5 DEF IInv, History
    <3>7. \A i \in Rows("regenerate", "succeeded")' : reviews'[i].rev < revisions
      BY <2>1, <2>3, <2>4 DEF IInv, History, Decisions
    <3>8. revisions' = revisions /\ revisions > 0 /\ status' = "draft"
      BY <1>1, <1>3, <1>6
    <3> QED
      BY <3>3, <3>4, <3>6, <3>7, <3>8 DEF History
  <2>7. Requested'
    BY <1>1, <1>3, ReviewTypes DEF IInv, TypeOK, Requested, Regenerating
  <2>8. Carried'
    <3>1. Holds(r)'
      BY <1>1, <1>4, <2>1, <2>2, ReviewTypes DEF Holds, Audit, Exact, TypeOK, Ids, Regenerating
    <3>2. package.status # "building"
      BY <1>1 DEF IInv, PackageIsWhole, NoPackage
    <3> QED
      BY <1>1, <3>1, <3>2 DEF Carried
  <2>9. Packaged' /\ PackageIsWhole'
    <3>1. \A q \in Requests : pc[q] \notin {"read_entries", "look", "reserve"} \union Building
      BY <1>1 DEF IInv, Packaged
    <3> QED
      BY <1>1, <1>6, <3>1, ReviewTypes DEF IInv, TypeOK, Packaged, PackageIsWhole, Mine, Building,
         NoPackage
  <2> QED
    BY <2>2, <2>5, <2>6, <2>7, <2>8, <2>9 DEF IInv
<1> QED
  BY <1>2, <1>5, <1>6

\* A regeneration that wins replaces the current revision, which was rejected:
\* the item it writes without looking at its status is a draft or rejected.
LEMMA WinnerIsRejected ==
    ASSUME IInv, NEW r \in Requests, Wins(r), pc[r] = "commit"
    PROVE  /\ base[r] = revisions /\ number[r] = revisions + 1
           /\ attempt[r] \in Ids /\ reviews[attempt[r]].rev = revisions
           /\ reviews[attempt[r]].decision = "regenerate"
           /\ reviews[attempt[r]].outcome = "pending"
           /\ \E j \in Rows("reject", "succeeded") : reviews[j].rev = revisions
           /\ status \in {"draft", "rejected"}
<1>1. /\ number[r] = base[r] + 1 /\ base[r] \in 1..revisions /\ number[r] > revisions
      /\ revisions \in Nat /\ current = revisions
  BY ReviewTypes DEF IInv, HistoryIsConsistent, Requested, Regenerating, Wins, TypeOK
<1>2. base[r] = revisions
  BY <1>1
<1>3. /\ attempt[r] \in Ids /\ reviews[attempt[r]].rev = revisions
      /\ reviews[attempt[r]].decision = "regenerate" /\ reviews[attempt[r]].outcome = "pending"
  BY <1>2 DEF Wins, Audit, Exact, Ids
<1>4. PICK j \in Ids : reviews[j].decision = "reject" /\ reviews[j].rev = revisions
  BY <1>3 DEF IInv, History
<1>5. j \in Reviewed /\ j \in Rows("reject", "succeeded")
  BY <1>4 DEF IInv, History, Reviewed, Rows, Ids
<1>6. status \notin {"none", "review"}
  BY <1>1, <1>4 DEF IInv, History, Terminal, Ids
<1>7. status \notin {"approved", "exported"}
  <2>1. \A i \in Rows("approve", "succeeded") : i \in Reviewed /\ reviews[i].decision = "approve"
    BY DEF Rows, Reviewed, Ids
  <2> QED
    BY <1>1, <1>4, <1>5, <2>1 DEF IInv, HistoryIsConsistent, History
<1> QED
  BY <1>1, <1>2, <1>3, <1>4, <1>5, <1>6, <1>7, ReviewTypes DEF TypeOK

\* The final transaction of a regeneration.
LEMMA CommitIInv ==
    ASSUME IInv, NEW r \in Requests, Commit(r)
    PROVE  IInv'
<1> DEFINE a == attempt[r]
<1>1. /\ pc[r] = "commit" /\ Wins(r) /\ Exact(r) /\ SetAudit(r, "succeeded")
      /\ status' = "review" /\ current' = number[r] /\ revisions' = number[r]
      /\ UNCHANGED <<base, number, attempt, package, file, seen, phase>>
      /\ \E p \in {"done", "restore"} : pc' = [pc EXCEPT ![r] = p]
  BY DEF Commit, At, Wins, Audit, Landed, Goto, ContentOnly, local
<1>2. /\ base[r] = revisions /\ number[r] = revisions + 1
      /\ a \in Ids /\ reviews[a].rev = revisions /\ reviews[a].decision = "regenerate"
      /\ reviews[a].outcome = "pending"
      /\ \E j \in Rows("reject", "succeeded") : reviews[j].rev = revisions
      /\ status \in {"draft", "rejected"}
  BY <1>1, WinnerIsRejected
<1>3. /\ reviews' \in Seq(RowType) /\ Ids' = Ids
      /\ \A i \in Ids : /\ reviews'[i].rev = reviews[i].rev
                        /\ reviews'[i].decision = reviews[i].decision
                        /\ reviews'[i].outcome = IF i = a THEN "succeeded"
                                                 ELSE reviews[i].outcome
  BY <1>1, OutcomeSet DEF Outcomes
<1> HIDE DEF a
<1>4. revisions \in Nat /\ current = revisions /\ revisions' = revisions + 1 /\ current' = revisions'
  BY <1>1, <1>2, ReviewTypes DEF TypeOK, IInv, HistoryIsConsistent
<1>5. TypeOK'
  BY <1>1, <1>3, <1>4, ReviewTypes DEF TypeOK, RowType, Decisions, Outcomes, Places, Regenerating
<1>6. /\ Rows("reject", "succeeded")' = Rows("reject", "succeeded")
      /\ Rows("regenerate", "succeeded")' = Rows("regenerate", "succeeded") \union {a}
      /\ \A d \in Decisions : \A i \in Rows(d, "succeeded") : i \in Ids
  BY <1>2, <1>3 DEF Rows, Ids
<1>7. HistoryIsConsistent'
  <2>1. ASSUME NEW m \in 1..revisions', m < revisions'
        PROVE  \E i \in Rows("reject", "succeeded")' : reviews'[i].rev = m
    <3>1. m = revisions \/ (m \in 1..revisions /\ m < revisions)
      BY <1>4, <2>1
    <3>2. \E i \in Rows("reject", "succeeded") : reviews[i].rev = m
      BY <1>2, <3>1 DEF IInv, HistoryIsConsistent
    <3> QED
      BY <1>3, <1>6, <3>2 DEF Decisions
  <2>2. ASSUME NEW m \in 1..revisions', m < revisions'
        PROVE  \E i \in Rows("regenerate", "succeeded")' :
                    \A j \in Rows("regenerate", "succeeded")' :
                        (reviews'[j].rev = m) <=> (j = i)
    <3>1. CASE m = revisions
      <4>1. \A j \in Rows("regenerate", "succeeded") : reviews'[j].rev < revisions
        BY <1>3, <1>6 DEF IInv, History, Decisions
      <4>2. \A j \in Rows("regenerate", "succeeded")' : (reviews'[j].rev = m) <=> (j = a)
        BY <1>2, <1>3, <1>4, <1>6, <3>1, <4>1
      <4> QED
        BY <1>6, <4>2
    <3>2. CASE m \in 1..revisions /\ m < revisions
      <4>1. PICK i \in Rows("regenerate", "succeeded") :
                \A j \in Rows("regenerate", "succeeded") : (reviews[j].rev = m) <=> (j = i)
        BY <3>2 DEF IInv, HistoryIsConsistent
      <4>2. i # a
        BY <1>2, <1>4, <3>2, <4>1
      <4>3. \A j \in Rows("regenerate", "succeeded")' : (reviews'[j].rev = m) <=> (j = i)
        BY <1>2, <1>3, <1>4, <1>6, <3>2, <4>1, <4>2 DEF Decisions
      <4> QED
        BY <1>6, <4>3
    <3> QED
      BY <1>4, <2>2, <3>1, <3>2
  <2> QED
    BY <1>1, <1>4, <1>5, <2>1, <2>2 DEF HistoryIsConsistent
<1>8. History'
  <2>1. /\ Reviewed' = Reviewed
        /\ \A i \in Reviewed : /\ reviews'[i].outcome = reviews[i].outcome
                               /\ reviews'[i].rev = reviews[i].rev
    BY <1>2, <1>3 DEF Reviewed
  <2>2. \A i \in Ids' : reviews'[i].rev \in 1..revisions'
    BY <1>3, <1>4 DEF IInv, History
  <2>3. \A i \in Ids' : reviews'[i].decision = "regenerate" =>
          \E j \in Ids' : reviews'[j].decision = "reject" /\ reviews'[j].rev = reviews'[i].rev
    BY <1>3 DEF IInv, History
  <2>4. \A i \in Rows("regenerate", "succeeded")' : reviews'[i].rev < revisions'
    BY <1>2, <1>3, <1>4, <1>6 DEF IInv, History, Decisions
  <2>5. ~Terminal(current)'
    BY <1>3, <1>4 DEF IInv, History, Terminal, Ids
  <2>6. /\ \A i \in Reviewed' : reviews'[i].outcome = "succeeded"
        /\ \A i, j \in Reviewed' : reviews'[i].rev = reviews'[j].rev => i = j
    BY <2>1 DEF IInv, History
  <2>7. revisions' > 0 /\ status' = "review"
    BY <1>1, <1>4
  <2> QED
    BY <2>2, <2>3, <2>4, <2>5, <2>6, <2>7 DEF History
<1>9. Requested'
  BY <1>1, <1>4, ReviewTypes DEF IInv, TypeOK, Requested, Regenerating
<1>10. Carried' /\ Packaged' /\ PackageIsWhole'
  <2>1. \A q \in Requests : pc[q] \notin {"read_entries", "look", "reserve"} \union Building
    BY <1>2 DEF IInv, Packaged
  <2>2. package = NoPackage
    BY <1>2 DEF IInv, PackageIsWhole
  <2> QED
    BY <1>1, <2>1, <2>2, ReviewTypes DEF IInv, TypeOK, Carried, Packaged, PackageIsWhole, Mine,
       Building, NoPackage
<1> QED
  BY <1>5, <1>7, <1>8, <1>9, <1>10 DEF IInv

\* Restoration, resolved or not.
LEMMA RestoreIInv ==
    ASSUME IInv, NEW r \in Requests, Restore(r)
    PROVE  IInv'
<1>1. pc[r] = "restore"
  BY DEF Restore, At
<1>2. CASE /\ ItemIs(r, "draft") /\ Audit(r, "pending") /\ Rejected(r)
           /\ Landed(r, "done", "unproven")
  BY <1>1, <1>2, RejectedIInv DEF Landed, Goto, Regenerating
<1>3. CASE RequestOnly /\ Goto(r, "done") /\ ~(ItemIs(r, "draft") /\ Audit(r, "pending"))
  <2>1. ~(Holds(r) /\ status = "draft")
    BY <1>3 DEF Holds, ItemIs
  <2> QED
    BY <1>1, <1>3, <2>1, GoOn DEF RequestOnly, ContentOnly, Goto, Places, Regenerating, Building,
       local, content
<1>4. CASE RequestOnly /\ (Goto(r, "unproven") \/ Goto(r, "unknown"))
  BY <1>1, <1>4, GoOn DEF RequestOnly, ContentOnly, Goto, Places, Regenerating, Building,
     local, content
<1> QED
  BY <1>2, <1>3, <1>4 DEF Restore

\* Normalisation, twice at most.
LEMMA NormalizeIInv ==
    ASSUME IInv, NEW r \in Requests,
           \/ Normalize(r, "normalize_1", "normalize_2")
           \/ Normalize(r, "normalize_2", "unknown")
    PROVE  IInv'
<1>1. pc[r] \in {"normalize_1", "normalize_2"}
  BY DEF Normalize, At
<1>2. CASE /\ ItemIs(r, "draft") \/ ItemIs(r, "rejected")
           /\ Audit(r, "pending") \/ Audit(r, "failed")
           /\ Rejected(r) /\ Goto(r, "unknown")
  BY <1>1, <1>2, RejectedIInv DEF Goto, Regenerating
<1>3. CASE RequestOnly /\ (Goto(r, "normalize_2") \/ Goto(r, "unknown"))
  BY <1>1, <1>3, GoOn DEF RequestOnly, ContentOnly, Goto, Places, Regenerating, Building,
     local, content
<1> QED
  BY <1>2, <1>3 DEF Normalize

\* The first session of an export.
LEMMA ExportIInv ==
    ASSUME IInv, NEW r \in Requests, Export(r)
    PROVE  IInv'
<1>1. /\ phase = "up" /\ pc[r] = "new" /\ status \in {"approved", "exported"}
      /\ base' = [base EXCEPT ![r] = current] /\ pc' = [pc EXCEPT ![r] = "read_entries"]
      /\ UNCHANGED <<status, current, revisions, reviews, package, file, number, attempt, seen, phase>>
  BY DEF Export, At, Goto, Exportable, content
<1>2. TypeOK
  BY ReviewTypes
<1>3. TypeOK'
  BY <1>1, <1>2 DEF TypeOK, Places
<1>4. HistoryIsConsistent' /\ History'
  BY <1>1, <1>3, HistoryKept DEF content
<1>5. Requested' /\ Carried'
  BY <1>1, <1>2 DEF IInv, Requested, Carried, TypeOK, Regenerating, Building
<1>6. Packaged' /\ PackageIsWhole'
  BY <1>1, <1>2 DEF IInv, Packaged, PackageIsWhole, Mine, NoPackage, TypeOK
<1> QED
  BY <1>4, <1>5, <1>6 DEF IInv

\* The reads of its second session.
LEMMA LookIInv ==
    ASSUME IInv, NEW r \in Requests, Look(r)
    PROVE  IInv'
<1>1. /\ pc[r] = "look"
      /\ UNCHANGED <<status, current, revisions, reviews, package, file, base, number, attempt, phase>>
      /\ \/ /\ package.status # "building" /\ seen' = [seen EXCEPT ![r] = package]
            /\ pc' = [pc EXCEPT ![r] = "reserve"]
         \/ UNCHANGED seen /\ pc' = [pc EXCEPT ![r] = "done"]
  BY DEF Look, At, Goto, PackageOnly
<1>2. TypeOK /\ status \in {"approved", "exported"} /\ phase = "up"
  BY <1>1, ReviewTypes DEF IInv, Packaged, Requested
<1>3. TypeOK'
  <2>1. pc' \in [Requests -> Places]
    BY <1>1, <1>2 DEF TypeOK, Places, Building
  <2>2. seen' \in [Requests -> [status : {"none", "building", "ready", "failed"},
                                token  : Requests \union {None}]]
    BY <1>1, <1>2 DEF TypeOK
  <2> QED
    BY <1>1, <1>2, <2>1, <2>2 DEF TypeOK
<1>4. HistoryIsConsistent' /\ History'
  BY <1>1, <1>3, HistoryKept DEF content
<1>5. Requested' /\ Carried'
  BY <1>1, <1>2 DEF IInv, Requested, Carried, TypeOK, Regenerating, Building
<1>6. Packaged' /\ PackageIsWhole'
  BY <1>1, <1>2, ZenonT(60) DEF IInv, Packaged, PackageIsWhole, Mine, NoPackage, TypeOK, Building
<1> QED
  BY <1>4, <1>5, <1>6 DEF IInv

\* A step of a builder leaves the drafts to their requests.
LEMMA BuilderStep ==
    ASSUME IInv, NEW r \in Requests, NEW p \in Building \union {"done", "unknown"},
           pc[r] \in {"reserve"} \union Building, pc' = [pc EXCEPT ![r] = p],
           PackageOnly, TypeOK',
           status' = status \/ (Exportable /\ status' = "exported")
    PROVE  /\ Requested' /\ HistoryIsConsistent' /\ History'
           /\ phase = "up" /\ status' \in {"approved", "exported"}
           /\ status \in {"approved", "exported"}
<1> USE ReviewTypes DEF PackageOnly
<1>1. status \in {"approved", "exported"}
  BY DEF IInv, Packaged
<1>2. HistoryIsConsistent' /\ History'
  BY <1>1, HistoryMoves DEF Ids, Exportable
<1>3. Requested' /\ phase = "up"
  BY DEF IInv, Requested, TypeOK, Regenerating, Building
<1> QED
  BY <1>1, <1>2, <1>3 DEF Exportable

\* The reservation of a package, from a state that nobody builds.
LEMMA ReservePackageIInv ==
    ASSUME IInv, NEW r \in Requests, ReservePackage(r)
    PROVE  IInv'
<1>1. /\ pc[r] = "reserve" /\ PackageOnly /\ UNCHANGED <<status, file, seen>>
      /\ \/ /\ package = seen[r] /\ package' = [status |-> "building", token |-> r]
            /\ \E p \in {"write", "resolve_package"} : pc' = [pc EXCEPT ![r] = p]
         \/ /\ UNCHANGED package
            /\ \E p \in {"done", "resolve_package"} : pc' = [pc EXCEPT ![r] = p]
  BY DEF ReservePackage, At, Goto, Landed, Unreserved
<1>2. TypeOK
  BY ReviewTypes
<1>3. TypeOK'
  <2>1. pc' \in [Requests -> Places]
    BY <1>1, <1>2 DEF TypeOK, Places, Building
  <2>2. package' \in [status : {"none", "building", "ready", "failed"}, token : Requests \union {None}]
    BY <1>1, <1>2 DEF TypeOK
  <2> QED
    BY <1>1, <1>2, <2>1, <2>2 DEF TypeOK, PackageOnly
<1>4. /\ Requested' /\ HistoryIsConsistent' /\ History'
      /\ phase = "up" /\ status' \in {"approved", "exported"}
      /\ status \in {"approved", "exported"}
  BY <1>1, <1>3, BuilderStep DEF Building
<1>5. package' # package => package.status # "building"
  BY <1>1 DEF IInv, Packaged
<1>6. Carried'
  BY <1>1, <1>2, <1>4 DEF IInv, Carried, TypeOK, Building, PackageOnly
<1>7. Packaged'
  BY <1>1, <1>2, <1>4, <1>5 DEF IInv, Packaged, TypeOK, Building, PackageOnly, Mine
<1>8. PackageIsWhole'
  BY <1>1, <1>4, <1>7, NoneAssumption DEF IInv, PackageIsWhole, Packaged, NoPackage, Mine
<1> QED
  BY <1>4, <1>6, <1>7, <1>8 DEF IInv

\* The write of the archive: the path is that of the builder alone.
LEMMA WriteIInv ==
    ASSUME IInv, NEW r \in Requests, Write(r)
    PROVE  IInv'
<1>1. /\ pc[r] = "write" /\ PackageOnly /\ UNCHANGED <<status, package, seen>>
      /\ \E c \in {"none", "good", "bad"} : file' = [file EXCEPT ![r] = c]
      /\ \/ /\ pc' = [pc EXCEPT ![r] = "finalize"]
            /\ file' = [file EXCEPT ![r] = "good"]
         \/ pc' = [pc EXCEPT ![r] = "fail"]
  BY DEF Write, At, Goto
<1>2. TypeOK /\ Mine(r, "building")
  BY <1>1, ReviewTypes DEF IInv, Packaged
<1>3. TypeOK'
  <2>1. pc' \in [Requests -> Places]
    BY <1>1, <1>2 DEF TypeOK, Places, Building
  <2>2. file' \in [Requests -> {"none", "good", "bad"}]
    BY <1>1, <1>2 DEF TypeOK
  <2> QED
    BY <1>1, <1>2, <2>1, <2>2 DEF TypeOK, PackageOnly
<1>4. /\ Requested' /\ HistoryIsConsistent' /\ History'
      /\ phase = "up" /\ status' \in {"approved", "exported"}
      /\ status \in {"approved", "exported"}
  BY <1>1, <1>3, BuilderStep DEF Building
<1>5. Carried'
  BY <1>1, <1>2, <1>4 DEF IInv, Carried, TypeOK, Building, PackageOnly
<1>6. Packaged'
  BY <1>1, <1>2, <1>4 DEF IInv, Packaged, TypeOK, Building, PackageOnly, Mine
<1>7. PackageIsWhole'
  BY <1>1, <1>2, <1>4, <1>6, NoneAssumption DEF IInv, PackageIsWhole, Packaged, NoPackage, Mine
<1> QED
  BY <1>4, <1>5, <1>6, <1>7 DEF IInv

\* The last transaction of a build: the package is ready with its file.
LEMMA FinalizeIInv ==
    ASSUME IInv, NEW r \in Requests, Finalize(r)
    PROVE  IInv'
<1>1. /\ pc[r] = "finalize" /\ PackageOnly /\ Exportable /\ status' = "exported"
      /\ Mine(r, "building") /\ package' = [status |-> "ready", token |-> r]
      /\ \E p \in {"done", "prove"} : pc' = [pc EXCEPT ![r] = p]
      /\ UNCHANGED <<file, seen>>
  BY DEF Finalize, Finalizable, At, Goto, Landed
<1>2. TypeOK /\ file[r] # "none"
  BY <1>1, ReviewTypes DEF IInv, Packaged
<1>3. TypeOK'
  BY <1>1, <1>2 DEF TypeOK, Places, Building, PackageOnly
<1>4. /\ Requested' /\ HistoryIsConsistent' /\ History'
      /\ phase = "up" /\ status' \in {"approved", "exported"}
      /\ status \in {"approved", "exported"}
  BY <1>1, <1>3, BuilderStep DEF Building
<1>5. Carried'
  BY <1>1, <1>2, <1>4 DEF Carried
<1>6. Packaged'
  BY <1>1, <1>2, <1>4 DEF IInv, Packaged, TypeOK, Building, PackageOnly, Mine, PackageIsWhole
<1>7. PackageIsWhole'
  BY <1>1, <1>2, <1>4, <1>6, NoneAssumption DEF PackageIsWhole, Packaged, NoPackage, Mine
<1> QED
  BY <1>4, <1>5, <1>6, <1>7 DEF IInv

\* A build that has failed: its own package, if it is still under construction.
LEMMA FailIInv ==
    ASSUME IInv, NEW r \in Requests, Fail(r)
    PROVE  IInv'
<1>1. /\ pc[r] = "fail" /\ PackageOnly /\ UNCHANGED <<status, file, seen>>
      /\ \/ /\ Mine(r, "building") /\ package' = [package EXCEPT !.status = "failed"]
            /\ \E p \in {"done", "unknown"} : pc' = [pc EXCEPT ![r] = p]
         \/ /\ UNCHANGED package /\ pc' = [pc EXCEPT ![r] = "unknown"]
         \/ /\ UNCHANGED package /\ pc' = [pc EXCEPT ![r] = "done"]
            /\ ~Mine(r, "building")
  BY DEF Fail, At, Goto, Landed
<1>2. TypeOK
  BY ReviewTypes
<1>3. TypeOK'
  <2>1. pc' \in [Requests -> Places]
    BY <1>1, <1>2 DEF TypeOK, Places, Building
  <2>2. package' \in [status : {"none", "building", "ready", "failed"}, token : Requests \union {None}]
    BY <1>1, <1>2 DEF TypeOK, Mine
  <2> QED
    BY <1>1, <1>2, <2>1, <2>2 DEF TypeOK, PackageOnly
<1>4. /\ Requested' /\ HistoryIsConsistent' /\ History'
      /\ phase = "up" /\ status' \in {"approved", "exported"}
      /\ status \in {"approved", "exported"}
  BY <1>1, <1>3, BuilderStep DEF Building
<1>5. Carried'
  BY <1>1, <1>2, <1>4 DEF IInv, Carried, TypeOK, Building, PackageOnly, Mine
<1>6. Packaged'
  BY <1>1, <1>2, <1>4 DEF IInv, Packaged, PackageIsWhole, TypeOK, Building, PackageOnly, Mine
<1>7. PackageIsWhole'
  BY <1>1, <1>2, <1>4, <1>6, NoneAssumption DEF IInv, PackageIsWhole, Packaged, NoPackage, Mine, TypeOK
<1> QED
  BY <1>4, <1>5, <1>6, <1>7 DEF IInv

\* A file is changed.
LEMMA CorruptIInv ==
    ASSUME IInv, NEW r \in Requests, Corrupt(r)
    PROVE  IInv'
<1> USE ReviewTypes DEF Corrupt, local
<1>1. TypeOK'
  BY DEF TypeOK, content
<1>2. HistoryIsConsistent' /\ History'
  BY <1>1, HistoryKept
<1>3. Requested' /\ Carried'
  BY DEF IInv, Requested, Carried, Holds, Audit, Exact, content
<1>4. Packaged' /\ PackageIsWhole'
  BY DEF IInv, Packaged, PackageIsWhole, Mine, NoPackage, TypeOK, content
<1> QED
  BY <1>2, <1>3, <1>4 DEF IInv

\* A crash, and the repair of the packages at the start that follows.
LEMMA CrashIInv ==
    ASSUME IInv, Crash \/ RecoverPackages
    PROVE  IInv'
<1> USE ReviewTypes DEF Crash, RecoverPackages, local
<1>1. TypeOK'
  BY DEF TypeOK, content, Places
<1>2. HistoryIsConsistent' /\ History'
  BY <1>1, HistoryKept
<1>3. Requested' /\ Carried'
  BY DEF IInv, Requested, Carried, content, Regenerating
<1>4. Packaged' /\ PackageIsWhole'
  <2>1. CASE Crash
    BY <2>1 DEF IInv, Packaged, PackageIsWhole, Mine, NoPackage, TypeOK, content, Building
  <2>2. CASE RecoverPackages
    <3>1. /\ package'.token = package.token /\ package'.status # "building"
          /\ package'.status = package.status \/ (package.status = "building" /\ package'.status = "failed")
          /\ package # NoPackage \/ package' = package
      BY <2>2 DEF TypeOK, NoPackage
    <3>2. \A q \in Requests : pc[q] \notin {"read_entries", "look", "reserve"} \union Building
      BY <2>2 DEF IInv, Requested, Building
    <3> QED
      BY <2>2, <3>1, <3>2 DEF IInv, Packaged, PackageIsWhole, Mine, content, Building
  <2> QED
    BY <2>1, <2>2
<1> QED
  BY <1>2, <1>3, <1>4 DEF IInv

\* The repair of the regenerations: a draft has its open attempt, so that the
\* item is rejected again.
LEMMA RecoverIInv ==
    ASSUME IInv, RecoverRegenerations
    PROVE  IInv'
<1> DEFINE Repaired(x) == IF Stranded(x) THEN [x EXCEPT !.outcome = "failed"] ELSE x
<1>1. /\ phase = "packages" /\ phase' = "up"
      /\ reviews' = [i \in 1..Len(reviews) |-> Repaired(reviews[i])]
      /\ UNCHANGED <<current, revisions, package, file, pc, base, number, attempt, seen>>
      /\ status' = IF status = "draft" /\ \E i \in 1..Len(reviews) :
                        reviews'[i] = Row(current, "regenerate", "failed")
                   THEN "rejected" ELSE status
  BY DEF RecoverRegenerations, local
<1>2. ASSUME NEW i \in Ids
      PROVE  /\ Repaired(reviews[i]) \in RowType
             /\ Repaired(reviews[i]).rev = reviews[i].rev
             /\ Repaired(reviews[i]).decision = reviews[i].decision
             /\ \/ Repaired(reviews[i]).outcome = reviews[i].outcome
                \/ /\ reviews[i].decision = "regenerate" /\ reviews[i].outcome # "succeeded"
                   /\ Repaired(reviews[i]).outcome = "failed"
             /\ Stranded(reviews[i]) => Repaired(reviews[i]) = Row(current, "regenerate", "failed")
  BY <1>2, ReviewTypes DEF Stranded, RowType, Decisions, Outcomes, Row
<1>3. reviews' \in Seq(RowType) /\ Ids' = Ids /\ \A i \in Ids : reviews'[i] = Repaired(reviews[i])
  <2>1. reviews' \in [1..Len(reviews) -> RowType] /\ Len(reviews) \in Nat
    BY <1>1, <1>2, ReviewTypes DEF Ids
  <2>2. reviews' \in Seq(RowType)
    BY <2>1, SeqDef
  <2>3. Len(reviews') = Len(reviews)
    BY <2>1, <2>2, LenProperties
  <2> QED
    BY <1>1, <2>2, <2>3 DEF Ids
<1> HIDE DEF Repaired
<1>4. status = "draft" => status' = "rejected"
  <2> SUFFICES ASSUME status = "draft" PROVE status' = "rejected"
    OBVIOUS
  <2>1. PICK i \in Rows("regenerate", "pending") : reviews[i].rev = current
    BY DEF IInv, HistoryIsConsistent
  <2>2. i \in Ids /\ Stranded(reviews[i])
    BY <2>1 DEF Rows, Ids, Stranded
  <2> QED
    BY <1>1, <1>2, <1>3, <2>2 DEF Ids
<1>5. status # "draft" => status' = status
  BY <1>1
<1>6. TypeOK'
  BY <1>1, <1>3, <1>4, <1>5, ReviewTypes DEF TypeOK, RowType, Decisions, Outcomes
<1>7. HistoryIsConsistent' /\ History'
  BY <1>1, <1>2, <1>3, <1>4, <1>5, <1>6, HistoryMoves
<1>8. Requested' /\ Carried'
  BY <1>1, <1>4, <1>5 DEF IInv, Requested, Carried, Packaged, Regenerating
<1>9. Packaged' /\ PackageIsWhole'
  BY <1>1, <1>4, <1>5 DEF IInv, Requested, Packaged, PackageIsWhole, Mine, NoPackage, Building
<1> QED
  BY <1>7, <1>8, <1>9 DEF IInv

\* A step that changes nothing.
LEMMA StutterIInv == IInv /\ UNCHANGED vars => IInv'
<1> SUFFICES ASSUME IInv, UNCHANGED vars PROVE IInv'
  OBVIOUS
<1> USE DEF vars, local
<1>1. TypeOK'
  BY ReviewTypes DEF TypeOK, content
<1>2. HistoryIsConsistent' /\ History'
  BY <1>1, HistoryKept
<1>3. Requested' /\ Carried' /\ Packaged' /\ PackageIsWhole'
  BY DEF IInv, Requested, Carried, Holds, Audit, Exact, Packaged, PackageIsWhole, Mine, content
<1> QED
  BY <1>2, <1>3 DEF IInv

\* Every step preserves the invariant.
LEMMA NextIInv == IInv /\ [Next]_vars => IInv'
<1> SUFFICES ASSUME IInv, [Next]_vars PROVE IInv'
  OBVIOUS
<1>1. ASSUME NEW r \in Requests, Regenerate(r) PROVE IInv'
  BY <1>1, ReserveIInv, ReadIInv, CommitIInv, RestoreIInv, NormalizeIInv DEF Regenerate
<1>2. ASSUME NEW r \in Requests, ExportPackage(r) PROVE IInv'
  BY <1>2, ExportIInv, LookIInv, ReadIInv, ReservePackageIInv, WriteIInv, FinalizeIInv, FailIInv
     DEF ExportPackage
<1> QED
  BY <1>1, <1>2, CreateIInv, ReviewIInv, CorruptIInv, CrashIInv, RecoverIInv, StutterIInv DEF Next
-----------------------------------------------------------------------------
\* The invariant holds in every reachable state: what the rows of an item say of
\* each other, and what each request may assume of them at each of its places.
THEOREM ContentInductive == Spec => []IInv
BY InitIInv, NextIInv, PTL DEF Spec

\* The newest revision is current, each earlier one was rejected and regenerated
\* exactly once, and every decision and open draft is on record.
THEOREM HistoryAlwaysConsistent == Spec => []HistoryIsConsistent
<1>1. IInv => HistoryIsConsistent
  BY DEF IInv
<1> QED
  BY <1>1, ContentInductive, PTL

\* While the process serves, a draft and a package under construction are in the
\* hands of a request, or one has ended with an error that says so.
THEOREM ReservationsAlwaysCarried == Spec => []ReservationsAreCarried
<1>1. IInv => ReservationsAreCarried
  BY DEF IInv, Carried, Holds, ReservationsAreCarried
<1> QED
  BY <1>1, ContentInductive, PTL

\* One request at a time builds, and a ready package has its file, its builder and
\* its exported item.
THEOREM PackageAlwaysWhole == Spec => []PackageIsWhole
<1>1. IInv => PackageIsWhole
  BY DEF IInv
<1> QED
  BY <1>1, ContentInductive, PTL

\* An approved item keeps its revision and stays approved or exported, and a ready
\* package is never failed, whatever regeneration or build ends late.
THEOREM NothingIsEverTakenBack == Spec => NothingIsTakenBack
<1> DEFINE Approved == status \in {"approved", "exported"}
           ItemStays == Approved => Approved' /\ current' = current
           Stays     == ItemStays /\ (package.status = "ready" => package'.status # "failed")
<1>1. ASSUME IInv, Next PROVE Stays
  <2>1. ASSUME NEW r \in Requests, Regenerate(r) PROVE Stays
    <3>1. UNCHANGED package
      BY <2>1 DEF Regenerate, Reserve, Resolve, Generate, Check, Commit, CommitFails, Restore,
         Unproven, Normalize, Rejected, RequestOnly, ContentOnly
    <3>2. CASE Commit(r)
      <4>1. ~Approved
        BY <1>1, <3>2, WinnerIsRejected DEF Commit, At
      <4> QED
        BY <3>1, <4>1
    <3>3. CASE ~Commit(r)
      <4>1. ItemStays
        BY <2>1, <3>3 DEF Regenerate, Reserve, Regenerable, Resolve, Generate, Check, CommitFails,
           Restore, Unproven, Normalize, Rejected, ItemIs, RequestOnly, content
      <4> QED
        BY <3>1, <4>1
    <3> QED
      BY <3>2, <3>3
  <2>2. ASSUME NEW r \in Requests, ExportPackage(r) PROVE Stays
    <3>1. ItemStays
      BY <2>2 DEF ExportPackage, Export, ReadEntries, Look, ReservePackage, ResolvePackage, Write,
         Finalize, FinalizeFails, Prove, Fail, ExportStep, PackageOnly, content
    <3>2. CASE Fail(r)
      BY <3>1, <3>2 DEF Fail, Mine
    <3>3. CASE ~Fail(r)
      BY <2>2, <3>1, <3>3 DEF ExportPackage, Export, ReadEntries, Look, ReservePackage,
         ResolvePackage, Write, Finalize, FinalizeFails, Prove, ExportStep
    <3> QED
      BY <3>2, <3>3
  <2>3. CASE \/ Create \/ Crash \/ RecoverPackages \/ RecoverRegenerations
             \/ \E rev \in 1..revisions, d \in {"approve", "reject"} : Review(rev, d)
             \/ \E r \in Requests : Corrupt(r)
    BY <2>3 DEF Create, Crash, RecoverPackages, RecoverRegenerations, Review, Corrupt, content
  <2> QED
    BY <1>1, <2>1, <2>2, <2>3 DEF Next
<1>2. IInv /\ [Next]_vars =>
          [/\ status \in {"approved", "exported"} =>
                 status' \in {"approved", "exported"} /\ current' = current
           /\ package.status = "ready" => package'.status # "failed"]_vars
  BY <1>1
<1> QED
  BY <1>2, ContentInductive, PTL DEF Spec, NothingIsTakenBack
=============================================================================
