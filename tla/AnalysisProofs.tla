--------------------------- MODULE AnalysisProofs ---------------------------
(***************************************************************************)
(* Theorems about AnalysisRuns, for any number of requests and reviewers,  *)
(* any evidence and any answers of the model.                              *)
(*                                                                         *)
(* The files an analysis rests on are read one after the other and can be  *)
(* replaced at any time, yet they all stood at one moment.  Identities of  *)
(* files only grow, so one that is the same when it is read and when it is *)
(* compared was the same in between (Between): in particular when the row  *)
(* was flushed.  A journal cannot be opened while the request holds the    *)
(* write reservation (Read).                                               *)
(***************************************************************************)
EXTENDS AnalysisRuns, FiniteSetTheorems, SequenceTheorems, TLAPS

Statuses == {"none", "succeeded", "failed", "needs_human"}
FactType == [id : Evidence, trusted : BOOLEAN, ident : Nat]
RowType  == [status : Statuses, sealed : Seq(FactType)]
Moment   == [ident : Nat, open : BOOLEAN]
Places   == {"idle", "resolve", "model", "persist", "reserve", "reread", "compare",
             "again", "commit", "probe", "done"}
Holding  == {"reread", "compare", "commit"}
CallType == [at : Places, req : Requests, seen : Seq(FactType), now : Seq(FactType),
             output : Outputs \union {NoCard}, staged : RowType,
             flushed : Seq(Moment), left : Nat, answer : Answers]
ReviewType == [at : {"idle", "resolve", "decide", "done"}, of : Call \union {Nobody},
               decision : {"none", "approved", "rejected"}, seen : Seq(FactType),
               answer : {Unanswered, "recorded", "conflict", "error"}]
Reviews  == {"pending_review", "approved", "rejected"}

Levels   == {"validated_candidate", "warming_candidate"}

\* A card is made of the answer of a model.
IsCard(k) ==
    \E o \in Outputs, v \in Reviews, l \in Levels :
        /\ o.card # NoCard
        /\ k = [review |-> v, level |-> l, shops |-> o.card.shops, notes |-> o.card.notes]

Shapes ==
    /\ \A s \in Shop : result[s] \in Results[s]
    /\ file \in [Bound -> [ident : Nat, intact : BOOLEAN]]
    /\ \A e \in Bound : file[e].ident <= writes
    /\ writes \in 0..MaxWrites
    /\ beside \in [Shop -> SUBSET Sides]
    /\ journal \in [Note -> {"committed", "claimed", "inconsistent"}]
    /\ call \in [Call -> CallType]
    /\ row \in [Call -> RowType]
    /\ card = [c \in Call |-> card[c]]
    /\ \A c \in Call : card[c] = NoCard \/ IsCard(card[c])
    /\ review \in [Reviewer -> ReviewType]
    /\ writer \in Call \union {Nobody}

\* Readings never claim an identity no write has given.
Known(facts) == \A i \in DOMAIN facts : facts[i].ident <= MaxWrites

\* A trusted shop is of one of the modes that a job can have asked for.
Vouched(facts, says) ==
    \A i \in DOMAIN facts :
        facts[i].id \in Shop /\ facts[i].trusted => TrustedMode(says[facts[i].id])

\* What a request at each place has written and read.
Staged(c) ==
    /\ (call[c].answer # Unanswered) <=> At(c, "done")
    /\ writer = c <=> call[c].at \in Holding
    /\ call[c].at \in {"idle", "resolve", "model", "reserve", "reread"} =>
          call[c].staged = NoRow
    /\ At(c, "persist") => call[c].staged.status \in {"needs_human", "failed"}
    /\ At(c, "commit")  => call[c].staged.status \in {"needs_human", "succeeded"}
    /\ call[c].at \in {"compare", "probe"} => call[c].staged.status = "succeeded"
    /\ call[c].at \notin {"probe", "done"} => row[c] = NoRow /\ card[c] = NoCard
    /\ At(c, "probe") => row[c] \in {NoRow, call[c].staged} /\ call[c].left > 0

Counted(c) ==
    /\ Known(call[c].seen) /\ Known(call[c].now)
    /\ Vouched(call[c].seen, result)
    /\ At(c, "idle") => call[c].seen = << >>
    /\ call[c].at \in {"idle", "resolve", "model", "persist", "reserve"} =>
          call[c].now = << >>
    /\ Len(call[c].seen) <= Len(Ask(c))
    /\ At(c, "reread") => Len(call[c].now) <= Len(Ask(c))

\* What the request has read under its reservation still bounds what is there.
Read(c, i) ==
    LET fact == call[c].now[i]
    IN  /\ fact.id = Ask(c)[i]
        /\ fact.id \in Note => journal[fact.id] = "committed"
        /\ IF fact.id \in Bound /\ fact.trusted
           THEN fact.ident <= file[fact.id].ident ELSE fact.ident = 0

\* At the moment of the flush the file was between what was read and what is there.
Between(c, i) ==
    LET fact == call[c].now[i] then == call[c].flushed[i]
    IN  /\ ~then.open
        /\ IF fact.id \in Bound /\ fact.trusted
           THEN fact.ident <= then.ident /\ then.ident <= file[fact.id].ident
           ELSE fact.ident = then.ident
        /\ i <= Len(Ask(c)) - call[c].left => fact.ident = then.ident

\* The row x of a success is sealed over evidence that stood.
Sealed(c, x) ==
    /\ x.sealed = call[c].seen
    /\ \A i \in DOMAIN x.sealed : /\ x.sealed[i].ident = call[c].flushed[i].ident
                                  /\ ~call[c].flushed[i].open

Sealing(c) ==
    /\ At(c, "reread") => \A i \in DOMAIN call[c].now : Read(c, i)
    /\ At(c, "compare") =>
          /\ Len(call[c].now) = Len(Ask(c)) /\ call[c].left <= Len(Ask(c))
          /\ Len(call[c].flushed) = Len(Ask(c))
          /\ call[c].now = call[c].seen /\ call[c].staged.sealed = call[c].now
          /\ \A i \in DOMAIN call[c].now : Between(c, i)
    /\ call[c].at \in {"commit", "probe"} /\ call[c].staged.status = "succeeded" =>
          Sealed(c, call[c].staged)
    /\ row[c].status = "succeeded" => Sealed(c, row[c])

\* A card over the accounts of a scope rests on what the shops and notes say.
Solid(x) == /\ x.verified /\ x.distinct = x.expected
            /\ \/ x.mode = "full_shop" /\ x.pictured
               \/ x.mode = "evidence_sample" /\ (x.expected < 3 => x.ended)

Rests(shops, notes, scope, ids, says) ==
    /\ DOMAIN shops = scope /\ Cardinality(scope) >= 2
    /\ \A a \in scope :
         /\ \E e \in notes[a] : Owner[e] = a
         /\ shops[a] # {}
         /\ \A e \in shops[a] : Owner[e] = a /\ e \in ids /\ Solid(says[e])

\* The answer a request keeps rests on what it was shown.
Accepted(c) ==
    call[c].at \in {"reserve", "reread", "compare", "again", "commit", "probe"} =>
        /\ call[c].output \in Outputs
        /\ call[c].output.card # NoCard =>
              Rests(call[c].output.card.shops, call[c].output.card.notes, Req(c).scope,
                    Ids(call[c].seen), result)

Told(c) ==
    /\ call[c].answer \in {"succeeded", "failed", "needs_human"} =>
         row[c].status = call[c].answer
    /\ call[c].answer \in {"refused", "rolled_back"} => row[c] = NoRow

Backed(c) ==
    card[c] # NoCard =>
        /\ row[c].status = "succeeded"
        /\ Rests(card[c].shops, card[c].notes, Req(c).scope, Ids(row[c].sealed), result)
        /\ (card[c].level = "validated_candidate") = (Cardinality(Req(c).scope) > 2)

Honest(c) == Staged(c) /\ Counted(c) /\ Sealing(c) /\ Accepted(c) /\ Told(c) /\ Backed(c)

\* A review is of a card that exists, and the decision it recorded is there.
Reviewing(r) ==
    /\ Known(review[r].seen)
    /\ review[r].at # "idle" =>
         /\ Of(r) \in Call /\ review[r].decision \in {"approved", "rejected"}
         /\ IsCard(card[Of(r)]) /\ row[Of(r)].status = "succeeded"
         /\ Len(review[r].seen) <= Len(Ask(Of(r)))
    /\ review[r].at = "idle" => review[r].seen = << >>
    /\ review[r].answer = "recorded" => review[r].at = "done"
    /\ review[r].answer = "recorded" => card[Of(r)].review = review[r].decision

IInv == /\ Shapes
        /\ \A c \in Call : Honest(c)
        /\ \A r \in Reviewer : Reviewing(r)
-----------------------------------------------------------------------------
(***************************************************************************)
(* Readings                                                                *)
(***************************************************************************)
LEMMA ResolvedType ==
    ASSUME Shapes, NEW e \in Evidence
    PROVE  /\ Resolved(e) \in FactType /\ Resolved(e).ident <= MaxWrites
           /\ Resolved(e).id = e
           /\ e \in Shop /\ Resolved(e).trusted => TrustedMode(result[e])
           /\ IF e \in Bound /\ Resolved(e).trusted
              THEN Resolved(e).ident = file[e].ident ELSE Resolved(e).ident = 0
<1>1. Trusted(e) \in BOOLEAN /\ (e \in Shop /\ Trusted(e) => TrustedMode(result[e]))
  BY DEF Trusted, TrustedShop
<1>2. e \in Bound => file[e].ident \in Nat /\ file[e].ident <= MaxWrites
  BY BoundsAssumption, SMT DEF Shapes
<1>. QED
  BY <1>1, <1>2, BoundsAssumption, SMT DEF Resolved, FactType

\* Reading the next piece of evidence keeps what is known of those before.
LEMMA AppendKnown ==
    ASSUME NEW facts \in Seq(FactType), Known(facts), NEW x \in FactType,
           x.ident <= MaxWrites
    PROVE  /\ Append(facts, x) \in Seq(FactType) /\ Known(Append(facts, x))
BY SMT DEF Known

LEMMA AppendVouched ==
    ASSUME NEW facts \in Seq(FactType), NEW x \in FactType, NEW says, Vouched(facts, says),
           x.id \in Shop /\ x.trusted => TrustedMode(says[x.id])
    PROVE  Vouched(Append(facts, x), says)
<1>1. \A i \in DOMAIN Append(facts, x) :
         Append(facts, x)[i] = x \/ (i \in DOMAIN facts /\ Append(facts, x)[i] = facts[i])
  BY SMT
<1>. QED
  BY <1>1 DEF Vouched

LEMMA CardProperties ==
    ASSUME NEW k, IsCard(k)
    PROVE  /\ k # NoCard /\ k.review \in Reviews
           /\ \A d \in Reviews : /\ IsCard([k EXCEPT !.review = d])
                                 /\ [k EXCEPT !.review = d].review = d
                                 /\ [k EXCEPT !.review = d].shops = k.shops
                                 /\ [k EXCEPT !.review = d].notes = k.notes
                                 /\ [k EXCEPT !.review = d].level = k.level
<1>1. PICK o \in Outputs, v \in Reviews, l \in Levels :
         /\ o.card # NoCard
         /\ k = [review |-> v, level |-> l, shops |-> o.card.shops, notes |-> o.card.notes]
  BY DEF IsCard
<1>2. k # NoCard /\ k.review \in Reviews
  BY <1>1, OutputsAssumption DEF Reviews, Levels
<1>3. ASSUME NEW d \in Reviews
      PROVE  [k EXCEPT !.review = d] = [review |-> d, level |-> l, shops |-> o.card.shops,
                                        notes |-> o.card.notes]
  BY <1>1
<1>4. ASSUME NEW d \in Reviews
      PROVE  IsCard([k EXCEPT !.review = d])
  BY <1>1, <1>3 DEF IsCard
<1>. QED
  BY <1>1, <1>2, <1>3, <1>4

(***************************************************************************)
(* What a step leaves alone                                                *)
(***************************************************************************)
\* A request stays honest while others act: identities of files grow, and no
\* journal is opened unless nobody holds the write reservation.
LEMMA Undisturbed ==
    ASSUME Shapes, Shapes', NEW c \in Call, Honest(c),
           call'[c] = call[c], row'[c] = row[c], card'[c] = card[c],
           (writer' = c) <=> (writer = c), result' = result,
           \A e \in Bound : file[e].ident <= file'[e].ident,
           \A n \in Note : journal[n] = "committed" /\ writer # Nobody =>
                            journal'[n] = "committed"
    PROVE  Honest(c)'
<1>1. Staged(c)'
  BY DEF Honest, Staged, At
<1>2. Counted(c)'
  BY DEF Honest, Counted, At, Known, Req, Ask
<1>3. ASSUME At(c, "reread"), NEW i \in DOMAIN call[c].now
      PROVE  Read(c, i)'
  <2>1. writer # Nobody
    BY <1>3, EvidenceAssumption DEF Honest, Staged, At, Holding, Nobody
  <2>2. Read(c, i) /\ call[c].now[i] \in FactType
    BY <1>3 DEF Honest, Sealing, Shapes, CallType
  <2>. QED
    BY <2>1, <2>2, SMT DEF Read, Shapes, FactType, Ask, Req
<1>4. ASSUME At(c, "compare"), NEW i \in DOMAIN call[c].now
      PROVE  Between(c, i)'
  <2>1. /\ Between(c, i) /\ call[c].now[i] \in FactType
        /\ Len(call[c].now) = Len(call[c].flushed)
    BY <1>4 DEF Honest, Sealing, Shapes, CallType
  <2>2. call[c].flushed[i] \in Moment
    BY <2>1 DEF Shapes, CallType
  <2>. QED
    BY <2>1, <2>2, SMT DEF Between, Shapes, FactType, Moment, Ask, Req
<1>5. Sealing(c)'
  BY <1>3, <1>4 DEF Honest, Sealing, Sealed, At, Ask, Req
<1>6. Accepted(c)' /\ Told(c)' /\ Backed(c)'
  BY DEF Honest, Accepted, Told, Backed, Req
<1>. QED
  BY <1>1, <1>2, <1>5, <1>6 DEF Honest

\* A review goes on, or is over, while others act: the row of its card is final,
\* and a decision is not replaced.
LEMMA Unreviewed ==
    ASSUME NEW r \in Reviewer, Reviewing(r), review'[r] = review[r],
           \A c \in Call : row[c].status = "succeeded" =>
              /\ row'[c] = row[c] /\ Req(c)' = Req(c)
              /\ IsCard(card[c]) =>
                    /\ IsCard(card'[c])
                    /\ card[c].review # "pending_review" => card'[c].review = card[c].review
    PROVE  Reviewing(r)'
<1>1. Known(review'[r].seen)
  BY DEF Reviewing
<1>2. ASSUME review[r].at # "idle"
      PROVE  /\ IsCard(card'[Of(r)]) /\ row'[Of(r)].status = "succeeded"
             /\ Len(review[r].seen) <= Len(Ask(Of(r)))'
             /\ card[Of(r)].review # "pending_review" =>
                   card'[Of(r)].review = card[Of(r)].review
  BY <1>2 DEF Reviewing, Of, Ask
<1>3. review[r].answer = "recorded" => card'[Of(r)].review = review[r].decision
  BY <1>2 DEF Reviewing
<1>. QED
  BY <1>1, <1>2, <1>3 DEF Reviewing, Of, Ask

\* The step of a request changes its own columns, and perhaps who holds the
\* write reservation.
Own(c) ==
    /\ call' = [call EXCEPT ![c] = call'[c]]
    /\ row'  = [row EXCEPT ![c] = row'[c]]
    /\ card' = [card EXCEPT ![c] = card'[c]]
    /\ writer' \in {writer, c, Nobody} /\ (writer' # writer => writer \in {c, Nobody})
    /\ UNCHANGED <<world, review>>
    /\ call'[c] \in CallType /\ row'[c] \in RowType
    /\ card'[c] = NoCard \/ IsCard(card'[c])
    /\ row[c].status = "succeeded" =>
          row'[c] = row[c] /\ card'[c] = card[c] /\ Req(c)' = Req(c)

LEMMA OwnStep ==
    ASSUME IInv, NEW c \in Call, Own(c), Honest(c)'
    PROVE  IInv'
<1>1. Shapes'
  BY DEF IInv, Shapes, Own, world, evidence
<1>2. ASSUME NEW d \in Call, d # c
      PROVE  Honest(d)'
  <2>1. call'[d] = call[d] /\ row'[d] = row[d] /\ card'[d] = card[d]
    BY <1>2 DEF Own, IInv, Shapes
  <2>2. (writer' = d) <=> (writer = d)
    BY <1>2, EvidenceAssumption DEF Own, Nobody
  <2>3. \A e \in Bound : file[e].ident <= file'[e].ident
    BY SMT DEF Own, world, evidence, IInv, Shapes
  <2>. QED
    BY <1>1, <2>1, <2>2, <2>3, Undisturbed DEF IInv, Own, world, evidence
<1>3. ASSUME NEW r \in Reviewer
      PROVE  Reviewing(r)'
  <2>1. \A d \in Call : row[d].status = "succeeded" =>
           row'[d] = row[d] /\ Req(d)' = Req(d) /\ card'[d] = card[d]
    BY DEF Own, IInv, Shapes, Req
  <2>. QED
    BY <2>1, Unreviewed DEF IInv, Own
<1>. QED
  BY <1>1, <1>2, <1>3 DEF IInv

-----------------------------------------------------------------------------
(***************************************************************************)
(* The steps of a request                                                  *)
(***************************************************************************)
LEMMA CallTyped ==
    ASSUME IInv, NEW c \in Call
    PROVE  /\ call[c] \in CallType /\ row[c] \in RowType
           /\ call[c].seen \in Seq(FactType) /\ call[c].now \in Seq(FactType)
           /\ Ask(c) \in Seq(Evidence) /\ IsFiniteSet(Req(c).scope)
           /\ card[c] = NoCard \/ IsCard(card[c])
           /\ NoRow \in RowType /\ NoRow.status = "none"
BY EvidenceAssumption, SMT DEF IInv, Shapes, CallType, RowType, Statuses, NoRow, Ask, Req

LEMMA BeginStep ==
    ASSUME IInv, NEW c \in Call, Begin(c)
    PROVE  IInv'
<1>. USE CallTyped DEF Begin, At, NoWorld, NoFault, NoReview, Req, Ask
<1>1. PICK req \in Requests :
         call' = [call EXCEPT ![c].at = "resolve", ![c].req = req]
  OBVIOUS
<1>2. call'[c] = [call[c] EXCEPT !.at = "resolve", !.req = req]
  BY <1>1 DEF IInv, Shapes
<1>3. call'[c] \in CallType
  BY <1>2 DEF CallType, Places
<1>4. row'[c] = NoRow /\ card'[c] = NoCard /\ call[c].seen = << >> /\ call[c].now = << >>
  BY DEF IInv, Honest, Staged, Counted
<1>5. Own(c)
  BY <1>1, <1>3, <1>4 DEF Own, IInv, Shapes
<1>6. Staged(c)'
  <2>1. call[c].answer = Unanswered /\ call[c].staged = NoRow /\ writer' # c
    BY DEF IInv, Honest, Staged, Holding
  <2>2. /\ call'[c].at = "resolve" /\ call'[c].answer = call[c].answer
        /\ call'[c].staged = call[c].staged
    BY <1>2 DEF CallType
  <2>. QED
    BY <1>4, <2>1, <2>2 DEF Staged, Holding
<1>7. Counted(c)'
  <2>1. req.ids \in Seq(Evidence) /\ Len(<< >>) <= Len(req.ids)
    BY EvidenceAssumption
  <2>2. Known(<< >>) /\ Vouched(<< >>, result')
    BY DEF Known, Vouched
  <2>3. /\ call'[c].at = "resolve" /\ call'[c].req = req
        /\ call'[c].seen = << >> /\ call'[c].now = << >>
    BY <1>2, <1>4 DEF CallType
  <2>. QED
    BY <2>1, <2>2, <2>3 DEF Counted
<1>8. Sealing(c)' /\ Accepted(c)' /\ Told(c)' /\ Backed(c)'
  BY <1>2, <1>3, <1>4 DEF IInv, Honest, Staged, Sealing, Accepted, Told, Backed, CallType
<1>. QED
  BY <1>5, <1>6, <1>7, <1>8, OwnStep DEF Honest

LEMMA ResolveStep ==
    ASSUME IInv, NEW c \in Call, Resolve(c)
    PROVE  IInv'
<1>. USE CallTyped DEF Resolve, At, NoWorld, NoFault, NoReview
<1>. DEFINE e == Next1(call[c].seen, c)
<1>1. e \in Evidence
  BY DEF Next1
<1>2. /\ Resolved(e) \in FactType /\ Resolved(e).ident <= MaxWrites /\ Resolved(e).id = e
      /\ e \in Shop /\ Resolved(e).trusted => TrustedMode(result[e])
  BY <1>1, ResolvedType DEF IInv
<1>3. row'[c] = NoRow /\ card'[c] = NoCard /\ call[c].now = << >>
  BY DEF IInv, Honest, Staged, Counted
<1>4. CASE Refused(e, Req(c).scope)
  <2>1. call'[c] = [call[c] EXCEPT !.at = "done", !.answer = "refused"]
    BY <1>4 DEF Answer, IInv, Shapes
  <2>2. call'[c] \in CallType
    BY <2>1 DEF CallType, Places, Answers
  <2>3. Own(c)
    BY <1>3, <1>4, <2>2 DEF Own, IInv, Shapes, Answer
  <2>4. Staged(c)' /\ Counted(c)'
    BY <1>3, <2>1, <2>2 DEF IInv, Honest, Staged, Counted, Holding, CallType, Unanswered,
       Ask, Req, world, evidence
  <2>5. Sealing(c)' /\ Accepted(c)' /\ Told(c)' /\ Backed(c)'
    BY <1>3, <2>1, <2>2 DEF Sealing, Accepted, Told, Backed, CallType
  <2>. QED
    BY <2>3, <2>4, <2>5, OwnStep DEF Honest
<1>5. CASE ~Refused(e, Req(c).scope)
  <2>1. call'[c] = [call[c] EXCEPT !.seen = Append(@, Resolved(e))]
    BY <1>5 DEF IInv, Shapes
  <2>2. /\ Append(call[c].seen, Resolved(e)) \in Seq(FactType)
        /\ Known(Append(call[c].seen, Resolved(e)))
        /\ Len(Append(call[c].seen, Resolved(e))) <= Len(Ask(c))
        /\ Vouched(Append(call[c].seen, Resolved(e)), result)
    BY <1>2, AppendKnown, AppendVouched DEF IInv, Honest, Counted
  <2>3. call'[c] \in CallType
    BY <2>1, <2>2 DEF CallType
  <2>4. Own(c)
    BY <1>3, <1>5, <2>3 DEF Own, IInv, Shapes
  <2>5. Staged(c)' /\ Counted(c)'
    BY <1>3, <2>1, <2>2, <2>3 DEF IInv, Honest, Staged, Counted, Holding, CallType, Ask, Req,
       world, evidence
  <2>6. Sealing(c)' /\ Accepted(c)' /\ Told(c)' /\ Backed(c)'
    BY <1>3, <2>1, <2>3 DEF IInv, Honest, Staged, Sealing, Accepted, Told, Backed, CallType
  <2>. QED
    BY <2>4, <2>5, <2>6, OwnStep DEF Honest
<1>. QED
  BY <1>4, <1>5

LEMMA ScreenStep ==
    ASSUME IInv, NEW c \in Call, Screen(c)
    PROVE  IInv'
<1>. USE CallTyped DEF Screen, At, NoWorld, NoFault, NoReview
<1>1. row'[c] = NoRow /\ card'[c] = NoCard /\ call[c].now = << >> /\ call[c].staged = NoRow
  BY DEF IInv, Honest, Staged, Counted
<1>2. \/ call'[c] = [call[c] EXCEPT !.at = "model"]
      \/ call'[c] = [call[c] EXCEPT !.at = "persist", !.staged.status = "needs_human"]
  BY DEF Go, IInv, Shapes
<1>3. call'[c] \in CallType
  <2>1. [call[c].staged EXCEPT !.status = "needs_human"] \in RowType
    BY DEF CallType, RowType, Statuses
  <2>. QED
    BY <1>2, <2>1 DEF CallType, Places
<1>4. Own(c)
  BY <1>1, <1>3 DEF Own, IInv, Shapes, Go
<1>5. At(c, "persist")' => call'[c].staged.status = "needs_human"
  BY <1>1, <1>2 DEF CallType, NoRow
<1>6. Staged(c)' /\ Counted(c)'
  <2>1. /\ call[c].answer = Unanswered /\ writer' # c /\ Counted(c) /\ result' = result
    BY DEF IInv, Honest, Staged, Holding, world, evidence
  <2>2. /\ call'[c].at \in {"model", "persist"} /\ call'[c].answer = call[c].answer
        /\ call'[c].seen = call[c].seen /\ call'[c].now = call[c].now
        /\ call'[c].req = call[c].req
        /\ call'[c].at = "model" => call'[c].staged = call[c].staged
    BY <1>2 DEF CallType
  <2>3. Staged(c)'
    BY <1>1, <1>5, <2>1, <2>2 DEF Staged, Holding
  <2>4. Counted(c)'
    BY <1>1, <2>1, <2>2 DEF Counted, Ask, Req
  <2>. QED
    BY <2>3, <2>4
<1>7. Sealing(c)' /\ Accepted(c)' /\ Told(c)' /\ Backed(c)'
  BY <1>1, <1>2, <1>3 DEF IInv, Honest, Staged, Sealing, Accepted, Told, Backed, CallType
<1>. QED
  BY <1>4, <1>6, <1>7, OwnStep DEF Honest

\* What the checks of an answer say of its card.
LEMMA AcceptableRests ==
    ASSUME NEW o \in Outputs, NEW req \in Requests, NEW facts, Acceptable(o, req, facts),
           Vouched(facts, result), o.card # NoCard
    PROVE  Rests(o.card.shops, o.card.notes, req.scope, Ids(facts), result)
<1>. DEFINE k == o.card
<1>1. /\ Cardinality(req.scope) >= 2 /\ DOMAIN k.shops = req.scope
      /\ \A a \in req.scope : Supports(k, a)
      /\ Eligible(facts, req.scope) /\ Grounded(o, Ids(facts))
  BY DEF Acceptable, Projectable
<1>2. k.cites \subseteq Ids(facts)
  BY <1>1 DEF Grounded
<1>3. ASSUME NEW a \in req.scope, NEW e \in k.shops[a]
      PROVE  Owner[e] = a /\ e \in Ids(facts) /\ Solid(result[e])
  <2>1. e \in Shop /\ Owner[e] = a /\ Pictured(result[e]) /\ e \in Ids(facts)
    BY <1>1, <1>2 DEF Supports
  <2>2. PICK i \in DOMAIN facts : facts[i].id = e
    BY <2>1 DEF Ids
  <2>3. /\ facts[i].trusted /\ result[e].mode # "bounded_sample"
        /\ result[e].mode = "evidence_sample" => ExactEvidence(result[e])
        /\ Complete(result[e])
    BY <1>1, <2>1, <2>2 DEF Eligible, Shops
  <2>4. result[e].mode \in {"full_shop", "evidence_sample"}
    BY <2>1, <2>2, <2>3 DEF Vouched, TrustedMode, ExactBounded, ExactEvidence, ExactSample
  <2>5. Solid(result[e])
    BY <2>1, <2>3, <2>4, SMT DEF Complete, Pictured, Solid, ExactEvidence, ExactSample
  <2>. QED
    BY <2>1, <2>5
<1>4. ASSUME NEW a \in req.scope
      PROVE  k.shops[a] # {} /\ \E e \in k.notes[a] : Owner[e] = a
  BY <1>1, <1>4, OutputsAssumption DEF Supports
<1>. QED
  BY <1>1, <1>3, <1>4 DEF Rests

LEMMA AskModelStep ==
    ASSUME IInv, NEW c \in Call, AskModel(c)
    PROVE  IInv'
<1>. USE CallTyped DEF At
<1>0. UNCHANGED <<row, card, world, review, writer>> /\ call[c].at = "model"
  BY DEF AskModel, NoWorld, NoReview
<1>1. /\ row'[c] = NoRow /\ card'[c] = NoCard /\ call[c].now = << >> /\ call[c].staged = NoRow
      /\ result' = result /\ writer' # c
  BY <1>0 DEF IInv, Honest, Staged, Counted, Holding, world, evidence
<1>2. CASE call' = [call EXCEPT ![c].at = "persist", ![c].staged.status = "failed"]
  <2>1. call'[c] = [call[c] EXCEPT !.at = "persist", !.staged.status = "failed"]
    BY <1>2 DEF IInv, Shapes
  <2>2. [call[c].staged EXCEPT !.status = "failed"] \in RowType
    BY DEF CallType, RowType, Statuses
  <2>3. call'[c] \in CallType
    BY <2>1, <2>2 DEF CallType, Places
  <2>4. Own(c)
    <3>1. /\ call' = [call EXCEPT ![c] = call'[c]] /\ row' = [row EXCEPT ![c] = row'[c]]
          /\ card' = [card EXCEPT ![c] = card'[c]]
      BY <1>0, <1>2, ZenonT(60) DEF IInv, Shapes
    <3>2. UNCHANGED <<world, review, writer>> /\ row[c] = NoRow
      BY <1>0, <1>1
    <3>. QED
      BY <1>1, <2>3, <3>1, <3>2 DEF Own
  <2>5. call'[c].at = "persist" /\ call'[c].staged.status = "failed"
    BY <2>1, <1>1 DEF CallType, NoRow
  <2>6. Staged(c)' /\ Counted(c)'
    BY <1>0, <1>1, <2>1, <2>3, <2>5
    DEF IInv, Honest, Staged, Counted, Holding, CallType, Ask, Req
  <2>7. Sealing(c)' /\ Accepted(c)' /\ Told(c)' /\ Backed(c)'
    BY <1>0, <1>1, <2>1, <2>3
    DEF IInv, Honest, Staged, Sealing, Accepted, Told, Backed, CallType
  <2>. QED
    BY <2>4, <2>6, <2>7, OwnStep DEF Honest
<1>3. ASSUME NEW o \in Outputs, Acceptable(o, Req(c), call[c].seen),
             call' = [call EXCEPT ![c].at = "reserve", ![c].output = o]
      PROVE  IInv'
  <2>1. call'[c] = [call[c] EXCEPT !.at = "reserve", !.output = o]
    BY <1>3 DEF IInv, Shapes
  <2>2. call'[c] \in CallType
    BY <2>1 DEF CallType, Places
  <2>3. Own(c)
    BY <1>0, <1>1, <1>3, <2>2 DEF Own, IInv, Shapes
  <2>4. Staged(c)' /\ Counted(c)'
    BY <1>0, <1>1, <2>1, <2>2 DEF IInv, Honest, Staged, Counted, Holding, CallType, Ask, Req
  <2>5. o.card # NoCard => Rests(o.card.shops, o.card.notes, Req(c).scope,
                                 Ids(call[c].seen), result)
    BY <1>3, AcceptableRests DEF IInv, Honest, Counted, CallType, Req
  <2>6. Accepted(c)'
    BY <1>1, <2>1, <2>5 DEF Accepted, Req, CallType
  <2>7. Sealing(c)' /\ Told(c)' /\ Backed(c)'
    BY <1>0, <1>1, <2>1, <2>2 DEF IInv, Honest, Staged, Sealing, Told, Backed, CallType
  <2>. QED
    BY <2>3, <2>4, <2>6, <2>7, OwnStep DEF Honest
<1>. QED
  BY <1>2, <1>3 DEF AskModel

LEMMA Ended ==
    ASSUME NEW x \in CallType, NEW a \in Answers
    PROVE  [x EXCEPT !.at = "done", !.answer = a] \in CallType
BY DEF CallType, Places

Ends(c, a) ==
    /\ call' = [call EXCEPT ![c].at = "done", ![c].answer = a]
    /\ UNCHANGED <<card, world, review>>
    /\ row' = [row EXCEPT ![c] = row'[c]] /\ row'[c] \in RowType
    /\ row'[c].status # "succeeded" \/ row'[c] = row[c]
    /\ row[c].status = "succeeded" => row'[c] = row[c]
    /\ writer' = IF writer = c THEN Nobody ELSE writer
    /\ a \in {"succeeded", "failed", "needs_human"} => row'[c].status = a
    /\ a \in {"refused", "rolled_back"} => row'[c] = NoRow

LEMMA EndStep ==
    ASSUME IInv, NEW c \in Call, NEW a \in Answers \ {Unanswered}, Ends(c, a)
    PROVE  IInv'
<1>0. call[c] \in CallType /\ (card[c] = NoCard \/ IsCard(card[c]))
  BY CallTyped
<1>1. call'[c] = [call[c] EXCEPT !.at = "done", !.answer = a]
  BY DEF Ends, IInv, Shapes
<1>2. call'[c] \in CallType
  BY <1>0, <1>1, Ended
<1>3. /\ call'[c].at = "done" /\ call'[c].answer = a /\ call'[c].seen = call[c].seen
      /\ call'[c].now = call[c].now /\ call'[c].req = call[c].req
      /\ call'[c].flushed = call[c].flushed
  BY <1>0, <1>1 DEF CallType
<1>4. result' = result
  BY DEF Ends, world, evidence
<1>5. Own(c)
  <2>1. call' = [call EXCEPT ![c] = call'[c]] /\ card' = [card EXCEPT ![c] = card'[c]]
    BY DEF Ends, IInv, Shapes
  <2>2. writer' \in {writer, c, Nobody} /\ (writer' # writer => writer \in {c, Nobody})
    BY DEF Ends
  <2>. QED
    BY <1>0, <1>2, <1>3, <2>1, <2>2 DEF Own, Ends, Req
<1>6. Staged(c)' /\ Counted(c)'
  <2>1. writer' # c
    BY EvidenceAssumption DEF Ends, Nobody
  <2>2. Staged(c)'
    BY <1>3, <2>1 DEF Ends, Staged, At, Holding
  <2>3. Counted(c)'
    BY <1>3, <1>4 DEF IInv, Honest, Counted, At, Ask, Req
  <2>. QED
    BY <2>2, <2>3
<1>7. Sealing(c)'
  <2>1. row'[c].status = "succeeded" => row'[c] = row[c]
    BY DEF Ends
  <2>. QED
    BY <1>3, <2>1 DEF IInv, Honest, Sealing, Sealed, At
<1>9. Accepted(c)' /\ Told(c)'
  BY <1>3 DEF Accepted, Told, Ends
<1>8. Backed(c)'
  BY <1>3, <1>4 DEF IInv, Honest, Backed, Req, Ends
<1>. QED
  BY <1>5, <1>6, <1>7, <1>8, <1>9, OwnStep DEF Honest

LEMMA PersistStep ==
    ASSUME IInv, NEW c \in Call, Persist(c)
    PROVE  IInv'
<1>. DEFINE x == call[c].staged
<1>1. /\ x.status \in {"needs_human", "failed"} /\ row[c] = NoRow /\ NoRow.status = "none"
      /\ x \in RowType /\ writer # c /\ row \in [Call -> RowType]
  BY CallTyped DEF IInv, Shapes, Honest, Staged, CallType, Holding, Persist, At
<1>2. UNCHANGED <<card, world, review, writer>>
  BY DEF Persist, NoWorld, NoReview
<1>3. CASE row' = [row EXCEPT ![c] = x] /\ Answer(c, x.status)
  <2>1. x.status \in Answers \ {Unanswered}
    BY <1>1 DEF Answers, Unanswered
  <2>2. Ends(c, x.status)
    BY <1>1, <1>2, <1>3 DEF Ends, Answer
  <2>. QED
    BY <2>1, <2>2, EndStep
<1>4. CASE row' \in {row, [row EXCEPT ![c] = x]} /\ Answer(c, "error")
  <2>1. "error" \in Answers \ {Unanswered}
    BY DEF Answers, Unanswered
  <2>2. Ends(c, "error")
    BY <1>1, <1>2, <1>4 DEF Ends, Answer
  <2>. QED
    BY <2>1, <2>2, EndStep
<1>. QED
  BY <1>3, <1>4 DEF Persist

\* A request that moves on without touching its row; `next' is what it becomes.
Moves(c, next) ==
    /\ call' = [call EXCEPT ![c] = next] /\ next \in CallType /\ next.req = Req(c)
    /\ UNCHANGED <<row, card, world, review>>
    /\ writer' \in {writer, c, Nobody} /\ (writer' # writer => writer \in {c, Nobody})

LEMMA MoveStep ==
    ASSUME IInv, NEW c \in Call, NEW next, Moves(c, next), Honest(c)'
    PROVE  IInv'
<1>1. call'[c] = next
  BY DEF Moves, IInv, Shapes
<1>2. Own(c)
  BY <1>1, CallTyped DEF Moves, Own, Req, IInv, Shapes
<1>. QED
  BY <1>2, OwnStep

\* Of what is known of a request, the part that speaks of its row alone.
LEMMA RowUntouched ==
    ASSUME IInv, NEW c \in Call, NEW next, Moves(c, next),
           call[c].at \notin {"probe", "done"}, next.answer = Unanswered
    PROVE  /\ call'[c] = next /\ Told(c)' /\ Backed(c)'
           /\ row'[c] = NoRow /\ card'[c] = NoCard /\ row'[c].status # "succeeded"
BY DEF Moves, IInv, Shapes, Honest, Staged, Told, Backed, NoRow, Unanswered

\* A request that holds the reservation gives its success up and commits that
\* somebody must look.
GivesUp(c, marked) ==
    /\ call' = [call EXCEPT ![c] = [call[c] EXCEPT !.at = "commit", !.staged = marked]]
    /\ call[c].at \in {"again", "reread"} /\ marked \in RowType
    /\ marked.status = "needs_human"
    /\ UNCHANGED <<row, card, world, review>>
    /\ writer' = c /\ writer \in {c, Nobody}

LEMMA GiveUpStep ==
    ASSUME IInv, NEW c \in Call, NEW marked, GivesUp(c, marked)
    PROVE  IInv'
<1>. DEFINE next == [call[c] EXCEPT !.at = "commit", !.staged = marked]
<1>1. call[c] \in CallType /\ call[c].answer = Unanswered
  BY CallTyped DEF IInv, Honest, Staged, At, GivesUp
<1>2. Moves(c, next)
  BY <1>1 DEF GivesUp, Moves, CallType, Places, Req
<1>3. /\ next.at = "commit" /\ next.now = call[c].now /\ next.seen = call[c].seen
      /\ next.staged = marked /\ next.answer = Unanswered /\ next.req = call[c].req
      /\ next.output = call[c].output
  BY <1>1 DEF CallType
<1>. HIDE DEF next
<1>4. /\ call'[c] = next /\ Told(c)' /\ Backed(c)'
      /\ row'[c] = NoRow /\ card'[c] = NoCard /\ row'[c].status # "succeeded"
  BY <1>2, <1>3, RowUntouched DEF GivesUp
<1>5. Staged(c)'
  BY <1>3, <1>4 DEF Staged, At, Holding, GivesUp
<1>6. Counted(c)'
  BY <1>3, <1>4 DEF IInv, Honest, Counted, At, Ask, Req, GivesUp, world, evidence
<1>7. Sealing(c)'
  BY <1>3, <1>4 DEF Sealing, At, GivesUp
<1>8. Accepted(c)'
  BY <1>3, <1>4 DEF Accepted, IInv, Honest, Req, GivesUp, world, evidence
<1>. QED
  BY <1>2, <1>4, <1>5, <1>6, <1>7, <1>8, MoveStep DEF Honest

LEMMA ReserveStep ==
    ASSUME IInv, NEW c \in Call, Reserve(c)
    PROVE  IInv'
<1>1. /\ row[c] = NoRow /\ NoRow.status = "none" /\ NoRow \in RowType /\ writer # c
      /\ row \in [Call -> RowType] /\ call[c] \in CallType /\ call[c].answer = Unanswered
  BY CallTyped DEF IInv, Shapes, Honest, Staged, Holding, Reserve, At
<1>2. UNCHANGED <<row, card, world, review>>
  BY DEF Reserve, NoWorld, NoReview
<1>3. CASE writer # Nobody /\ Answer(c, "error") /\ UNCHANGED writer
  <2>1. "error" \in Answers \ {Unanswered}
    BY DEF Answers, Unanswered
  <2>2. Ends(c, "error")
    BY <1>1, <1>2, <1>3 DEF Ends, Answer
  <2>. QED
    BY <2>1, <2>2, EndStep
<1>4. CASE writer = Nobody /\ writer' = c /\ At(c, "reserve") /\ Go(c, "reread")
  <2>. DEFINE next == [call[c] EXCEPT !.at = "reread"]
  <2>1. Moves(c, next)
    BY <1>1, <1>2, <1>4 DEF Moves, Go, CallType, Places, IInv, Shapes, Req
  <2>2. /\ next.at = "reread" /\ next.now = call[c].now /\ next.seen = call[c].seen
        /\ next.staged = call[c].staged /\ next.answer = Unanswered /\ next.req = call[c].req
        /\ next.output = call[c].output
    BY <1>1 DEF CallType
  <2>. HIDE DEF next
  <2>3. /\ call'[c] = next /\ Told(c)' /\ Backed(c)'
        /\ row'[c] = NoRow /\ card'[c] = NoCard /\ row'[c].status # "succeeded"
    BY <1>4, <2>1, <2>2, RowUntouched DEF At
  <2>4. call[c].now = << >> /\ call[c].staged = NoRow
    BY <1>4 DEF At, IInv, Honest, Counted, Staged
  <2>5. Staged(c)'
    BY <1>4, <2>2, <2>3, <2>4 DEF Staged, At, Holding
  <2>6. Len(<< >>) <= Len(Ask(c))
    BY CallTyped
  <2>7. Counted(c)'
    BY <1>2, <2>2, <2>3, <2>4, <2>6 DEF IInv, Honest, Counted, At, Ask, Req, world, evidence
  <2>8. Sealing(c)'
    BY <2>2, <2>3, <2>4 DEF Sealing, At
  <2>9. Accepted(c)'
    BY <1>2, <1>4, <2>2, <2>3 DEF Accepted, At, IInv, Honest, Req, world, evidence
  <2>. QED
    BY <2>1, <2>3, <2>5, <2>7, <2>8, <2>9, MoveStep DEF Honest
<1>5. CASE /\ writer = Nobody /\ writer' = c /\ At(c, "again")
           /\ call' = [call EXCEPT ![c].at = "commit",
                                   ![c].staged = [NoRow EXCEPT !.status = "needs_human"]]
  <2>. DEFINE marked == [NoRow EXCEPT !.status = "needs_human"]
  <2>1. marked \in RowType /\ marked.status = "needs_human"
    BY <1>1 DEF RowType, Statuses
  <2>2. GivesUp(c, marked)
    BY <1>2, <1>5, <2>1 DEF GivesUp, At, IInv, Shapes
  <2>. QED
    BY <2>2, GiveUpStep
<1>. QED
  BY <1>3, <1>4, <1>5 DEF Reserve, At

LEMMA RereadStep ==
    ASSUME IInv, NEW c \in Call, Reread(c)
    PROVE  IInv'
<1>. DEFINE e == Next1(call[c].now, c)
<1>1. /\ call[c] \in CallType /\ call[c].at = "reread" /\ call[c].staged = NoRow
      /\ NoRow \in RowType /\ NoRow.status = "none" /\ writer = c
      /\ call[c].answer = Unanswered /\ Ask(c) \in Seq(Evidence)
      /\ call[c].now \in Seq(FactType) /\ Len(call[c].now) < Len(Ask(c))
  BY CallTyped DEF IInv, Shapes, Honest, Staged, Holding, Reread, At
<1>2. UNCHANGED <<row, card, world, review, writer>>
  BY DEF Reread, NoWorld, NoReview
<1>3. CASE Refused(e, Req(c).scope)
  <2>. DEFINE marked == [call[c].staged EXCEPT !.status = "needs_human"]
  <2>1. marked \in RowType /\ marked.status = "needs_human"
    BY <1>1 DEF RowType, Statuses
  <2>2. call' = [call EXCEPT ![c] = [call[c] EXCEPT !.at = "commit", !.staged = marked]]
    BY <1>3 DEF Reread, IInv, Shapes
  <2>3. GivesUp(c, marked)
    BY <1>1, <1>2, <2>1, <2>2 DEF GivesUp
  <2>. QED
    BY <2>3, GiveUpStep
<1>4. CASE ~Refused(e, Req(c).scope)
  <2>. DEFINE read == Append(call[c].now, Resolved(e))
              next == [call[c] EXCEPT !.now = read]
  <2>1. e \in Evidence
    BY <1>1 DEF Next1
  <2>2. /\ Resolved(e) \in FactType /\ Resolved(e).ident <= MaxWrites /\ Resolved(e).id = e
        /\ IF e \in Bound /\ Resolved(e).trusted
           THEN Resolved(e).ident = file[e].ident ELSE Resolved(e).ident = 0
    BY <2>1, ResolvedType DEF IInv
  <2>3. read \in Seq(FactType) /\ Known(read) /\ Len(read) <= Len(Ask(c))
    BY <1>1, <2>2, AppendKnown DEF IInv, Honest, Counted
  <2>4. call' = [call EXCEPT ![c] = next]
    BY <1>4 DEF Reread, IInv, Shapes
  <2>5. Moves(c, next)
    BY <1>1, <1>2, <2>3, <2>4 DEF Moves, CallType, Req
  <2>6. /\ next.at = "reread" /\ next.now = read /\ next.seen = call[c].seen
        /\ next.staged = NoRow /\ next.answer = Unanswered /\ next.req = call[c].req
        /\ next.output = call[c].output
    BY <1>1 DEF CallType
  <2>. HIDE DEF next
  <2>7. /\ call'[c] = next /\ Told(c)' /\ Backed(c)'
        /\ row'[c] = NoRow /\ card'[c] = NoCard /\ row'[c].status # "succeeded"
    BY <1>1, <2>5, <2>6, RowUntouched
  <2>8. Staged(c)'
    BY <1>1, <1>2, <2>6, <2>7 DEF Staged, At, Holding
  <2>9. Counted(c)'
    BY <1>2, <2>3, <2>6, <2>7 DEF IInv, Honest, Counted, At, Ask, Req, world, evidence
  <2>10. ASSUME NEW i \in DOMAIN read
         PROVE  Read(c, i)'
    <3>1. CASE i \in DOMAIN call[c].now
      <4>1. read[i] = call[c].now[i]
        BY <1>1, <2>2, <3>1
      <4>2. Read(c, i)
        BY <1>1, <3>1 DEF IInv, Honest, Sealing, At
      <4>. QED
        BY <1>2, <2>6, <2>7, <4>1, <4>2 DEF Read, Ask, Req, world, evidence
    <3>2. CASE i = Len(call[c].now) + 1
      <4>1. read[i] = Resolved(e) /\ e = Ask(c)[i]
        BY <1>1, <2>2, <3>2 DEF Next1
      <4>2. e \in Note => journal[e] = "committed"
        BY <1>4 DEF Refused, TrustedNote, JournalStands
      <4>3. e \in Bound => file[e].ident \in Nat
        BY DEF IInv, Shapes
      <4>4. /\ call'[c].now[i] = Resolved(e) /\ call'[c].req.ids[i] = e
            /\ file' = file /\ journal' = journal
        BY <1>2, <2>6, <2>7, <4>1 DEF Ask, Req, world, evidence
      <4>5. IF e \in Bound /\ Resolved(e).trusted
            THEN Resolved(e).ident <= file[e].ident ELSE Resolved(e).ident = 0
        BY <2>2, <4>3
      <4>. HIDE DEF e
      <4>. QED
        BY <2>2, <4>2, <4>4, <4>5 DEF Read, Ask, Req
    <3>. QED
      BY <1>1, <2>2, <3>1, <3>2
  <2>11. Sealing(c)'
    BY <2>6, <2>7, <2>10 DEF Sealing, At
  <2>12. Accepted(c)'
    BY <1>1, <1>2, <2>6, <2>7 DEF Accepted, IInv, Honest, Req, world, evidence
  <2>. QED
    BY <2>5, <2>7, <2>8, <2>9, <2>11, <2>12, MoveStep DEF Honest
<1>. QED
  BY <1>3, <1>4

LEMMA FlushStep ==
    ASSUME IInv, NEW c \in Call, Flush(c)
    PROVE  IInv'
<1>1. /\ call[c] \in CallType /\ call[c].at = "reread" /\ call[c].staged = NoRow
      /\ NoRow \in RowType /\ NoRow.status = "none" /\ writer = c
      /\ call[c].answer = Unanswered /\ Ask(c) \in Seq(Evidence)
      /\ call[c].now \in Seq(FactType) /\ Len(call[c].now) = Len(Ask(c))
  BY CallTyped DEF IInv, Shapes, Honest, Staged, Holding, Flush, At
<1>2. UNCHANGED <<row, card, world, review, writer>>
  BY DEF Flush, NoWorld, NoReview
<1>3. CASE SameEvidence(c)
  <2>. DEFINE staged == [status |-> "succeeded", sealed |-> call[c].now]
              next == [call[c] EXCEPT !.at = "compare", !.left = Len(Ask(c)),
                                      !.flushed = Standing(c), !.staged = staged]
  <2>1. \A i \in DOMAIN call[c].now :
           Read(c, i) /\ call[c].now[i] \in FactType /\ Ask(c)[i] \in Evidence
    BY <1>1 DEF IInv, Honest, Sealing, At
  <2>2. ASSUME NEW i \in DOMAIN Ask(c)
        PROVE  /\ Standing(c)[i] \in Moment /\ ~Standing(c)[i].open
               /\ IF call[c].now[i].id \in Bound /\ call[c].now[i].trusted
                  THEN /\ call[c].now[i].ident <= Standing(c)[i].ident
                       /\ Standing(c)[i].ident <= file[call[c].now[i].id].ident
                  ELSE call[c].now[i].ident = Standing(c)[i].ident
    <3>. DEFINE e == Ask(c)[i]  fact == call[c].now[i]
    <3>1. /\ fact.id = e /\ (e \in Note => journal[e] = "committed")
          /\ IF e \in Bound /\ fact.trusted
             THEN fact.ident <= file[e].ident ELSE fact.ident = 0
      BY <1>1, <2>1 DEF Read
    <3>2. e \in Bound => file[e].ident \in Nat
      BY DEF IInv, Shapes
    <3>3. Standing(c)[i] = [ident |-> IF e \in Bound /\ fact.trusted
                                      THEN file[e].ident ELSE 0,
                            open  |-> e \in Note /\ journal[e] # "committed"]
      BY DEF Standing
    <3>4. (e \in Note /\ journal[e] # "committed") = FALSE
      BY <3>1
    <3>. HIDE DEF e, fact
    <3>5. Standing(c)[i] = [ident |-> IF e \in Bound /\ fact.trusted
                                      THEN file[e].ident ELSE 0, open |-> FALSE]
      BY <3>3, <3>4
    <3>6. /\ Standing(c)[i] \in Moment /\ ~Standing(c)[i].open
          /\ IF e \in Bound /\ fact.trusted
             THEN /\ fact.ident <= Standing(c)[i].ident
                  /\ Standing(c)[i].ident <= file[e].ident
             ELSE fact.ident = Standing(c)[i].ident
      BY <3>1, <3>2, <3>5, SMT DEF Moment
    <3>. QED
      BY <3>1, <3>6 DEF fact
  <2>3. /\ Standing(c) \in Seq(Moment) /\ Len(Standing(c)) = Len(Ask(c))
        /\ Len(Ask(c)) \in Nat
    <3>1. Standing(c) = [i \in 1..Len(Ask(c)) |-> Standing(c)[i]]
      BY <1>1 DEF Standing
    <3>2. \A i \in 1..Len(Ask(c)) : Standing(c)[i] \in Moment
      BY <1>1, <2>2
    <3>3. Len(Ask(c)) \in Nat
      BY <1>1
    <3>4. Standing(c) \in [1..Len(Ask(c)) -> Moment]
      BY <3>1, <3>2
    <3>. QED
      BY <3>3, <3>4, IsASeq, LenProperties
  <2>4. staged \in RowType
    BY <1>1 DEF RowType, Statuses
  <2>5. call' = [call EXCEPT ![c] = next]
    BY <1>3 DEF Flush, IInv, Shapes
  <2>6. Moves(c, next)
    <3>1. next \in CallType
      BY <1>1, <2>3, <2>4 DEF CallType, Places
    <3>2. next.req = Req(c)
      BY <1>1 DEF CallType, Req
    <3>. HIDE DEF next
    <3>. QED
      BY <1>2, <2>5, <3>1, <3>2 DEF Moves
  <2>7. /\ next.at = "compare" /\ next.now = call[c].now /\ next.seen = call[c].seen
        /\ next.staged = staged /\ next.answer = Unanswered /\ next.req = call[c].req
        /\ next.output = call[c].output /\ next.flushed = Standing(c)
        /\ next.left = Len(Ask(c))
    BY <1>1 DEF CallType
  <2>8. staged.status = "succeeded" /\ staged.sealed = call[c].now
    OBVIOUS
  <2>. HIDE DEF next, staged
  <2>9. /\ call'[c] = next /\ Told(c)' /\ Backed(c)'
        /\ row'[c] = NoRow /\ card'[c] = NoCard /\ row'[c].status # "succeeded"
    BY <1>1, <2>6, <2>7, RowUntouched
  <2>10. Staged(c)'
    BY <1>1, <1>2, <2>7, <2>8, <2>9 DEF Staged, At, Holding
  <2>11. Counted(c)'
    BY <1>2, <2>7, <2>9 DEF IInv, Honest, Counted, At, Ask, Req, world, evidence
  <2>12. ASSUME NEW i \in DOMAIN call[c].now
         PROVE  Between(c, i)'
    <3>1. i \in DOMAIN Ask(c) /\ i \in Nat /\ i > 0
      BY <1>1
    <3>2. ~(i <= Len(Ask(c)) - Len(Ask(c)))
      BY <2>3, <3>1
    <3>3. file' = file /\ Ask(c)' = Ask(c)
      BY <1>2, <2>7, <2>9 DEF Ask, Req, world, evidence
    <3>. QED
      BY <2>2, <2>7, <2>9, <3>1, <3>2, <3>3 DEF Between
  <2>13. Sealing(c)'
    BY <1>1, <1>3, <2>3, <2>7, <2>8, <2>9, <2>12 DEF Sealing, At, SameEvidence, Ask, Req
  <2>14. Accepted(c)'
    BY <1>1, <1>2, <2>7, <2>9 DEF Accepted, IInv, Honest, Req, world, evidence
  <2>. QED
    BY <2>6, <2>9, <2>10, <2>11, <2>13, <2>14, MoveStep DEF Honest
<1>4. CASE ~SameEvidence(c)
  <2>. DEFINE marked == [call[c].staged EXCEPT !.status = "needs_human"]
  <2>1. marked \in RowType /\ marked.status = "needs_human"
    BY <1>1 DEF RowType, Statuses
  <2>2. call' = [call EXCEPT ![c] = [call[c] EXCEPT !.at = "commit", !.staged = marked]]
    BY <1>4 DEF Flush, IInv, Shapes
  <2>3. GivesUp(c, marked)
    BY <1>1, <1>2, <2>1, <2>2 DEF GivesUp
  <2>. QED
    BY <2>3, GiveUpStep
<1>. QED
  BY <1>3, <1>4

LEMMA CompareStep ==
    ASSUME IInv, NEW c \in Call, Compare(c)
    PROVE  IInv'
<1>. DEFINE k == Len(Ask(c)) - call[c].left + 1
            fact == call[c].now[k]
<1>1. /\ call[c] \in CallType /\ call[c].at = "compare" /\ writer = c
      /\ call[c].answer = Unanswered /\ call[c].now \in Seq(FactType)
      /\ call[c].flushed \in Seq(Moment) /\ call[c].staged.status = "succeeded"
      /\ row[c] = NoRow /\ card[c] = NoCard
  BY CallTyped DEF IInv, Shapes, Honest, Staged, Holding, Compare, At, CallType
<1>2. UNCHANGED <<row, card, world, review>> /\ result' = result /\ file' = file
  BY DEF Compare, NoWorld, NoReview, world, evidence
<1>3. /\ Len(call[c].now) = Len(Ask(c)) /\ call[c].left <= Len(Ask(c)) /\ call[c].left > 0
      /\ Len(call[c].flushed) = Len(Ask(c)) /\ call[c].left \in Nat /\ Len(Ask(c)) \in Nat
      /\ call[c].now = call[c].seen /\ call[c].staged.sealed = call[c].now
      /\ \A i \in DOMAIN call[c].now : Between(c, i)
  BY <1>1, CallTyped DEF IInv, Honest, Sealing, At, Compare, CallType
<1>4. CASE ~StillBound(fact)
  <2>. DEFINE next == [call[c] EXCEPT !.at = "again"]
  <2>1. call' = [call EXCEPT ![c] = next] /\ writer' = Nobody
    BY <1>4 DEF Compare, Go, IInv, Shapes
  <2>2. Moves(c, next)
    BY <1>1, <1>2, <2>1 DEF Moves, CallType, Places, Req
  <2>3. /\ next.at = "again" /\ next.now = call[c].now /\ next.seen = call[c].seen
        /\ next.answer = Unanswered /\ next.req = call[c].req
        /\ next.output = call[c].output
    BY <1>1 DEF CallType
  <2>. HIDE DEF next
  <2>4. /\ call'[c] = next /\ Told(c)' /\ Backed(c)'
        /\ row'[c] = NoRow /\ card'[c] = NoCard /\ row'[c].status # "succeeded"
    BY <1>1, <2>2, <2>3, RowUntouched
  <2>5. Staged(c)'
    BY <2>1, <2>3, <2>4, EvidenceAssumption DEF Staged, At, Holding, Nobody
  <2>6. Counted(c)'
    BY <1>2, <2>3, <2>4 DEF IInv, Honest, Counted, At, Ask, Req
  <2>7. Sealing(c)'
    BY <2>3, <2>4 DEF Sealing, At
  <2>8. Accepted(c)'
    BY <1>1, <1>2, <2>3, <2>4 DEF Accepted, IInv, Honest, Req
  <2>. QED
    BY <2>2, <2>4, <2>5, <2>6, <2>7, <2>8, MoveStep DEF Honest
<1>5. CASE StillBound(fact)
  <2>. DEFINE place == IF call[c].left = 1 THEN "commit" ELSE "compare"
              next == [call[c] EXCEPT !.left = call[c].left - 1, !.at = place]
  <2>1. call' = [call EXCEPT ![c] = next] /\ writer' = c
    BY <1>1, <1>5 DEF Compare, IInv, Shapes
  <2>2. call[c].left - 1 \in Nat /\ place \in {"commit", "compare"}
    BY <1>3
  <2>3. Moves(c, next)
    BY <1>1, <1>2, <2>1, <2>2 DEF Moves, CallType, Places, Req
  <2>4. /\ next.at = place /\ next.now = call[c].now /\ next.seen = call[c].seen
        /\ next.answer = Unanswered /\ next.req = call[c].req
        /\ next.output = call[c].output /\ next.left = call[c].left - 1
        /\ next.flushed = call[c].flushed /\ next.staged = call[c].staged
    BY <1>1 DEF CallType
  <2>5. place = "commit" => call[c].left = 1
    OBVIOUS
  <2>. HIDE DEF next, place
  <2>6. /\ call'[c] = next /\ Told(c)' /\ Backed(c)'
        /\ row'[c] = NoRow /\ card'[c] = NoCard /\ row'[c].status # "succeeded"
    BY <1>1, <2>3, <2>4, RowUntouched
  <2>7. Staged(c)'
    BY <1>1, <2>1, <2>2, <2>4, <2>6 DEF Staged, At, Holding
  <2>8. Counted(c)'
    BY <1>2, <2>2, <2>4, <2>6 DEF IInv, Honest, Counted, At, Ask, Req
  <2>9. k \in DOMAIN call[c].now /\ fact.ident = call[c].flushed[k].ident
    <3>1. k \in DOMAIN call[c].now
      BY <1>1, <1>3
    <3>2. fact \in FactType /\ call[c].flushed[k] \in Moment
      BY <1>1, <1>3, <3>1
    <3>3. fact.id \in Bound => file[fact.id].ident \in Nat
      BY DEF IInv, Shapes
    <3>4. Between(c, k)
      BY <1>3, <3>1
    <3>. HIDE DEF k
    <3>. QED
      BY <1>5, <3>1, <3>2, <3>3, <3>4 DEF Between, StillBound, FactType, Moment
  <2>10. ASSUME NEW i \in DOMAIN call[c].now
         PROVE  /\ Between(c, i)'
                /\ i <= Len(Ask(c)) - (call[c].left - 1) =>
                      call[c].now[i].ident = call[c].flushed[i].ident
    <3>1. Between(c, i) /\ i \in Nat
      BY <1>1, <1>3
    <3>2. i <= Len(Ask(c)) - (call[c].left - 1) =>
             call[c].now[i].ident = call[c].flushed[i].ident
      <4>1. i <= Len(Ask(c)) - (call[c].left - 1) => i <= Len(Ask(c)) - call[c].left \/ i = k
        BY <1>3, <3>1
      <4>. QED
        BY <2>9, <3>1, <4>1 DEF Between
    <3>3. Ask(c)' = Ask(c)
      BY <2>4, <2>6 DEF Ask, Req
    <3>. QED
      BY <1>2, <2>4, <2>6, <3>1, <3>2, <3>3 DEF Between
  <2>11. ASSUME place = "commit"
         PROVE  Sealed(c, call[c].staged)'
    <3>1. Len(Ask(c)) - (call[c].left - 1) = Len(Ask(c))
      BY <1>3, <2>5, <2>11
    <3>2. ASSUME NEW i \in DOMAIN call[c].now
          PROVE  call[c].now[i].ident = call[c].flushed[i].ident /\ ~call[c].flushed[i].open
      <4>1. i \in Nat /\ i <= Len(Ask(c)) /\ Between(c, i)
        BY <1>1, <1>3
      <4>. QED
        BY <2>10, <3>1, <4>1 DEF Between
    <3>3. call'[c].staged.sealed = call[c].now
      BY <1>3, <2>4, <2>6
    <3>4. call'[c].seen = call[c].now /\ call'[c].flushed = call[c].flushed
      BY <1>3, <2>4, <2>6
    <3>5. \A i \in DOMAIN call[c].now :
             call[c].now[i].ident = call[c].flushed[i].ident /\ ~call[c].flushed[i].open
      BY <3>2
    <3>. QED
      BY <3>3, <3>4, <3>5 DEF Sealed
  <2>12. Sealing(c)'
    <3>1. ASSUME place = "compare"
          PROVE  /\ Len(call'[c].now) = Len(Ask(c))' /\ call'[c].left <= Len(Ask(c))'
                 /\ Len(call'[c].flushed) = Len(Ask(c))'
                 /\ call'[c].now = call'[c].seen /\ call'[c].staged.sealed = call'[c].now
                 /\ \A i \in DOMAIN call'[c].now : Between(c, i)'
      <4>1. Ask(c)' = Ask(c) /\ call'[c].left <= Len(Ask(c))
        BY <1>3, <2>2, <2>4, <2>6 DEF Ask, Req
      <4>2. /\ call'[c].now = call[c].now /\ call'[c].seen = call[c].now
            /\ call'[c].staged.sealed = call[c].now /\ call'[c].flushed = call[c].flushed
        BY <1>3, <2>4, <2>6
      <4>. QED
        BY <1>3, <2>10, <4>1, <4>2
    <3>. QED
      BY <2>2, <2>4, <2>6, <2>11, <3>1 DEF Sealing, At
  <2>13. Accepted(c)'
    BY <1>1, <1>2, <2>4, <2>6 DEF Accepted, IInv, Honest, Req
  <2>. QED
    BY <2>3, <2>6, <2>7, <2>8, <2>12, <2>13, MoveStep DEF Honest
<1>. QED
  BY <1>4, <1>5

\* The card a success carries rests on the evidence it is sealed over.
LEMMA CardStands ==
    ASSUME IInv, NEW c \in Call, call[c].at = "commit", call[c].staged.status = "succeeded",
           CardOf(c) # NoCard
    PROVE  /\ IsCard(CardOf(c))
           /\ Rests(CardOf(c).shops, CardOf(c).notes, Req(c).scope,
                    Ids(call[c].staged.sealed), result)
           /\ (CardOf(c).level = "validated_candidate") = (Cardinality(Req(c).scope) > 2)
<1>. DEFINE k == call[c].output.card
<1>1. k # NoCard
  BY DEF CardOf
<1>2. CardOf(c) = [review |-> "pending_review", level |-> Level(Req(c).scope),
                   shops |-> k.shops, notes |-> k.notes]
  BY <1>1 DEF CardOf
<1>3. Rests(k.shops, k.notes, Req(c).scope, Ids(call[c].seen), result)
  BY <1>1 DEF IInv, Honest, Accepted
<1>4. call[c].staged.sealed = call[c].seen
  BY DEF IInv, Honest, Sealing, Sealed
<1>5. Cardinality(Req(c).scope) \in Nat
  BY CallTyped, FS_CardinalityType
<1>6. (Level(Req(c).scope) = "validated_candidate") = (Cardinality(Req(c).scope) > 2)
  BY <1>5 DEF Level
<1>7. IsCard(CardOf(c))
  <2>1. call[c].output \in Outputs /\ "pending_review" \in Reviews
        /\ Level(Req(c).scope) \in Levels
    BY DEF IInv, Honest, Accepted, Reviews, Levels, Level
  <2>. QED
    BY <1>1, <1>2, <2>1 DEF IsCard
<1>. QED
  BY <1>2, <1>3, <1>4, <1>6, <1>7

LEMMA CommitStep ==
    ASSUME IInv, NEW c \in Call, Commit(c)
    PROVE  IInv'
<1>. DEFINE x == call[c].staged
<1>1. /\ call[c] \in CallType /\ call[c].at = "commit" /\ writer = c /\ writer' = Nobody
      /\ x \in RowType /\ x.status \in {"needs_human", "succeeded"}
      /\ row[c] = NoRow /\ card[c] = NoCard /\ NoRow.status = "none" /\ NoRow \in RowType
      /\ row \in [Call -> RowType] /\ card = [d \in Call |-> card[d]]
  BY CallTyped DEF IInv, Shapes, Honest, Staged, Commit, At, CallType
<1>2. UNCHANGED <<world, review>> /\ result' = result
  BY DEF Commit, NoWorld, NoReview, world, evidence
<1>3. CASE x.status = "needs_human"
  <2>1. card' = card /\ row' \in {row, [row EXCEPT ![c] = x]}
    BY <1>1, <1>3 DEF Commit, Insert
  <2>2. \/ Answer(c, "needs_human") /\ row' = [row EXCEPT ![c] = x]
        \/ Answer(c, "error")
    BY <1>1, <1>3 DEF Commit, Insert
  <2>3. "needs_human" \in Answers \ {Unanswered} /\ "error" \in Answers \ {Unanswered}
    BY DEF Answers, Unanswered
  <2>4. CASE Answer(c, "needs_human") /\ row' = [row EXCEPT ![c] = x]
    <3>1. Ends(c, "needs_human")
      BY <1>1, <1>2, <1>3, <2>1, <2>4 DEF Ends, Answer
    <3>. QED
      BY <2>3, <3>1, EndStep
  <2>5. CASE Answer(c, "error")
    <3>1. Ends(c, "error")
      BY <1>1, <1>2, <1>3, <2>1, <2>5 DEF Ends, Answer
    <3>. QED
      BY <2>3, <3>1, EndStep
  <2>. QED
    BY <2>2, <2>4, <2>5
<1>4. CASE x.status = "succeeded"
  <2>. DEFINE told    == [call[c] EXCEPT !.at = "done", !.answer = "succeeded"]
              doubted == [call[c] EXCEPT !.at = "probe", !.left = 2]
  <2>1. \/ row' = [row EXCEPT ![c] = x] /\ card' = [card EXCEPT ![c] = CardOf(c)]
        \/ row' = row /\ card' = card
    BY <1>4 DEF Commit, Insert
  <2>2. \/ /\ call' = [call EXCEPT ![c] = told]
           /\ row' = [row EXCEPT ![c] = x] /\ card' = [card EXCEPT ![c] = CardOf(c)]
        \/ call' = [call EXCEPT ![c] = doubted]
    BY <1>4 DEF Commit, Insert, Answer, IInv, Shapes
  <2>3. told \in CallType /\ doubted \in CallType
    BY <1>1 DEF CallType, Places, Answers
  <2>4. /\ told.at = "done" /\ told.answer = "succeeded"
        /\ doubted.at = "probe" /\ doubted.answer = call[c].answer /\ doubted.left = 2
        /\ \A y \in {told, doubted} :
              /\ y.req = call[c].req /\ y.seen = call[c].seen /\ y.now = call[c].now
              /\ y.staged = x /\ y.flushed = call[c].flushed /\ y.output = call[c].output
    BY <1>1 DEF CallType
  <2>. HIDE DEF told, doubted
  <2>5. /\ \/ call'[c] = told /\ row'[c] = x
           \/ call'[c] = doubted
        /\ \/ row'[c] = x /\ card'[c] = CardOf(c)
           \/ row'[c] = NoRow /\ card'[c] = NoCard
    BY <1>1, <2>1, <2>2 DEF IInv, Shapes
  <2>6. call[c].answer = Unanswered
    BY <1>1 DEF IInv, Honest, Staged, At
  <2>7. /\ call'[c].req = call[c].req /\ call'[c].seen = call[c].seen
        /\ call'[c].now = call[c].now /\ call'[c].staged = x
        /\ call'[c].flushed = call[c].flushed /\ call'[c].output = call[c].output
        /\ call'[c].at \in {"probe", "done"} /\ call'[c] \in CallType
        /\ IF call'[c].at = "done"
           THEN call'[c].answer = "succeeded" /\ row'[c] = x
           ELSE call'[c].answer = Unanswered /\ call'[c].left = 2
    BY <2>3, <2>4, <2>5, <2>6
  <2>8. Own(c)
    <3>1. card'[c] = NoCard \/ IsCard(card'[c])
      BY <1>1, <1>4, <2>5, CardStands
    <3>2. /\ call' = [call EXCEPT ![c] = call'[c]] /\ row' = [row EXCEPT ![c] = row'[c]]
          /\ card' = [card EXCEPT ![c] = card'[c]]
      BY <1>1, <2>1, <2>2, <2>5 DEF IInv, Shapes
    <3>3. row'[c] \in RowType /\ row[c].status # "succeeded"
      BY <1>1, <2>5
    <3>. QED
      BY <1>1, <1>2, <2>7, <3>1, <3>2, <3>3 DEF Own
  <2>9. Staged(c)'
    BY <1>1, <1>4, <2>5, <2>7, EvidenceAssumption DEF Staged, At, Holding, Nobody, Unanswered
  <2>10. Counted(c)'
    BY <1>1, <1>2, <2>7 DEF IInv, Honest, Counted, At, Ask, Req
  <2>11. Sealed(c, x)
    BY <1>1, <1>4 DEF IInv, Honest, Sealing
  <2>12. Sealing(c)'
    BY <1>1, <2>5, <2>7, <2>11 DEF Sealing, Sealed, At
  <2>13. Accepted(c)'
    BY <1>1, <1>2, <2>7 DEF IInv, Honest, Accepted, Req
  <2>14. Told(c)'
    BY <1>4, <2>7 DEF Told, Unanswered
  <2>15. Backed(c)'
    BY <1>1, <1>2, <1>4, <2>5, <2>7, CardStands DEF Backed, Req
  <2>. QED
    BY <2>8, <2>9, <2>10, <2>12, <2>13, <2>14, <2>15, OwnStep DEF Honest
<1>. QED
  BY <1>1, <1>3, <1>4

LEMMA ProbeStep ==
    ASSUME IInv, NEW c \in Call, Probe(c)
    PROVE  IInv'
<1>1. /\ call[c] \in CallType /\ call[c].at = "probe" /\ writer # c
      /\ call[c].staged.status = "succeeded" /\ row[c] \in RowType
      /\ row \in [Call -> RowType] /\ card = [d \in Call |-> card[d]]
      /\ call[c].answer = Unanswered /\ (card[c] = NoCard \/ IsCard(card[c]))
  BY CallTyped DEF IInv, Shapes, Honest, Staged, Holding, Probe, At
<1>2. UNCHANGED <<row, card, world, review, writer>> /\ result' = result
  BY DEF Probe, NoWorld, NoReview, world, evidence
<1>3. CASE Answer(c, Verdict(c))
  <2>1. Verdict(c) \in Answers \ {Unanswered}
    BY DEF Verdict, Answers, Unanswered
  <2>2. Ends(c, Verdict(c))
    BY <1>1, <1>2, <1>3 DEF Ends, Answer, Verdict
  <2>. QED
    BY <2>1, <2>2, EndStep
<1>4. CASE Answer(c, "unknown")
  <2>1. "unknown" \in Answers \ {Unanswered}
    BY DEF Answers, Unanswered
  <2>2. Ends(c, "unknown")
    BY <1>1, <1>2, <1>4 DEF Ends, Answer
  <2>. QED
    BY <2>1, <2>2, EndStep
<1>5. CASE call[c].left # 1 /\ call' = [call EXCEPT ![c].left = @ - 1]
  <2>. DEFINE next == [call[c] EXCEPT !.left = call[c].left - 1]
  <2>1. call[c].left - 1 \in Nat /\ call[c].left - 1 > 0
    BY <1>1, <1>5 DEF IInv, Honest, Staged, At, CallType
  <2>2. call' = [call EXCEPT ![c] = next]
    BY <1>5 DEF IInv, Shapes
  <2>3. Moves(c, next)
    BY <1>1, <1>2, <2>1, <2>2 DEF Moves, CallType, Req
  <2>4. /\ next.at = "probe" /\ next.now = call[c].now /\ next.seen = call[c].seen
        /\ next.answer = Unanswered /\ next.req = call[c].req
        /\ next.output = call[c].output /\ next.left = call[c].left - 1
        /\ next.flushed = call[c].flushed /\ next.staged = call[c].staged
    BY <1>1 DEF CallType
  <2>. HIDE DEF next
  <2>5. call'[c] = next
    BY <1>1, <2>2 DEF IInv, Shapes
  <2>6. Staged(c)'
    BY <1>1, <1>2, <2>1, <2>4, <2>5 DEF IInv, Honest, Staged, At, Holding
  <2>7. Counted(c)' /\ Accepted(c)'
    BY <1>1, <1>2, <2>4, <2>5 DEF IInv, Honest, Counted, Accepted, At, Ask, Req
  <2>8. Sealing(c)'
    BY <1>1, <1>2, <2>4, <2>5 DEF IInv, Honest, Sealing, Sealed, At
  <2>9. Told(c)' /\ Backed(c)'
    BY <1>1, <1>2, <2>4, <2>5 DEF IInv, Honest, Told, Backed, Req, Unanswered
  <2>. QED
    BY <2>3, <2>6, <2>7, <2>8, <2>9, MoveStep DEF Honest
<1>. QED
  BY <1>3, <1>4, <1>5 DEF Probe

-----------------------------------------------------------------------------
(***************************************************************************)
(* The steps of reviewers and of the world                                 *)
(***************************************************************************)
\* Requests do not see what a reviewer does to the column of a decision.
LEMMA ReviewerStep ==
    ASSUME IInv, NEW r \in Reviewer, NEW next \in ReviewType,
           review' = [review EXCEPT ![r] = next],
           UNCHANGED <<world, call, row, writer>>,
           \/ card' = card
           \/ \E c \in Call :
                 /\ row[c].status = "succeeded" /\ IsCard(card[c])
                 /\ card[c].review = "pending_review"
                 /\ \E d \in {"approved", "rejected"} :
                       card' = [card EXCEPT ![c].review = d],
           Reviewing(r)'
    PROVE  IInv'
<1>1. ASSUME NEW c \in Call
      PROVE  \/ card'[c] = card[c]
             \/ /\ IsCard(card[c]) /\ card[c].review = "pending_review"
                /\ row[c].status = "succeeded" /\ card[c] # NoCard
                /\ IsCard(card'[c])
                /\ card'[c].shops = card[c].shops /\ card'[c].notes = card[c].notes
                /\ card'[c].level = card[c].level
  <2>1. CASE card'[c] # card[c]
    <3>1. PICK d \in {"approved", "rejected"} :
             /\ row[c].status = "succeeded" /\ IsCard(card[c])
             /\ card[c].review = "pending_review"
             /\ card'[c] = [card[c] EXCEPT !.review = d]
      BY <2>1 DEF IInv, Shapes
    <3>2. d \in Reviews
      BY DEF Reviews
    <3>. QED
      BY <3>1, <3>2, CardProperties
  <2>. QED
    BY <2>1
<1>2. card' = [c \in Call |-> card'[c]]
  BY DEF IInv, Shapes
<1>3. Shapes'
  BY <1>1, <1>2 DEF IInv, Shapes, world, evidence
<1>4. ASSUME NEW c \in Call
      PROVE  Honest(c)'
  <2>1. CASE card'[c] = card[c]
    <3>1. \A e \in Bound : file[e].ident <= file'[e].ident
      BY SMT DEF world, evidence, IInv, Shapes
    <3>. QED
      BY <1>3, <2>1, <3>1, Undisturbed DEF IInv, world, evidence
  <2>2. CASE /\ IsCard(card[c]) /\ row[c].status = "succeeded"
             /\ card'[c].shops = card[c].shops /\ card'[c].notes = card[c].notes
             /\ card'[c].level = card[c].level /\ card[c] # NoCard
    <3>1. call[c].at \in {"probe", "done"}
      BY <2>2, CallTyped DEF IInv, Honest, Staged
    <3>2. Staged(c)' /\ Counted(c)'
      BY <3>1 DEF IInv, Honest, Staged, Counted, At, Ask, Req, world, evidence
    <3>3. Sealing(c)' /\ Accepted(c)' /\ Told(c)'
      BY <3>1 DEF IInv, Honest, Sealing, Sealed, Accepted, Told, At, Req, world, evidence
    <3>4. Backed(c)'
      BY <2>2 DEF IInv, Honest, Backed, Req, world, evidence
    <3>. QED
      BY <3>2, <3>3, <3>4 DEF Honest
  <2>. QED
    BY <1>1, <2>1, <2>2
<1>5. ASSUME NEW s \in Reviewer
      PROVE  Reviewing(s)'
  <2>1. CASE s = r
    BY <2>1
  <2>2. CASE s # r
    <3>1. review'[s] = review[s]
      BY <2>2 DEF IInv, Shapes
    <3>2. \A c \in Call : row[c].status = "succeeded" =>
              /\ row'[c] = row[c] /\ Req(c)' = Req(c)
              /\ IsCard(card[c]) =>
                    /\ IsCard(card'[c])
                    /\ card[c].review # "pending_review" => card'[c].review = card[c].review
      BY <1>1 DEF Req
    <3>. QED
      BY <3>1, <3>2, Unreviewed DEF IInv
  <2>. QED
    BY <2>1, <2>2
<1>. QED
  BY <1>3, <1>4, <1>5 DEF IInv

LEMMA LookStep ==
    ASSUME IInv, NEW r \in Reviewer, NEW c \in Call, NEW d \in {"approved", "rejected"},
           Look(r, c, d)
    PROVE  IInv'
<1>1. /\ review[r] \in ReviewType /\ review[r].at = "idle" /\ review[r].seen = << >>
      /\ card[c] # NoCard /\ IsCard(card[c]) /\ row[c].status = "succeeded"
      /\ Ask(c) \in Seq(Evidence)
  BY CallTyped DEF Look, Looks, IInv, Shapes, Honest, Backed, Reviewing
<1>2. PICK place \in {"done", "decide", "resolve"}, answer \in {"conflict", Unanswered} :
         review' = [review EXCEPT ![r] = [review[r] EXCEPT !.of = c, !.decision = d,
                                                           !.at = place, !.answer = answer]]
  BY DEF Look, IInv, Shapes
<1>. DEFINE next == [review[r] EXCEPT !.of = c, !.decision = d, !.at = place,
                                      !.answer = answer]
<1>3. next \in ReviewType
  BY <1>1 DEF ReviewType, Unanswered
<1>4. /\ next.of = c /\ next.decision = d /\ next.at = place /\ next.answer = answer
      /\ next.seen = << >>
  BY <1>1 DEF ReviewType
<1>. HIDE DEF next
<1>5. review'[r] = next
  BY <1>2 DEF next, IInv, Shapes
<1>6. UNCHANGED <<world, call, row, writer, card>>
  BY DEF Look, NoWorld, NoCall
<1>7. Len(<< >>) <= Len(Ask(c)) /\ Known(<< >>)
  BY <1>1 DEF Known
<1>8. Reviewing(r)'
  BY <1>1, <1>4, <1>5, <1>6, <1>7 DEF Reviewing, Of, Ask, Req, Unanswered
<1>. QED
  BY <1>2, <1>3, <1>6, <1>8, ReviewerStep DEF next

LEMMA ReviewStep ==
    ASSUME IInv, NEW r \in Reviewer, Review(r)
    PROVE  IInv'
<1>. DEFINE c == Of(r)  ids == Ask(c)  e == ids[Len(review[r].seen) + 1]
<1>1. /\ review[r] \in ReviewType /\ review[r].at = "resolve" /\ c \in Call
      /\ review[r].decision \in {"approved", "rejected"} /\ IsCard(card[c])
      /\ row[c].status = "succeeded" /\ Len(review[r].seen) <= Len(ids)
      /\ Known(review[r].seen) /\ review[r].answer # "recorded"
  BY DEF Review, Looks, IInv, Shapes, Reviewing
<1>2. ids \in Seq(Evidence) /\ review[r].seen \in Seq(FactType)
  BY <1>1, CallTyped DEF ReviewType
<1>3. UNCHANGED <<world, call, row, writer, card>>
  BY DEF Review, NoWorld, NoCall
<1>4. CASE \E place \in {"decide", "done"}, answer \in {review[r].answer, "conflict"} :
             review' = [review EXCEPT ![r] = [review[r] EXCEPT !.at = place,
                                                               !.answer = answer]]
  <2>1. PICK place \in {"decide", "done"}, answer \in {review[r].answer, "conflict"} :
             review' = [review EXCEPT ![r] = [review[r] EXCEPT !.at = place,
                                                               !.answer = answer]]
    BY <1>4
  <2>. DEFINE next == [review[r] EXCEPT !.at = place, !.answer = answer]
  <2>2. next \in ReviewType
    BY <1>1 DEF ReviewType
  <2>3. /\ next.of = c /\ next.decision = review[r].decision /\ next.at = place
        /\ next.answer = answer /\ next.seen = review[r].seen
    BY <1>1 DEF ReviewType, Of
  <2>. HIDE DEF next
  <2>4. review'[r] = next
    BY <2>1 DEF next, IInv, Shapes
  <2>5. Reviewing(r)'
    BY <1>1, <1>3, <2>3, <2>4 DEF Reviewing, Of, Ask, Req
  <2>. QED
    BY <1>3, <2>1, <2>2, <2>5, ReviewerStep DEF next
<1>5. CASE /\ Len(review[r].seen) # Len(ids)
           /\ review' = [review EXCEPT ![r].seen = Append(@, Resolved(e))]
  <2>. DEFINE read == Append(review[r].seen, Resolved(e))
              next == [review[r] EXCEPT !.seen = read]
  <2>1. e \in Evidence
    BY <1>1, <1>2, <1>5
  <2>2. Resolved(e) \in FactType /\ Resolved(e).ident <= MaxWrites
    BY <2>1, ResolvedType DEF IInv
  <2>3. read \in Seq(FactType) /\ Known(read) /\ Len(read) <= Len(ids)
    BY <1>1, <1>2, <1>5, <2>2, AppendKnown
  <2>4. next \in ReviewType
    BY <1>1, <2>3 DEF ReviewType
  <2>5. /\ next.of = c /\ next.decision = review[r].decision /\ next.at = "resolve"
        /\ next.answer = review[r].answer /\ next.seen = read
    BY <1>1 DEF ReviewType, Of
  <2>6. review' = [review EXCEPT ![r] = next]
    BY <1>5 DEF IInv, Shapes
  <2>. HIDE DEF next, read
  <2>7. review'[r] = next
    BY <2>6 DEF IInv, Shapes
  <2>8. Reviewing(r)'
    BY <1>1, <1>3, <2>3, <2>5, <2>7 DEF Reviewing, Of, Ask, Req
  <2>. QED
    BY <1>3, <2>4, <2>6, <2>8, ReviewerStep
<1>. QED
  BY <1>4, <1>5 DEF Review, Reply, IInv, Shapes, ReviewType

LEMMA DecideStep ==
    ASSUME IInv, NEW r \in Reviewer, Decide(r)
    PROVE  IInv'
<1>. DEFINE c == Of(r)  d == review[r].decision
            decided == [card EXCEPT ![c].review = d]
<1>1. /\ review[r] \in ReviewType /\ review[r].at = "decide" /\ c \in Call
      /\ d \in {"approved", "rejected"} /\ IsCard(card[c])
      /\ row[c].status = "succeeded" /\ Len(review[r].seen) <= Len(Ask(c))
      /\ Known(review[r].seen)
  BY DEF Decide, Looks, IInv, Shapes, Reviewing
<1>2. UNCHANGED <<world, call, row, writer>>
  BY DEF Decide, NoWorld, NoCall
<1>3. PICK answer \in {"recorded", "conflict", "error"} :
         /\ Reply(r, answer) /\ card' \in {card, decided}
         /\ card' # card => card[c].review = "pending_review"
         /\ answer = "recorded" => card' = decided /\ card[c].review = "pending_review"
  BY DEF Decide, Reviewable
<1>. DEFINE next == [review[r] EXCEPT !.at = "done", !.answer = answer]
<1>4. next \in ReviewType
  BY <1>1 DEF ReviewType
<1>5. /\ next.of = c /\ next.decision = d /\ next.at = "done" /\ next.answer = answer
      /\ next.seen = review[r].seen
  BY <1>1 DEF ReviewType, Of
<1>6. review' = [review EXCEPT ![r] = next]
  BY <1>3 DEF Reply, IInv, Shapes
<1>. HIDE DEF next
<1>7. review'[r] = next
  BY <1>6 DEF IInv, Shapes
<1>8. IsCard(card'[c]) /\ (answer = "recorded" => card'[c].review = d)
  <2>1. d \in Reviews
    BY <1>1 DEF Reviews
  <2>2. decided[c] = [card[c] EXCEPT !.review = d]
    BY <1>1 DEF IInv, Shapes
  <2>3. IsCard([card[c] EXCEPT !.review = d]) /\ [card[c] EXCEPT !.review = d].review = d
    BY <1>1, <2>1, CardProperties
  <2>. QED
    BY <1>1, <1>3, <2>2, <2>3
<1>9. Reviewing(r)'
  BY <1>1, <1>2, <1>5, <1>7, <1>8 DEF Reviewing, Of, Ask, Req
<1>10. \/ card' = card
       \/ /\ row[c].status = "succeeded" /\ IsCard(card[c])
          /\ card[c].review = "pending_review" /\ card' = decided
  BY <1>1, <1>3
<1>. QED
  BY <1>1, <1>2, <1>4, <1>6, <1>9, <1>10, ReviewerStep

LEMMA OutsideStep ==
    ASSUME IInv, Outside
    PROVE  IInv'
<1>1. /\ UNCHANGED <<call, row, card, review, writer>> /\ result' = result
      /\ file' \in [Bound -> [ident : Nat, intact : BOOLEAN]]
      /\ \A e \in Bound : file[e].ident <= file'[e].ident /\ file'[e].ident <= writes'
      /\ writes' \in 0..MaxWrites /\ beside' \in [Shop -> SUBSET Sides]
      /\ journal' \in [Note -> {"committed", "claimed", "inconsistent"}]
      /\ \A n \in Note : journal[n] = "committed" /\ writer # Nobody =>
                          journal'[n] = "committed"
  <2>1. ASSUME NEW e \in Bound, WriteResult(e), UNCHANGED <<call, row, card, review, writer>>
        PROVE  <1>1!:
    BY <2>1, BoundsAssumption, SMT DEF WriteResult, IInv, Shapes
  <2>2. ASSUME NEW s \in Shop, WriteBeside(s), UNCHANGED <<call, row, card, review, writer>>
        PROVE  <1>1!:
    BY <2>2, BoundsAssumption, SMT DEF WriteBeside, IInv, Shapes
  <2>3. ASSUME NEW n \in Note, ClaimJournal(n) \/ SettleJournal(n),
               UNCHANGED <<call, row, card, review, writer>>
        PROVE  <1>1!:
    BY <2>3, SMT DEF ClaimJournal, SettleJournal, IInv, Shapes
  <2>. QED
    BY <2>1, <2>2, <2>3, Zenon DEF Outside
<1>2. Shapes'
  BY <1>1 DEF IInv, Shapes
<1>3. \A c \in Call : Honest(c)'
  BY <1>1, <1>2, Undisturbed DEF IInv
<1>4. \A r \in Reviewer : Reviewing(r)'
  BY <1>1, Unreviewed DEF IInv, Req
<1>. QED
  BY <1>2, <1>3, <1>4 DEF IInv

-----------------------------------------------------------------------------
(***************************************************************************)
(* Theorems                                                                *)
(***************************************************************************)
LEMMA InitIInv == Init => IInv
<1>. SUFFICES ASSUME Init PROVE IInv
  OBVIOUS
<1>1. Waiting.req \in Requests /\ Waiting.req.ids \in Seq(Evidence)
  BY EvidenceAssumption DEF Waiting
<1>2. /\ Waiting.at = "idle" /\ Waiting.seen = << >> /\ Waiting.now = << >>
      /\ Waiting.staged = NoRow /\ Waiting.answer = Unanswered
      /\ NoRow \in RowType /\ NoRow.status = "none"
  BY DEF Waiting, NoRow, RowType, Statuses
<1>3. Waiting \in CallType
  BY <1>1, <1>2 DEF Waiting, CallType, Places, Answers
<1>4. Silent \in ReviewType /\ Silent.at = "idle" /\ Silent.seen = << >>
      /\ Silent.answer = Unanswered
  BY DEF Silent, ReviewType, Nobody, Unanswered
<1>5. Shapes
  BY <1>2, <1>3, <1>4, BoundsAssumption, SMT DEF Init, Shapes
<1>6. /\ Known(<< >>) /\ Vouched(<< >>, result)
      /\ \A ids \in Seq(Evidence) : Len(<< >>) <= Len(ids)
  BY DEF Known, Vouched
<1>7. ASSUME NEW c \in Call
      PROVE  Honest(c)
  <2>1. call[c] = Waiting /\ row[c] = NoRow /\ card[c] = NoCard /\ writer # c
    BY EvidenceAssumption DEF Init, Nobody
  <2>2. Staged(c) /\ Counted(c)
    BY <1>1, <1>2, <1>6, <2>1 DEF Staged, Counted, At, Holding, Ask, Req
  <2>3. Sealing(c) /\ Accepted(c) /\ Told(c) /\ Backed(c)
    BY <1>2, <2>1 DEF Sealing, Accepted, Told, Backed, At, Unanswered
  <2>. QED
    BY <2>2, <2>3 DEF Honest
<1>8. ASSUME NEW r \in Reviewer
      PROVE  Reviewing(r)
  BY <1>4, <1>6 DEF Init, Reviewing, Unanswered
<1>. QED
  BY <1>5, <1>7, <1>8 DEF IInv

LEMMA NextIInv == IInv /\ [Next]_vars => IInv'
<1>. SUFFICES ASSUME IInv, [Next]_vars PROVE IInv'
  OBVIOUS
<1>1. ASSUME NEW c \in Call, Step(c)
      PROVE  IInv'
  BY <1>1, BeginStep, ResolveStep, ScreenStep, AskModelStep, PersistStep, ReserveStep,
     RereadStep, FlushStep, CompareStep, CommitStep, ProbeStep DEF Step
<1>2. ASSUME NEW r \in Reviewer,
             \/ \E c \in Call, d \in {"approved", "rejected"} : Look(r, c, d)
             \/ Review(r) \/ Decide(r)
      PROVE  IInv'
  BY <1>2, LookStep, ReviewStep, DecideStep
<1>3. CASE UNCHANGED vars
  <2>1. UNCHANGED <<call, row, card, review, writer, result, file, beside, journal, writes>>
    BY <1>3 DEF vars, world, evidence
  <2>2. Shapes'
    BY <2>1 DEF IInv, Shapes
  <2>3. \A e \in Bound : file[e].ident <= file'[e].ident
    BY <2>1, SMT DEF IInv, Shapes
  <2>4. \A c \in Call : Honest(c)'
    BY <2>1, <2>2, <2>3, Undisturbed DEF IInv
  <2>5. \A r \in Reviewer : Reviewing(r)'
    BY <2>1, Unreviewed DEF IInv, Req
  <2>. QED
    BY <2>2, <2>4, <2>5 DEF IInv
<1>. QED
  BY <1>1, <1>2, <1>3, OutsideStep DEF Next

\* Every reachable state of create() and review_opportunity satisfies the inductive
\* invariant, whatever is asked, answered, written beside them or fails.
THEOREM AnalysisInductive == Spec => []IInv
BY InitIInv, NextIInv, PTL DEF Spec

\* Every column of a request and of a review has the values the code gives it, and
\* the write reservation is held from BEGIN IMMEDIATE to the end of the transaction.
THEOREM ShapesAlwaysHold == Spec => []TypeOK
<1>1. IInv => TypeOK
  <2>. SUFFICES ASSUME IInv PROVE TypeOK
    OBVIOUS
  <2>1. ASSUME NEW facts \in Seq(FactType), Known(facts)
        PROVE  Facts(facts)
    <3>1. ASSUME NEW i \in DOMAIN facts
          PROVE  facts[i].id \in Evidence /\ facts[i].trusted \in BOOLEAN
                 /\ facts[i].ident \in 0..MaxWrites
      <4>1. facts[i] \in FactType
        BY <3>1
      <4>. QED
        BY <2>1, <3>1, <4>1, BoundsAssumption DEF FactType, Known
    <3>. QED
      BY <3>1 DEF Facts
  <2>2. ASSUME NEW e \in Bound
        PROVE  file[e].ident \in 0..MaxWrites /\ file[e].intact \in BOOLEAN
    BY <2>2, BoundsAssumption, SMT DEF IInv, Shapes
  <2>3. ASSUME NEW c \in Call
        PROVE  /\ Req(c) \in Requests /\ Facts(call[c].seen) /\ Facts(call[c].now)
               /\ call[c].answer \in Answers
               /\ (call[c].answer # Unanswered) = At(c, "done")
               /\ row[c].status \in {"none", "succeeded", "failed", "needs_human"}
               /\ card[c] = NoCard
                  \/ card[c].review \in {"pending_review", "approved", "rejected"}
               /\ writer = c <=> call[c].at \in {"reread", "compare", "commit"}
    <3>1. call[c] \in CallType /\ row[c] \in RowType
      BY CallTyped
    <3>2. card[c] = NoCard \/ card[c].review \in Reviews
      BY CallTyped, CardProperties
    <3>3. Facts(call[c].seen) /\ Facts(call[c].now)
      BY <3>1, <2>1 DEF IInv, Honest, Counted, CallType
    <3>4. Staged(c)
      BY DEF IInv, Honest
    <3>. QED
      BY <3>1, <3>2, <3>3, <3>4
      DEF Staged, Holding, CallType, RowType, Statuses, Reviews, At, Req
  <2>4. ASSUME NEW r \in Reviewer
        PROVE  /\ Facts(review[r].seen)
               /\ review[r].answer \in {Unanswered, "recorded", "conflict", "error"}
    BY <2>1 DEF IInv, Shapes, Reviewing, ReviewType
  <2>. QED
    BY <2>2, <2>3, <2>4 DEF TypeOK, IInv, Shapes
<1>. QED
  BY <1>1, AnalysisInductive, PTL

\* Although no lock covers the files, all the evidence a success is sealed over stood
\* at one moment: when its row was flushed (create).
THEOREM SealsAreAlwaysTrue == Spec => []SealedIsTrue
<1>1. IInv => SealedIsTrue
  BY DEF IInv, Honest, Sealing, Sealed, SealedIsTrue
<1>. QED
  BY <1>1, AnalysisInductive, PTL

\* Whatever commit fails or lands unacknowledged, a caller is told what the database
\* holds or that it is not known (_classify_success_commit).
THEOREM AnswersAreAlwaysTrue == Spec => []AnswerIsTrue
<1>1. IInv => AnswerIsTrue
  BY DEF IInv, Honest, Told, AnswerIsTrue
<1>. QED
  BY <1>1, AnalysisInductive, PTL

\* Whatever the model answers, each account of a card is backed by its own note and
\* its own complete or exactly sampled shop (_validated_opportunity_projection).
THEOREM CardsAreAlwaysBacked == Spec => []CardsAreBacked
<1>1. IInv => CardsAreBacked
  BY DEF IInv, Honest, Backed, Rests, Solid, CardsAreBacked
<1>. QED
  BY <1>1, AnalysisInductive, PTL

\* A decision that was recorded stands, however many people decide at once
\* (review_opportunity and the trigger of its table).
THEOREM TheReviewAlwaysStands == Spec => []TheReviewStands
<1>1. IInv => TheReviewStands
  BY DEF IInv, Reviewing, TheReviewStands
<1>. QED
  BY <1>1, AnalysisInductive, PTL
=============================================================================
