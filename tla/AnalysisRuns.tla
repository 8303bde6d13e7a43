---------------------------- MODULE AnalysisRuns ----------------------------
(***************************************************************************)
(* Grounded analyses and opportunity cards (features/analysis/service.py). *)
(* A request names evidence; the service reads it, shows it to the model,  *)
(* checks what the model answers, reads the evidence again under the write *)
(* reservation of SQLite, seals it into the row it inserts and compares    *)
(* the files once more before it commits.  A person then approves or       *)
(* rejects the card, once.                                                 *)
(*                                                                         *)
(* Everything the service reads may change under it: a file of the runtime *)
(* directory is written by name, and another process that starts on the    *)
(* same database takes the journal of a collected account into its hands.  *)
(* A commit may fail, or land and not be acknowledged.                     *)
(***************************************************************************)
EXTENDS Naturals, Sequences, FiniteSets

CONSTANTS Call,       \* POST /api/v1/analyses
          Reviewer,   \* POST /api/v1/opportunities/{id}/review
          Shop, Note, RankItem, \* evidence: shop results, account notes, rank rows
          Owner,      \* [Evidence -> account]
          Requests,   \* [kind, scope, ids]: what a caller may ask
          Outputs,    \* what a model may answer
          Results,    \* [Shop -> what its result file may say]
          NoCard,
          MaxWrites,  \* files written behind the service's back
          MaxClaims,  \* journals taken by a process that starts
          MaxFaults   \* database errors

Evidence == Shop \union Note \union RankItem
Bound    == Shop \union Note
Account  == {Owner[e] : e \in Evidence}
Nobody   == "nobody"
Unanswered == "none"

ASSUME EvidenceAssumption ==
    /\ Shop \intersect Note = {} /\ RankItem \intersect Bound = {}
    /\ Requests # {} /\ "nobody" \notin Call
    /\ \A r \in Requests : r.kind \in {"account_report", "product_cluster"}
                           /\ r.ids \in Seq(Evidence) /\ IsFiniteSet(r.scope)
                           /\ (r.kind = "account_report") = (Cardinality(r.scope) = 1)
\* The answer is parsed by a schema: each account of a card has a shop and a note.
ASSUME OutputsAssumption ==
    \A o \in Outputs : o.card # NoCard =>
        /\ \A a \in DOMAIN o.card.shops : o.card.shops[a] # {} /\ o.card.notes[a] # {}
        /\ \A v \in {"pending_review", "approved", "rejected"},
              l \in {"validated_candidate", "warming_candidate"} :
              [review |-> v, level |-> l,
               shops |-> o.card.shops, notes |-> o.card.notes] # NoCard
ASSUME BoundsAssumption ==
    MaxWrites \in Nat /\ MaxClaims \in Nat /\ MaxFaults \in Nat

VARIABLES
    result,  \* what each shop result says
    file,    \* of the evidence that is bound to a file: identity, and bytes intact
    beside,  \* of a shop: which files beside its result are as they were written
    journal, \* of a note: the journal row of its collection
    call, row, card, \* requests; analyses; the opportunity of an analysis
    review,  \* review requests
    writer,  \* who holds the write reservation
    writes, claims, faults

evidence == <<result, file, beside, journal>>
world    == <<evidence, writes, claims>>
vars     == <<world, call, row, card, review, writer, faults>>

Sides    == {"artifacts", "sample", "gate"}
NoRow    == [status |-> "none", sealed |-> << >>]
Waiting  == [at |-> "idle", req |-> CHOOSE r \in Requests : TRUE, seen |-> << >>,
             now |-> << >>, output |-> NoCard, staged |-> NoRow, flushed |-> << >>,
             left |-> 0, answer |-> Unanswered]
Silent   == [at |-> "idle", of |-> Nobody, decision |-> "none", seen |-> << >>,
             answer |-> Unanswered]

Init ==
    /\ result  \in {f \in [Shop -> UNION {Results[s] : s \in Shop}] :
                     \A s \in Shop : f[s] \in Results[s]}
    /\ file    = [e \in Bound |-> [ident |-> 0, intact |-> TRUE]]
    /\ beside  = [s \in Shop |-> Sides]
    /\ journal = [n \in Note |-> "committed"]
    /\ call    = [c \in Call |-> Waiting]
    /\ row     = [c \in Call |-> NoRow]
    /\ card    = [c \in Call |-> NoCard]
    /\ review  = [r \in Reviewer |-> Silent]
    /\ writer  = Nobody
    /\ writes  = 0 /\ claims = 0 /\ faults = 0

(***************************************************************************)
(* What a shop result must say                                             *)
(***************************************************************************)
\* Every product of the sample was found, fetched and verified, and no other.
ExactSample(x, mode, n, exactAvailable) ==
    /\ x.mode = mode /\ x.verified
    /\ x.expected = n /\ x.collected = n /\ x.raw = n /\ x.distinct = n
    /\ x.rejected = 0 /\ x.duplicates = 0
    /\ IF exactAvailable THEN x.available = n ELSE x.available >= n

ExactBounded(x)  == ExactSample(x, "bounded_sample", 3, FALSE)

\* A shop of one or two products is its own sample, if its end was reached.
ExactEvidence(x) ==
    IF x.expected \in {1, 2}
    THEN x.ended /\ ExactSample(x, "evidence_sample", x.expected, TRUE)
    ELSE ExactSample(x, "evidence_sample", 3, FALSE)

\* The job says how much was asked for; a sample also has its files and its gate.
TrustedMode(x) == x.mode = "full_shop" \/ ExactBounded(x) \/ ExactEvidence(x)

\* Every row that was observed and not collected is a duplicate of one that was.
Complete(x) ==
    /\ x.verified /\ x.expected > 0
    /\ x.collected = x.expected /\ x.distinct = x.expected
    /\ x.rejected = x.duplicates /\ x.raw = x.collected + x.rejected

\* Each product of a complete shop needs a picture; a sample is verified with its own.
Pictured(x) == x.mode = "evidence_sample" \/ x.pictured

(***************************************************************************)
(* Reading evidence                                                        *)
(***************************************************************************)
\* A file is read whole under one identity, or not at all.
Readable(e) == file[e].intact

\* The journal of the collection is closed and committed, and nobody is settling it.
JournalStands(n) == journal[n] = "committed"

\* It is the very file the journal describes, not one of the same bytes.
SameFile(n) == Readable(n) /\ file[n].ident = 0

\* The rows of profile and notes cannot change: they match the items of the file as
\* long as it says what it said when they were written.
RowsMatch(n) == Readable(n)

TrustedNote(n) == JournalStands(n) /\ SameFile(n) /\ RowsMatch(n)

\* The files beside a result: what its artifact rows digest, the indexes and
\* pictures of a sample, and the gate that found the shop in scope.
ArtifactsMatch(s) == "artifacts" \in beside[s]
SampleMatches(s)  == result[s].mode = "full_shop" \/ "sample" \in beside[s]
InScope(s)        == result[s].mode # "evidence_sample" \/ "gate" \in beside[s]

\* Any file of the same bytes will do for a shop.
TrustedShop(s) ==
    /\ Readable(s) /\ TrustedMode(result[s])
    /\ ArtifactsMatch(s) /\ SampleMatches(s) /\ InScope(s)

Trusted(e) == /\ e \in Note => TrustedNote(e)
              /\ e \in Shop => TrustedShop(e)

\* One entry of a resolution: the fact, and the file it was read from.
Resolved(e) == [id |-> e, trusted |-> Trusted(e),
                ident |-> IF e \in Bound /\ Trusted(e) THEN file[e].ident ELSE 0]

\* EvidenceAccountMismatch, and EvidenceNotFound.
Refused(e, scope) == Owner[e] \notin scope \/ (e \in Note /\ ~TrustedNote(e))

Shops(facts) == {i \in DOMAIN facts : facts[i].id \in Shop}

\* _eligible_for_opportunity
Eligible(facts, scope) ==
    /\ \A i \in Shops(facts) :
         LET s == facts[i].id
         IN  /\ facts[i].trusted
             /\ result[s].mode # "bounded_sample"
             /\ result[s].mode = "evidence_sample" => ExactEvidence(result[s])
             /\ Complete(result[s])
    /\ {Owner[facts[i].id] : i \in Shops(facts)} = scope

(***************************************************************************)
(* Checking what the model answered                                        *)
(***************************************************************************)
Ids(facts) == {facts[i].id : i \in DOMAIN facts}

\* Every conclusion cites evidence of the request, and some.
Grounded(o, allowed) ==
    \A cited \in {o.claims, o.basis} \union {o.profiles[a] : a \in DOMAIN o.profiles}
                 \union (IF o.card = NoCard THEN {} ELSE {o.card.cites}) :
        cited # {} /\ cited \subseteq allowed

\* One profile for each account, from its own evidence; a conclusion that rests on
\* every account; no card without a demand they share.
DemandContract(o, scope) ==
    /\ DOMAIN o.profiles = scope
    /\ \A a \in scope : \A e \in o.profiles[a] : Owner[e] = a
    /\ {Owner[e] : e \in o.basis} = scope
    /\ o.shared \/ o.card = NoCard

\* Mutant of Supports: a shop result supports an account that does not own it.
SupportsAnyone(k, a) ==
    /\ k.shops[a] \union k.notes[a] \subseteq k.cites
    /\ \A e \in k.shops[a] : e \in Shop /\ Pictured(result[e])
    /\ \A e \in k.notes[a] : e \in Note /\ Owner[e] = a

Supports(k, a) ==
    /\ k.shops[a] \union k.notes[a] \subseteq k.cites
    /\ \A e \in k.shops[a] : e \in Shop /\ Owner[e] = a /\ Pictured(result[e])
    /\ \A e \in k.notes[a] : e \in Note /\ Owner[e] = a

Projectable(k, scope) ==
    /\ Cardinality(scope) >= 2
    /\ DOMAIN k.shops = scope
    /\ \A a \in scope : Supports(k, a)

Level(scope) == IF Cardinality(scope) >= 3 THEN "validated_candidate"
                                           ELSE "warming_candidate"

Acceptable(o, req, facts) ==
    /\ Grounded(o, Ids(facts))
    /\ req.kind = "account_report" => o.card = NoCard
    /\ req.kind # "account_report" => DemandContract(o, req.scope)
    /\ o.card # NoCard => /\ Eligible(facts, req.scope)
                          /\ Projectable(o.card, req.scope)

\* product_cluster, account_opportunity, and whatever looks at a shop.
NeedsShop(c) == \/ call[c].req.kind # "account_report"
                \/ Shops(call[c].seen) # {}

(***************************************************************************)
(* create(): until the model has answered                                  *)
(***************************************************************************)
At(c, place)   == call[c].at = place
Req(c)         == call[c].req
Ask(c)         == Req(c).ids
Next1(facts, c) == Ask(c)[Len(facts) + 1]
Go(c, place)   == call' = [call EXCEPT ![c].at = place]
Answer(c, a)   == call' = [call EXCEPT ![c].at = "done", ![c].answer = a]
NoWorld        == UNCHANGED world
Fault          == faults < MaxFaults /\ faults' = faults + 1
NoFault        == UNCHANGED faults
NoReview       == UNCHANGED review

Begin(c) ==
    /\ At(c, "idle")
    /\ \E req \in Requests :
         call' = [call EXCEPT ![c].at = "resolve", ![c].req = req]
    /\ NoWorld /\ NoFault /\ NoReview /\ UNCHANGED <<row, card, writer>>

\* The first reading holds no lock: each piece of evidence is read at its own time.
Resolve(c) ==
    /\ At(c, "resolve") /\ Len(call[c].seen) < Len(Ask(c))
    /\ LET e == Next1(call[c].seen, c)
       IN  IF Refused(e, Req(c).scope)
           THEN Answer(c, "refused")
           ELSE call' = [call EXCEPT ![c].seen = Append(@, Resolved(e))]
    /\ NoWorld /\ NoFault /\ NoReview /\ UNCHANGED <<row, card, writer>>

Screen(c) ==
    /\ At(c, "resolve") /\ Len(call[c].seen) = Len(Ask(c))
    /\ IF NeedsShop(c) /\ ~Eligible(call[c].seen, Req(c).scope)
       THEN call' = [call EXCEPT ![c].at = "persist", ![c].staged.status = "needs_human"]
       ELSE Go(c, "model")
    /\ NoWorld /\ NoFault /\ NoReview /\ UNCHANGED <<row, card, writer>>

AskModel(c) ==
    /\ At(c, "model")
    /\ \/ \E o \in Outputs :
            /\ Acceptable(o, Req(c), call[c].seen)
            /\ call' = [call EXCEPT ![c].at = "reserve", ![c].output = o]
       \/ call' = [call EXCEPT ![c].at = "persist", ![c].staged.status = "failed"]
    /\ NoWorld /\ NoFault /\ NoReview /\ UNCHANGED <<row, card, writer>>

\* _persist_failure: a transaction of its own.
Persist(c) ==
    /\ At(c, "persist") /\ writer = Nobody
    /\ \/ NoFault /\ row' = [row EXCEPT ![c] = call[c].staged]
          /\ Answer(c, call[c].staged.status)
       \/ Fault /\ row' \in {row, [row EXCEPT ![c] = call[c].staged]}
          /\ Answer(c, "error")
    /\ NoWorld /\ NoReview /\ UNCHANGED <<card, writer>>

(***************************************************************************)
(* create(): the transaction of a success                                  *)
(***************************************************************************)
\* BEGIN IMMEDIATE, the first time and after a rollback.
Reserve(c) ==
    /\ call[c].at \in {"reserve", "again"}
    /\ \/ /\ writer = Nobody /\ writer' = c /\ NoFault
          /\ IF At(c, "reserve") THEN Go(c, "reread")
             ELSE call' = [call EXCEPT ![c].at = "commit",
                                       ![c].staged = [NoRow EXCEPT !.status = "needs_human"]]
       \/ writer # Nobody /\ Fault /\ Answer(c, "error") /\ UNCHANGED writer
    /\ NoWorld /\ NoReview /\ UNCHANGED <<row, card>>

\* No row can change now, but every file can.
Reread(c) ==
    /\ At(c, "reread") /\ Len(call[c].now) < Len(Ask(c))
    /\ LET e == Next1(call[c].now, c)
       IN  call' = IF Refused(e, Req(c).scope)
                   THEN [call EXCEPT ![c].at = "commit", ![c].staged.status = "needs_human"]
                   ELSE [call EXCEPT ![c].now = Append(@, Resolved(e))]
    /\ NoWorld /\ NoFault /\ NoReview /\ UNCHANGED <<row, card, writer>>

\* The trust fingerprint: facts, trust and file identities.
SameEvidence(c) == call[c].now = call[c].seen

\* History variable: the files and journals as they are while the row is flushed.
Standing(c) == [i \in DOMAIN Ask(c) |->
                  LET e == Ask(c)[i]
                  IN  [ident |-> IF e \in Bound /\ call[c].now[i].trusted
                                 THEN file[e].ident ELSE 0,
                       open  |-> e \in Note /\ journal[e] # "committed"]]

Flush(c) ==
    /\ At(c, "reread") /\ Len(call[c].now) = Len(Ask(c))
    /\ call' = IF SameEvidence(c)
               THEN [call EXCEPT ![c].at = "compare", ![c].left = Len(Ask(c)),
                                 ![c].flushed = Standing(c),
                                 ![c].staged = [status |-> "succeeded",
                                                sealed |-> call[c].now]]
               ELSE [call EXCEPT ![c].at = "commit", ![c].staged.status = "needs_human"]
    /\ NoWorld /\ NoFault /\ NoReview /\ UNCHANGED <<row, card, writer>>

\* Mutant of StillBound: the name is not compared with the identity that was read.
NamedOnly(fact) == fact.id \in Bound => TRUE

\* _artifact_bindings_still_current, one file after the other.
StillBound(fact) ==
    fact.id \in Bound /\ fact.trusted => file[fact.id].ident = fact.ident

\* Mutant of Compare: the transaction is not rolled back.
CompareHolding(c) ==
    /\ At(c, "compare") /\ call[c].left > 0
    /\ IF StillBound(call[c].now[Len(Ask(c)) - call[c].left + 1])
       THEN /\ call' = [call EXCEPT ![c].left = @ - 1,
                                    ![c].at = IF call[c].left = 1 THEN "commit" ELSE @]
            /\ UNCHANGED writer
       ELSE Go(c, "again") /\ UNCHANGED writer
    /\ NoWorld /\ NoFault /\ NoReview /\ UNCHANGED <<row, card>>

Compare(c) ==
    /\ At(c, "compare") /\ call[c].left > 0
    /\ IF StillBound(call[c].now[Len(Ask(c)) - call[c].left + 1])
       THEN /\ call' = [call EXCEPT ![c].left = @ - 1,
                                    ![c].at = IF call[c].left = 1 THEN "commit" ELSE @]
            /\ UNCHANGED writer
       ELSE Go(c, "again") /\ writer' = Nobody
    /\ NoWorld /\ NoFault /\ NoReview /\ UNCHANGED <<row, card>>

\* What the row of a success carries to the review.
CardOf(c) ==
    LET k == call[c].output.card
    IN  IF k = NoCard THEN NoCard
        ELSE [review |-> "pending_review", level |-> Level(Req(c).scope),
              shops |-> k.shops, notes |-> k.notes]

Insert(c) ==
    /\ row' = [row EXCEPT ![c] = call[c].staged]
    /\ card' = IF call[c].staged.status = "succeeded"
               THEN [card EXCEPT ![c] = CardOf(c)] ELSE card

\* Only the commit of a success is classified when it raises.
Commit(c) ==
    /\ At(c, "commit") /\ writer = c /\ writer' = Nobody
    /\ \/ NoFault /\ Insert(c) /\ Answer(c, call[c].staged.status)
       \/ /\ Fault
          /\ Insert(c) \/ UNCHANGED <<row, card>>
          /\ IF call[c].staged.status = "succeeded"
             THEN call' = [call EXCEPT ![c].at = "probe", ![c].left = 2]
             ELSE Answer(c, "error")
    /\ NoWorld /\ NoReview

\* Mutant of Verdict: a row that cannot be matched is taken for the absence of one.
HastyVerdict(c) == IF row[c] = call[c].staged /\ card[c] = CardOf(c)
                   THEN "succeeded" ELSE "rolled_back"

\* _probe_success_commit: the graph must be the expected one to the last column.
Verdict(c) == IF row[c] = NoRow THEN "rolled_back"
              ELSE IF row[c] = call[c].staged /\ card[c] = CardOf(c)
                   THEN "succeeded" ELSE "unknown"

Probe(c) ==
    /\ At(c, "probe")
    /\ \/ NoFault /\ Answer(c, Verdict(c))
       \/ /\ Fault
          /\ IF call[c].left = 1 THEN Answer(c, "unknown")
             ELSE call' = [call EXCEPT ![c].left = @ - 1]
    /\ NoWorld /\ NoReview /\ UNCHANGED <<row, card, writer>>

(***************************************************************************)
(* review_opportunity                                                      *)
(***************************************************************************)
Looks(r, place)  == review[r].at = place
Of(r)            == review[r].of
Reply(r, answer) == review' = [review EXCEPT ![r].at = "done", ![r].answer = answer]
NoCall           == UNCHANGED call

\* The card is read without a lock, and an approval asks for a shared demand.
Look(r, c, decision) ==
    /\ Looks(r, "idle") /\ card[c] # NoCard
    /\ review' =
         [review EXCEPT ![r] =
            [@ EXCEPT !.of = c, !.decision = decision,
                !.at = IF card[c].review # "pending_review" THEN "done"
                       ELSE IF decision = "rejected" THEN "decide"
                       ELSE IF call[c].output.shared THEN "resolve" ELSE "done",
                !.answer = IF \/ card[c].review # "pending_review"
                              \/ decision = "approved" /\ ~call[c].output.shared
                           THEN "conflict" ELSE Unanswered]]
    /\ NoWorld /\ NoFault /\ NoCall /\ UNCHANGED <<row, card, writer>>

\* An approval reads the evidence of the analysis once more.
Review(r) ==
    /\ Looks(r, "resolve")
    /\ LET ids == Ask(Of(r)) seen == review[r].seen scope == Req(Of(r)).scope
       IN  IF Len(seen) = Len(ids)
           THEN IF Eligible(seen, scope)
                THEN review' = [review EXCEPT ![r].at = "decide"]
                ELSE Reply(r, "conflict")
           ELSE IF Refused(ids[Len(seen) + 1], scope) THEN Reply(r, "conflict")
           ELSE review' = [review EXCEPT ![r].seen = Append(@, Resolved(ids[Len(seen) + 1]))]
    /\ NoWorld /\ NoFault /\ NoCall /\ UNCHANGED <<row, card, writer>>

\* Mutant of Reviewable: neither the WHERE clause nor the trigger looks at the row.
AlwaysReviewable(c) == TRUE

\* The WHERE clause of the update, and the trigger behind it.
Reviewable(c) == card[c].review = "pending_review"

Decide(r) ==
    /\ Looks(r, "decide") /\ writer = Nobody
    /\ LET c == Of(r)
           decided == [card EXCEPT ![c].review = review[r].decision]
       IN  IF Reviewable(c)
           THEN \/ NoFault /\ card' = decided /\ Reply(r, "recorded")
                \/ Fault /\ card' \in {card, decided} /\ Reply(r, "error")
           ELSE NoFault /\ Reply(r, "conflict") /\ UNCHANGED card
    /\ NoWorld /\ NoCall /\ UNCHANGED <<row, writer>>

(***************************************************************************)
(* What happens to the evidence                                            *)
(***************************************************************************)
\* A file is replaced, by the same bytes or by others.
WriteResult(e) ==
    /\ writes < MaxWrites /\ writes' = writes + 1
    /\ \E intact \in BOOLEAN :
         file' = [file EXCEPT ![e] = [ident |-> @.ident + 1, intact |-> intact]]
    /\ UNCHANGED <<result, beside, journal, claims>>

WriteBeside(s) ==
    /\ writes < MaxWrites /\ writes' = writes + 1
    /\ \E side \in beside[s] : beside' = [beside EXCEPT ![s] = @ \ {side}]
    /\ UNCHANGED <<result, file, journal, claims>>

\* A process that starts takes the journal, and gives it back if the file is whole.
ClaimJournal(n) ==
    /\ writer = Nobody /\ claims < MaxClaims /\ claims' = claims + 1
    /\ journal[n] = "committed" /\ journal' = [journal EXCEPT ![n] = "claimed"]
    /\ UNCHANGED <<result, file, beside, writes>>

SettleJournal(n) ==
    /\ writer = Nobody /\ journal[n] = "claimed"
    /\ journal' = [journal EXCEPT ![n] = IF file[n].intact /\ file[n].ident = 0
                                         THEN "committed" ELSE "inconsistent"]
    /\ UNCHANGED <<result, file, beside, writes, claims>>

Outside ==
    /\ \/ \E e \in Bound : WriteResult(e)
       \/ \E s \in Shop : WriteBeside(s)
       \/ \E n \in Note : ClaimJournal(n) \/ SettleJournal(n)
    /\ UNCHANGED <<call, row, card, review, writer, faults>>

Step(c) == \/ Begin(c) \/ Resolve(c) \/ Screen(c) \/ AskModel(c) \/ Persist(c)
           \/ Reserve(c) \/ Reread(c) \/ Flush(c) \/ Compare(c) \/ Commit(c)
           \/ Probe(c)

Next == \/ \E c \in Call : Step(c)
        \/ \E r \in Reviewer : \/ \E c \in Call, d \in {"approved", "rejected"} : Look(r, c, d)
                               \/ Review(r) \/ Decide(r)
        \/ Outside

Spec == Init /\ [][Next]_vars

(***************************************************************************)
(* Properties                                                              *)
(***************************************************************************)
Facts(s) == \A i \in DOMAIN s : /\ s[i].id \in Evidence /\ s[i].trusted \in BOOLEAN
                                /\ s[i].ident \in 0..MaxWrites
Answers  == {Unanswered, "succeeded", "failed", "needs_human", "refused",
             "rolled_back", "unknown", "error"}

\* Every variable keeps the shape the code gives it, and the write reservation is
\* held by exactly the request that is between BEGIN IMMEDIATE and the end of its
\* transaction.
TypeOK ==
    /\ \A s \in Shop : result[s] \in Results[s] /\ beside[s] \subseteq Sides
    /\ \A e \in Bound : file[e].ident \in 0..MaxWrites /\ file[e].intact \in BOOLEAN
    /\ \A n \in Note : journal[n] \in {"committed", "claimed", "inconsistent"}
    /\ \A c \in Call :
         /\ Req(c) \in Requests /\ Facts(call[c].seen) /\ Facts(call[c].now)
         /\ call[c].answer \in Answers /\ (call[c].answer # Unanswered) = At(c, "done")
         /\ row[c].status \in {"none", "succeeded", "failed", "needs_human"}
         /\ card[c] = NoCard
            \/ card[c].review \in {"pending_review", "approved", "rejected"}
         /\ writer = c <=> call[c].at \in {"reread", "compare", "commit"}
    /\ \A r \in Reviewer : Facts(review[r].seen)
                           /\ review[r].answer \in {Unanswered, "recorded", "conflict", "error"}
    /\ writer \in Call \union {Nobody}

\* A success is sealed over the evidence the model was shown, and that evidence was
\* still standing, all of it at one moment, when the row was flushed under the write
\* reservation: each file had the identity that was read and no journal was open
\* (create, the final resolve and _artifact_bindings_still_current).
SealedIsTrue ==
    \A c \in Call : row[c].status = "succeeded" =>
        /\ row[c].sealed = call[c].seen
        /\ \A i \in DOMAIN row[c].sealed :
              /\ row[c].sealed[i].ident = call[c].flushed[i].ident
              /\ ~call[c].flushed[i].open

\* A caller that is told a status finds that row; one that is told its success was
\* rolled back, or its request refused, will never find one (_classify_success_commit).
AnswerIsTrue ==
    \A c \in Call :
        /\ call[c].answer \in {"succeeded", "failed", "needs_human"} =>
             row[c].status = call[c].answer
        /\ call[c].answer \in {"refused", "rolled_back"} => row[c] = NoRow

\* A card exists only with the success it belongs to, covers every account of its
\* request and at least two, and rests for each on that account's own note and own
\* shop: fully collected, or a sample that is exact, and pictured
\* (_validated_opportunity_projection, _eligible_for_opportunity).
CardsAreBacked ==
    \A c \in Call : card[c] # NoCard =>
        /\ row[c].status = "succeeded"
        /\ DOMAIN card[c].shops = Req(c).scope /\ Cardinality(Req(c).scope) >= 2
        /\ (card[c].level = "validated_candidate") = (Cardinality(Req(c).scope) > 2)
        /\ \A a \in Req(c).scope :
             /\ \E e \in card[c].notes[a] : Owner[e] = a
             /\ card[c].shops[a] # {}
             /\ \A e \in card[c].shops[a] :
                  /\ Owner[e] = a /\ e \in Ids(row[c].sealed)
                  /\ result[e].verified /\ result[e].distinct = result[e].expected
                  /\ \/ result[e].mode = "full_shop" /\ result[e].pictured
                     \/ /\ result[e].mode = "evidence_sample"
                        /\ result[e].expected < 3 => result[e].ended

\* Of several people who decide on one card, the one who is told the decision was
\* recorded finds it there ever after (review_opportunity and its trigger).
TheReviewStands ==
    \A r \in Reviewer : review[r].answer = "recorded" =>
        card[Of(r)].review = review[r].decision
=============================================================================
