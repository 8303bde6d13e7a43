---------------------------- MODULE QianfanProofs ----------------------------
(***************************************************************************)
(* Theorems about QianfanCollection, for any batches and any scopes.       *)
(*                                                                         *)
(* What is published is right because a batch waits only once and untouched*)
(* (Waiting), and because the thread works for the newest batch on scopes  *)
(* it has not begun (Working).  That close() settles everything needs the  *)
(* relation between its list, the thread and the job table (Closing).      *)
(***************************************************************************)
EXTENDS QianfanCollection, TLAPS

\* The places of a scope whose job has been claimed, those of them whose every
\* exit decides the job once admission is closed, and all places of a scope.
AfterClaim == {"collect", "exact", "short", "finalize", "build", "ingest",
               "untrusted", "hand_over", "raised", "report"}
Deciding   == ({"claim"} \union AfterClaim) \ {"report"}
InScope    == {"claim"} \union AfterClaim

\* A batch waits once, is not the one being executed, and nobody began it.
Waiting ==
    /\ \A i \in 1..Len(batches) : /\ batches[i] # cur
                                  /\ \A s \in Scopes :
                                        job[<<batches[i], s>>] \notin {"absent", "running", "succeeded"}
    /\ \A i, j \in 1..Len(batches) : i # j => batches[i] # batches[j]

\* What the thread knows of its batch and its scope.
Working ==
    /\ pc = "idle" <=> cur = None
    /\ pc # "idle" => \A s \in Scopes : job[<<cur, s>>] # "absent"
    /\ pc # "idle" => \A s \in todo : job[<<cur, s>>] \notin {"running", "succeeded"}
    /\ pc = "start" => todo = Scopes
    /\ pc \in InScope \union {"next"} => active = cur
    /\ pc \in InScope => scope \in Scopes \ todo
    /\ pc = "claim" => job[Mine] \notin {"running", "succeeded"}
    /\ pc \in AfterClaim => job[Mine] # "queued"

\* A process that is down has no memory; the list exists within close() only.
PhasesExclude ==
    /\ phase = "down" => pc = "idle" /\ batches = << >>
    /\ phase # "closing" => listed = {}
    /\ phase = "closing" => batches = << >>

\* While close() goes through its list, an unfinished job is on it in the state
\* it was listed with, or in the hands of the thread, which will decide it.
Held(r) == pc \in Deciding /\ r = Mine

Closing ==
    phase = "closing" =>
        /\ \A r \in Reserved : job[r] \in Unfinished => Held(r) \/ \E e \in listed : e.job = r
        /\ \A e \in listed : job[e.job] \in Unfinished => Held(e.job) \/ job[e.job] = e.seen

\* A step decides jobs, and moves no other: most steps do no more to the table.
Decides ==
    /\ job' \in [Reserved -> States]
    /\ \A r \in Reserved :
          \/ job'[r] = job[r]
          \/ /\ job[r] \in {"queued", "running", "needs_human"}
             /\ job'[r] \in {"failed", "cancelled", "needs_human"}

IInv == SuccessIsPublished /\ Waiting /\ Working /\ PhasesExclude /\ Closing
-----------------------------------------------------------------------------
\* The initial state satisfies the inductive invariant.
LEMMA InitIInv == Init => IInv
<1> SUFFICES ASSUME Init PROVE IInv
  OBVIOUS
<1> USE NoneAssumption DEF Init
<1>1. SuccessIsPublished
  BY DEF SuccessIsPublished, TypeOK, States, Places, Reserved
<1>2. Waiting /\ Working /\ PhasesExclude /\ Closing
  BY DEF Waiting, Working, InScope, AfterClaim, PhasesExclude, Closing
<1> QED
  BY <1>1, <1>2 DEF IInv

\* The reservations are the pairs of a batch and a scope.
LEMMA Pairs ==
    /\ \A c \in Collections, s \in Scopes : <<c, s>> \in Reserved
    /\ \A r \in Reserved : r[1] \in Collections /\ r[2] \in Scopes /\ r = <<r[1], r[2]>>
BY DEF Reserved

\* In the middle of a scope the thread has a reservation, and while it is not
\* idle, a batch.
LEMMA AtWork ==
    ASSUME IInv
    PROVE  /\ pc # "idle" => cur \in Collections /\ phase # "down"
           /\ pc \in InScope => Mine \in Reserved /\ scope \notin todo
BY Pairs DEF IInv, SuccessIsPublished, TypeOK, Working, PhasesExclude, Mine, InScope, AfterClaim

\* Writing one decision, or the value that was there.
LEMMA DecideOne ==
    ASSUME job \in [Reserved -> States], NEW r \in Reserved, NEW v,
           job' = [job EXCEPT ![r] = v],
           \/ v = job[r]
           \/ /\ job[r] \in {"queued", "running", "needs_human"}
              /\ v \in {"failed", "cancelled", "needs_human"}
    PROVE  Decides /\ job'[r] = v /\ \A q \in Reserved \ {r} : job'[q] = job[q]
BY DEF Decides, States

\* No decision publishes anything or takes anything published away ...
LEMMA DecidesPublished ==
    ASSUME IInv, Decides, TypeOK', UNCHANGED <<active, snapshot>>
    PROVE  SuccessIsPublished'
BY Pairs, NoneAssumption DEF Decides, IInv, SuccessIsPublished, TypeOK

\* ... begins a batch that waits ...
LEMMA DecidesWaiting ==
    ASSUME IInv, Decides, batches' = batches, cur' \in {cur, None}
    PROVE  Waiting'
<1> DEFINE B == batches
<1>1. \A i \in 1..Len(B) : B[i] \in Collections
  BY DEF IInv, SuccessIsPublished, TypeOK
<1>2. ASSUME NEW i \in 1..Len(B), NEW s \in Scopes
      PROVE  job'[<<B[i], s>>] \notin {"absent", "running", "succeeded"}
  <2>1. <<B[i], s>> \in Reserved
    BY <1>1, Pairs
  <2>2. job[<<B[i], s>>] \notin {"absent", "running", "succeeded"}
    BY DEF IInv, Waiting
  <2> QED
    BY <2>1, <2>2 DEF Decides
<1>3. \A i \in 1..Len(B) : B[i] # cur'
  BY <1>1, NoneAssumption DEF IInv, Waiting
<1> QED
  BY <1>2, <1>3 DEF IInv, Waiting

\* ... leaves close() with an unfinished job it has not listed.
LEMMA DecidesClosing ==
    ASSUME IInv, Decides, UNCHANGED <<phase, listed>>,
           \A r \in Reserved : phase = "closing" /\ Held(r) /\ job'[r] \in Unfinished
               => Held(r)'
    PROVE  Closing'
<1>1. \A r \in Reserved : job'[r] \in Unfinished => job[r] = job'[r]
  BY DEF Decides, Unfinished
<1>2. \A e \in listed : e.job \in Reserved
  BY DEF IInv, SuccessIsPublished, TypeOK
<1> HIDE DEF Held
<1> QED
  BY <1>1, <1>2 DEF IInv, Closing

\* ... or disturbs what the thread knows while the thread stands still.
LEMMA DecidesWorking ==
    ASSUME IInv, Decides, UNCHANGED <<pc, cur, todo, scope, active>>
    PROVE  Working'
<1>1. pc # "idle" => \A s \in Scopes : <<cur, s>> \in Reserved
  BY Pairs, AtWork
<1>2. todo \subseteq Scopes
  BY DEF IInv, SuccessIsPublished, TypeOK
<1>3. pc \in InScope => Mine \in Reserved
  BY AtWork
<1>4. \A r \in Reserved : \A v \in {"absent", "queued", "running", "succeeded"} :
          job'[r] = v => job[r] = v
  BY DEF Decides
<1>5. Mine' = Mine
  BY DEF Mine
<1>6. Working
  BY DEF IInv
<1>7. (pc = "claim" => job'[Mine] \notin {"running", "succeeded"})
      /\ (pc \in AfterClaim => job'[Mine] # "queued")
  BY <1>3, <1>4, <1>6 DEF Working, InScope
<1>8. pc # "idle" => /\ \A s \in Scopes : job'[<<cur, s>>] # "absent"
                     /\ \A s \in todo : job'[<<cur, s>>] \notin {"running", "succeeded"}
  BY <1>1, <1>2, <1>4, <1>6 DEF Working
<1> QED
  BY <1>5, <1>6, <1>7, <1>8 DEF Working

\* A decision from outside the thread disturbs nothing the thread relies on.
LEMMA OutsideIInv ==
    ASSUME IInv, Decides, UNCHANGED <<active, snapshot, batches, thread, listed, phase>>,
           refused' \subseteq refused
    PROVE  IInv'
<1>1. TypeOK'
  BY DEF thread, IInv, SuccessIsPublished, TypeOK, Decides
<1>2. SuccessIsPublished' /\ Waiting'
  BY <1>1, DecidesPublished, DecidesWaiting DEF thread
<1>3. Working'
  BY DecidesWorking DEF thread
<1>4. PhasesExclude' /\ Closing'
  BY DecidesClosing DEF thread, IInv, PhasesExclude, Held, Mine
<1> QED
  BY <1>2, <1>3, <1>4 DEF IInv

\* A step of the thread that decides jobs preserves the invariant when it
\* preserves what the thread knows, and loses no job that close() left to it.
LEMMA InsideIInv ==
    ASSUME IInv, Decides, JobsOnly, pc # "idle",
           cur' \in {cur, None}, todo' \subseteq todo, scope' \in Scopes \union {None},
           pc' \in Places, Working',
           \A r \in Reserved : phase = "closing" /\ Held(r) /\ job'[r] \in Unfinished
               => Held(r)'
    PROVE  IInv'
<1> USE DEF JobsOnly, ThreadOnly
<1>1. TypeOK'
  BY DEF IInv, SuccessIsPublished, TypeOK, Decides
<1>2. SuccessIsPublished' /\ Waiting'
  BY <1>1, DecidesPublished, DecidesWaiting
<1>3. PhasesExclude'
  BY AtWork DEF IInv, PhasesExclude
<1>4. Closing'
  BY DecidesClosing
<1> QED
  BY <1>2, <1>3, <1>4 DEF IInv

\* A step within a scope: the job of the scope is decided or left, and what is
\* left undecided while close() is at work stays in the thread's hands.
LEMMA ScopeIInv ==
    ASSUME IInv, pc \in InScope, JobsOnly, NEW p \in AfterClaim \union {"next"}, Goto(p),
           Decides, \A q \in Reserved \ {Mine} : job'[q] = job[q],
           p \in AfterClaim => job'[Mine] # "queued",
           phase = "closing" /\ pc \in Deciding /\ job'[Mine] \in Unfinished => p \in Deciding
    PROVE  IInv'
<1> USE DEF Goto, JobsOnly
<1>1. UNCHANGED <<cur, todo, scope, active>> /\ pc' = p /\ Mine' = Mine /\ pc # "idle"
  BY DEF Mine, InScope, AfterClaim
<1>2. /\ cur \in Collections /\ Mine \in Reserved /\ scope \in Scopes
      /\ todo \subseteq Scopes \ {scope} /\ p \in Places
  BY <1>1, AtWork DEF IInv, SuccessIsPublished, TypeOK, Working, Places, AfterClaim
<1>3. \A r \in Reserved : job'[r] = "absent" => job[r] = "absent"
  BY DEF Decides
<1>4. \A s \in Scopes : <<cur, s>> \in Reserved /\ (s # scope => <<cur, s>> # Mine)
  BY <1>2, Pairs DEF Mine
<1>5. Working'
  <2>1. Working
    BY DEF IInv
  <2>2. \A s \in Scopes : job'[<<cur, s>>] # "absent"
    BY <1>1, <1>3, <1>4, <2>1 DEF Working
  <2>3. \A s \in todo : job'[<<cur, s>>] \notin {"running", "succeeded"}
    BY <1>1, <1>2, <1>4, <2>1 DEF Working
  <2> QED
    BY <1>1, <1>2, <2>1, <2>2, <2>3, NoneAssumption DEF Working, InScope, AfterClaim
<1>6. \A r \in Reserved : phase = "closing" /\ Held(r) /\ job'[r] \in Unfinished => Held(r)'
  BY <1>1 DEF Held
<1> QED
  BY <1>1, <1>2, <1>5, <1>6, InsideIInv

\* The steps of a scope after its claim, except the commit of its result.
LEMMA AfterClaimIInv ==
    ASSUME IInv,
           \/ Finish("collect", "needs_human")
           \/ Finish("finalize", "failed") \/ Finish("finalize", "needs_human")
           \/ Collect \/ Build \/ IngestFails \/ Untrusted \/ Report
           \/ Returned("exact", "build") \/ Returned("short", "finalize")
           \/ Returned("raised", "report")
           \/ HandOver /\ job[Mine] = "running"
    PROVE  IInv'
<1> USE DEF Finish, Collect, Build, IngestFails, Untrusted, Report, Returned, HandOver,
            CancelRunning
<1>1. /\ pc \in AfterClaim /\ pc \in InScope /\ JobsOnly
      /\ \E p \in AfterClaim \union {"next"} :
            /\ Goto(p)
            /\ phase = "closing" /\ pc \in Deciding /\ p \notin Deciding =>
                  \/ job' = [job EXCEPT ![Mine] = IF @ = "running" THEN "cancelled" ELSE @]
                  \/ \E t \in {"failed", "needs_human"} :
                        job[Mine] = "running" /\ job' = [job EXCEPT ![Mine] = t]
                  \/ job[Mine] # "running" /\ job' = job
  BY DEF AfterClaim, InScope, Deciding, Accepting
<1>2. \/ job' = job
      \/ job' = [job EXCEPT ![Mine] = IF @ = "running" THEN "cancelled" ELSE @]
      \/ job' = [job EXCEPT ![Mine] = IF @ = "running" THEN "failed" ELSE @]
      \/ \E t \in {"failed", "needs_human"} :
            job[Mine] = "running" /\ job' = [job EXCEPT ![Mine] = t]
  OBVIOUS
<1>3. Mine \in Reserved /\ job[Mine] \in States /\ job[Mine] # "queued"
  BY <1>1, AtWork DEF IInv, SuccessIsPublished, TypeOK, Working
<1>4. PICK v : /\ job' = [job EXCEPT ![Mine] = v]
               /\ \/ v = job[Mine]
                  \/ job[Mine] = "running" /\ v \in {"failed", "cancelled", "needs_human"}
  <2>1. job' = job => job' = [job EXCEPT ![Mine] = job[Mine]]
    BY <1>3 DEF IInv, SuccessIsPublished, TypeOK
  <2> QED
    BY <1>2, <2>1
<1>5. Decides /\ job'[Mine] = v /\ \A q \in Reserved \ {Mine} : job'[q] = job[q]
  BY <1>3, <1>4, DecideOne DEF IInv, SuccessIsPublished, TypeOK
<1>6. job'[Mine] # "queued"
  BY <1>3, <1>4, <1>5
<1>7. PICK p \in AfterClaim \union {"next"} :
          /\ Goto(p)
          /\ phase = "closing" /\ pc \in Deciding /\ job'[Mine] \in Unfinished => p \in Deciding
  <2>1. ASSUME job' = [job EXCEPT ![Mine] = IF @ = "running" THEN "cancelled" ELSE @]
        PROVE  job'[Mine] # "running"
    BY <1>3, <2>1 DEF IInv, SuccessIsPublished, TypeOK
  <2>2. ASSUME NEW t \in {"failed", "needs_human"}, job' = [job EXCEPT ![Mine] = t]
        PROVE  job'[Mine] # "running"
    BY <1>3, <2>2 DEF IInv, SuccessIsPublished, TypeOK
  <2> QED
    BY <1>1, <1>6, <2>1, <2>2 DEF Unfinished
<1> QED
  BY <1>1, <1>5, <1>6, <1>7, ScopeIInv

\* An exception that ends the batch: an operator was first, so the job of the
\* scope is decided already.
LEMMA BatchEndIInv ==
    ASSUME IInv, EndBatch \/ (HandOver /\ job[Mine] # "running")
    PROVE  IInv'
<1> USE DEF EndBatch, HandOver, Idle
<1>1. pc # "idle" /\ job' = job /\ JobsOnly
  OBVIOUS
<1>2. Decides
  BY DEF Decides, IInv, SuccessIsPublished, TypeOK
<1>3. Working'
  BY DEF Working, InScope, AfterClaim
<1>4. ~\E r \in Reserved : Held(r) /\ job'[r] \in Unfinished
  BY AtWork DEF Held, Deciding, AfterClaim, InScope, Unfinished, IInv, Working
<1> QED
  BY <1>1, <1>2, <1>3, <1>4, InsideIInv DEF Places

\* Without a batch row, or without admission, the reserved jobs of a batch are
\* decided one by one.
LEMMA DropIInv ==
    ASSUME IInv, NEW s \in Scopes, Refuse(s) \/ (NextScope(s) /\ ~Accepting)
    PROVE  IInv'
<1> USE DEF Refuse, NextScope, Refused
<1>1. /\ pc \in {"refuse", "next"} /\ JobsOnly /\ UNCHANGED <<pc, cur, scope>>
      /\ s \in todo /\ todo' = todo \ {s} /\ cur \in Collections
  BY AtWork
<1>2. <<cur, s>> \in Reserved
  BY <1>1, Pairs
<1>3. Decides /\ \A q \in Reserved \ {<<cur, s>>} : job'[q] = job[q]
  <2>1. PICK v : /\ job' = [job EXCEPT ![<<cur, s>>] = v]
                 /\ v = job[<<cur, s>>] \/ (job[<<cur, s>>] = "queued" /\ v \in {"failed", "cancelled"})
    OBVIOUS
  <2> QED
    BY <1>2, <2>1, DecideOne DEF IInv, SuccessIsPublished, TypeOK
<1>4. Working'
  <2>1. Working /\ todo \subseteq Scopes
    BY DEF IInv, SuccessIsPublished, TypeOK
  <2>2. \A t \in Scopes : job'[<<cur, t>>] # "absent"
    BY <1>1, <1>3, <2>1, Pairs DEF Working, Decides
  <2>3. \A t \in todo' : job'[<<cur, t>>] \notin {"running", "succeeded"}
    BY <1>1, <1>3, <2>1, Pairs DEF Working, Decides
  <2> QED
    BY <1>1, <2>1, <2>2, <2>3 DEF Working, InScope, AfterClaim, JobsOnly
<1>5. \A r \in Reserved : ~Held(r)
  BY <1>1 DEF Held, Deciding, AfterClaim
<1> QED
  BY <1>1, <1>3, <1>4, <1>5, InsideIInv DEF Places, IInv, SuccessIsPublished, TypeOK

\* A scope that is begun is one nobody has begun.
LEMMA NextScopeIInv ==
    ASSUME IInv, NEW s \in Scopes, NextScope(s), Accepting
    PROVE  IInv'
<1>1. /\ pc = "next" /\ s \in todo /\ todo' = todo \ {s} /\ scope' = s /\ pc' = "claim"
      /\ UNCHANGED <<job, cur>> /\ JobsOnly
  BY DEF NextScope
<1>2. Decides
  BY <1>1 DEF Decides, IInv, SuccessIsPublished, TypeOK
<1>3. Working'
  BY <1>1 DEF IInv, Working, InScope, AfterClaim, Mine, JobsOnly
<1>4. \A r \in Reserved : ~Held(r)
  BY <1>1 DEF Held, Deciding, AfterClaim
<1> QED
  BY <1>1, <1>2, <1>3, <1>4, InsideIInv DEF Places

\* The claim begins the job of a scope of the newest batch.
LEMMA ClaimIInv == IInv /\ Claim => IInv'
<1> SUFFICES ASSUME IInv, Claim PROVE IInv'
  OBVIOUS
<1>1. CASE job[Mine] = "queued"
  <2> USE <1>1 DEF Claim, Goto, JobsOnly, ThreadOnly
  <2>1. /\ job' = [job EXCEPT ![Mine] = "running"] /\ pc = "claim" /\ pc' = "collect"
        /\ UNCHANGED <<cur, todo, scope, active, snapshot, batches, refused, listed, phase>>
    OBVIOUS
  <2>2. /\ Mine \in Reserved /\ Mine' = Mine /\ cur \in Collections /\ scope \in Scopes
        /\ scope \notin todo /\ todo \subseteq Scopes
    BY AtWork DEF IInv, SuccessIsPublished, TypeOK, InScope, Working, Mine
  <2>3. /\ job' \in [Reserved -> States] /\ job'[Mine] = "running"
        /\ \A q \in Reserved \ {Mine} : job'[q] = job[q]
    BY <2>1, <2>2 DEF IInv, SuccessIsPublished, TypeOK, States
  <2>4. \A s \in Scopes : <<cur, s>> \in Reserved /\ (s # scope => <<cur, s>> # Mine)
    BY <2>2, Pairs DEF Mine
  <2> HIDE DEF Claim, Goto, JobsOnly, ThreadOnly
  <2>5. SuccessIsPublished'
    <3>1. TypeOK'
      BY <2>1, <2>3 DEF IInv, SuccessIsPublished, TypeOK, Places
    <3>2. \A r \in Reserved : job'[r] = "succeeded" <=> job[r] = "succeeded"
      BY <1>1, <2>3
    <3> QED
      BY <2>1, <3>1, <3>2, Pairs, NoneAssumption DEF IInv, SuccessIsPublished, TypeOK
  <2>6. Waiting'
    <3>1. \A i \in 1..Len(batches) : batches[i] \in Collections /\ batches[i] # cur
      BY DEF IInv, SuccessIsPublished, TypeOK, Waiting
    <3>2. \A i \in 1..Len(batches) : \A s \in Scopes :
              job'[<<batches[i], s>>] = job[<<batches[i], s>>]
      BY <2>3, <3>1, Pairs DEF Mine
    <3> QED
      BY <2>1, <3>2 DEF IInv, Waiting
  <2>7. Working'
    <3>1. Working
      BY DEF IInv
    <3>2. \A s \in Scopes : job'[<<cur, s>>] # "absent"
      BY <2>1, <2>3, <2>4, <3>1 DEF Working
    <3>3. \A s \in todo : job'[<<cur, s>>] \notin {"running", "succeeded"}
      BY <2>1, <2>2, <2>3, <2>4, <3>1 DEF Working
    <3> QED
      BY <2>1, <2>2, <2>3, <3>1, <3>2, <3>3, NoneAssumption DEF Working, InScope, AfterClaim
  <2>8. PhasesExclude' /\ Closing'
    <3>1. Held(Mine)'
      BY <2>1, <2>2 DEF Held, Deciding, AfterClaim
    <3>2. \A r \in Reserved \ {Mine} : ~Held(r)
      BY DEF Held
    <3>3. \A e \in listed : e.job \in Reserved
      BY DEF IInv, SuccessIsPublished, TypeOK
    <3> QED
      BY <2>1, <2>2, <2>3, <3>1, <3>2, <3>3, AtWork DEF IInv, PhasesExclude, Closing, InScope
  <2> QED
    BY <2>5, <2>6, <2>7, <2>8 DEF IInv
<1>2. CASE job[Mine] # "queued"
  <2>1. Goto("next") /\ JobsOnly /\ job' = job /\ pc = "claim" /\ Mine' = Mine
    BY <1>2 DEF Claim, Goto, Mine
  <2>2. Mine \in Reserved /\ job[Mine] \notin Unfinished
    BY <1>2, <2>1, AtWork DEF InScope, IInv, Working, Unfinished
  <2>3. Decides
    BY <2>1 DEF Decides, IInv, SuccessIsPublished, TypeOK
  <2> QED
    BY <2>1, <2>2, <2>3, ScopeIInv DEF InScope, AfterClaim
<1> QED
  BY <1>1, <1>2

\* The commit of a result publishes it for the newest batch and decides its job.
LEMMA IngestIInv == IInv /\ Ingest => IInv'
<1> SUFFICES ASSUME IInv, Ingest PROVE IInv'
  OBVIOUS
<1>1. /\ pc = "ingest" /\ pc' \in {"next", "raised"} /\ job[Mine] = "running"
      /\ job' = [job EXCEPT ![Mine] = "succeeded"]
      /\ snapshot' = [snapshot EXCEPT ![scope] = cur]
      /\ UNCHANGED <<cur, todo, scope, active, batches, refused, listed, phase>>
  BY DEF Ingest, Owns, Published, Goto, ThreadOnly
<1>2. /\ Mine \in Reserved /\ Mine' = Mine /\ cur \in Collections /\ scope \in Scopes
      /\ scope \notin todo /\ todo \subseteq Scopes /\ active = cur
  BY <1>1, AtWork DEF IInv, SuccessIsPublished, TypeOK, InScope, AfterClaim, Working, Mine
<1>3. /\ job' \in [Reserved -> States] /\ job'[Mine] = "succeeded"
      /\ \A q \in Reserved \ {Mine} : job'[q] = job[q]
  BY <1>1, <1>2 DEF IInv, SuccessIsPublished, TypeOK, States
<1>4. \A s \in Scopes : <<cur, s>> \in Reserved /\ (s # scope => <<cur, s>> # Mine)
  BY <1>2, Pairs DEF Mine
<1>5. SuccessIsPublished'
  <2>1. TypeOK'
    BY <1>1, <1>2, <1>3 DEF IInv, SuccessIsPublished, TypeOK, Places
  <2>2. ASSUME NEW r \in Reserved, snapshot'[r[2]] = r[1] PROVE job'[r] = "succeeded"
    <3>1. CASE r[2] = scope
      <4>1. r[1] = cur
        BY <1>1, <1>2, <2>2, <3>1 DEF IInv, SuccessIsPublished, TypeOK
      <4> QED
        BY <1>3, <3>1, <4>1, Pairs DEF Mine
    <3>2. CASE r[2] # scope
      BY <1>1, <1>3, <2>2, <3>2, Pairs DEF IInv, SuccessIsPublished, TypeOK, Mine
    <3> QED
      BY <3>1, <3>2
  <2>3. ASSUME NEW s \in Scopes, job'[<<active, s>>] = "succeeded"
        PROVE  snapshot'[s] \in {active, "upload"}
    <3>1. CASE s = scope
      BY <1>1, <1>2, <3>1 DEF IInv, SuccessIsPublished, TypeOK
    <3>2. CASE s # scope
      BY <1>1, <1>2, <1>3, <1>4, <2>3, <3>2, NoneAssumption DEF IInv, SuccessIsPublished, TypeOK
    <3> QED
      BY <3>1, <3>2
  <2> QED
    BY <1>1, <2>1, <2>2, <2>3 DEF SuccessIsPublished
<1>6. Waiting'
  <2>1. \A i \in 1..Len(batches) : batches[i] \in Collections /\ batches[i] # cur
    BY DEF IInv, SuccessIsPublished, TypeOK, Waiting
  <2>2. \A i \in 1..Len(batches) : \A s \in Scopes :
            job'[<<batches[i], s>>] = job[<<batches[i], s>>]
    BY <1>3, <2>1, Pairs DEF Mine
  <2> QED
    BY <1>1, <2>2 DEF IInv, Waiting
<1>7. Working'
  <2>1. Working
    BY DEF IInv
  <2>2. \A s \in Scopes : job'[<<cur, s>>] # "absent"
    BY <1>1, <1>3, <1>4, <2>1 DEF Working
  <2>3. \A s \in todo : job'[<<cur, s>>] \notin {"running", "succeeded"}
    BY <1>1, <1>2, <1>3, <1>4, <2>1 DEF Working
  <2> QED
    BY <1>1, <1>2, <1>3, <2>1, <2>2, <2>3, NoneAssumption DEF Working, InScope, AfterClaim
<1>8. PhasesExclude' /\ Closing'
  <2>1. \A r \in Reserved \ {Mine} : ~Held(r)
    BY DEF Held
  <2>2. \A e \in listed : e.job \in Reserved
    BY DEF IInv, SuccessIsPublished, TypeOK
  <2>3. job'[Mine] \notin Unfinished
    BY <1>3 DEF Unfinished
  <2> QED
    BY <1>1, <1>2, <1>3, <2>1, <2>2, <2>3, AtWork
       DEF IInv, PhasesExclude, Closing, InScope, AfterClaim
<1> QED
  BY <1>5, <1>6, <1>7, <1>8 DEF IInv

\* A new batch waits behind the others, and none of its scopes was begun.
LEMMA EnqueueIInv ==
    ASSUME IInv, NEW c \in Collections, Enqueue(c)
    PROVE  IInv'
<1>1. /\ phase = "up" /\ \A s \in Scopes : job[<<c, s>>] = "absent"
      /\ job' = [r \in Reserved |-> IF r[1] = c THEN "queued" ELSE job[r]]
      /\ \/ batches' = Append(batches, c) /\ refused' = refused
         \/ batches' = batches /\ refused' = {c} \X Scopes
      /\ UNCHANGED <<cur, todo, scope, pc, active, snapshot, listed, phase>>
  BY DEF Enqueue, Accepting, thread
<1>2. /\ batches \in Seq(Collections) /\ Len(batches) \in Nat
      /\ \A i \in 1..Len(batches) : batches[i] \in Collections
  BY DEF IInv, SuccessIsPublished, TypeOK
<1>3. /\ \A r \in Reserved : r[1] = c => job[r] = "absent" /\ job'[r] = "queued"
      /\ \A r \in Reserved : r[1] # c => job'[r] = job[r]
      /\ job' \in [Reserved -> States]
  BY <1>1, Pairs DEF IInv, SuccessIsPublished, TypeOK, States
<1>4. SuccessIsPublished'
  <2>1. Append(batches, c) \in Seq(Collections)
    BY <1>2
  <2>2. refused' \subseteq Reserved
    BY <1>1 DEF IInv, SuccessIsPublished, TypeOK, Reserved
  <2>3. TypeOK'
    BY <1>1, <1>2, <1>3, <2>1, <2>2 DEF IInv, SuccessIsPublished, TypeOK
  <2>4. \A r \in Reserved : job'[r] = "succeeded" <=> job[r] = "succeeded"
    BY <1>3
  <2> QED
    BY <1>1, <2>3, <2>4, Pairs, NoneAssumption DEF IInv, SuccessIsPublished, TypeOK
<1>5. cur # c /\ \A i \in 1..Len(batches) : batches[i] # c
  <2>1. PICK s \in Scopes : TRUE
    BY NoneAssumption
  <2> QED
    BY <1>1, <1>2, <2>1, NoneAssumption DEF IInv, Waiting, Working
<1>6. Waiting'
  <2>1. ASSUME NEW b \in Collections \ {c}, NEW s \in Scopes PROVE job'[<<b, s>>] = job[<<b, s>>]
    BY <1>3, Pairs
  <2>2. \A s \in Scopes : job'[<<c, s>>] = "queued"
    BY <1>3, Pairs
  <2>3. CASE batches' = batches
    BY <1>1, <1>2, <1>5, <2>1, <2>3 DEF IInv, Waiting
  <2>4. CASE batches' = Append(batches, c)
    <3>1. /\ Len(batches') = Len(batches) + 1 /\ batches'[Len(batches) + 1] = c
          /\ \A i \in 1..Len(batches) : batches'[i] = batches[i]
      BY <1>2, <2>4
    <3>2. \A i \in 1..Len(batches') : i \in 1..Len(batches) \/ i = Len(batches) + 1
      BY <1>2, <3>1
    <3>3. \A i \in 1..Len(batches') :
              /\ batches'[i] # cur
              /\ \A s \in Scopes :
                    job'[<<batches'[i], s>>] \notin {"absent", "running", "succeeded"}
      BY <1>2, <1>5, <2>1, <2>2, <3>1, <3>2 DEF IInv, Waiting
    <3>4. \A i, j \in 1..Len(batches') : i # j => batches'[i] # batches'[j]
      BY <1>2, <1>5, <3>1, <3>2 DEF IInv, Waiting
    <3> QED
      BY <1>1, <3>3, <3>4 DEF Waiting
  <2> QED
    BY <1>1, <2>3, <2>4
<1>7. Working'
  <2>1. pc # "idle" => cur \in Collections
    BY AtWork
  <2>2. pc # "idle" => \A s \in Scopes : job'[<<cur, s>>] = job[<<cur, s>>]
    BY <1>3, <1>5, <2>1, Pairs
  <2>3. pc \in InScope => Mine \in Reserved /\ Mine' = Mine /\ job'[Mine] = job[Mine]
    BY <1>1, <1>3, <1>5, AtWork DEF Mine
  <2>4. Working /\ todo \subseteq Scopes
    BY DEF IInv, SuccessIsPublished, TypeOK
  <2> QED
    BY <1>1, <2>2, <2>3, <2>4 DEF Working, InScope, AfterClaim
<1>8. PhasesExclude' /\ Closing'
  BY <1>1 DEF IInv, PhasesExclude, Closing
<1> QED
  BY <1>4, <1>6, <1>7, <1>8 DEF IInv

\* The thread takes the batch that has waited longest.
LEMMA TakeIInv == IInv /\ Take => IInv'
<1> SUFFICES ASSUME IInv, Take PROVE IInv'
  OBVIOUS
<1>1. /\ phase # "down" /\ pc = "idle" /\ batches # << >> /\ pc' = "start" /\ todo' = Scopes
      /\ batches' = Tail(batches) /\ cur' = Head(batches)
      /\ UNCHANGED <<job, active, snapshot, scope, refused, listed, phase>>
  BY DEF Take
<1>2. /\ batches \in Seq(Collections) /\ Len(batches) \in Nat \ {0}
      /\ \A i \in 1..Len(batches) : batches[i] \in Collections
      /\ cur' = batches[1] /\ cur' \in Collections
      /\ batches' \in Seq(Collections) /\ Len(batches') = Len(batches) - 1
      /\ \A i \in 1..Len(batches') : batches'[i] = batches[i + 1]
  BY <1>1 DEF IInv, SuccessIsPublished, TypeOK
<1>3. SuccessIsPublished'
  BY <1>1, <1>2 DEF IInv, SuccessIsPublished, TypeOK, Places
<1>4. Waiting'
  <2>1. \A i \in 1..Len(batches') : i + 1 \in 1..Len(batches) /\ i + 1 # 1
    BY <1>2
  <2>2. \A i \in 1..Len(batches') :
            /\ batches'[i] # cur'
            /\ \A s \in Scopes : job'[<<batches'[i], s>>] \notin {"absent", "running", "succeeded"}
    BY <1>1, <1>2, <2>1 DEF IInv, Waiting
  <2>3. \A i, j \in 1..Len(batches') : i # j => batches'[i] # batches'[j]
    BY <1>2, <2>1 DEF IInv, Waiting
  <2> QED
    BY <2>2, <2>3 DEF Waiting
<1>5. Working'
  <2>1. \A s \in Scopes : job[<<cur', s>>] \notin {"absent", "running", "succeeded"}
    BY <1>2 DEF IInv, Waiting
  <2> QED
    BY <1>1, <1>2, <2>1, NoneAssumption DEF Working, InScope, AfterClaim
<1>6. PhasesExclude' /\ Closing'
  BY <1>1 DEF IInv, PhasesExclude, Closing, Held, Deciding, AfterClaim
<1> QED
  BY <1>3, <1>4, <1>5, <1>6 DEF IInv

\* A batch becomes the newest of the day before any of its scopes succeeds.
LEMMA StartIInv == IInv /\ Start => IInv'
<1> SUFFICES ASSUME IInv, Start PROVE IInv'
  OBVIOUS
<1>1. /\ pc = "start"
      /\ \/ active' = cur /\ pc' = "next"
         \/ active' = active /\ pc' = "refuse"
      /\ UNCHANGED <<job, snapshot, cur, todo, scope, batches, refused, listed, phase>>
  BY DEF Start, Goto, ThreadOnly
<1>2. cur \in Collections /\ \A s \in Scopes : job[<<cur, s>>] # "succeeded"
  BY <1>1, AtWork DEF IInv, Working
<1>3. SuccessIsPublished'
  BY <1>1, <1>2 DEF IInv, SuccessIsPublished, TypeOK, Places
<1>4. Waiting' /\ Working' /\ PhasesExclude' /\ Closing'
  BY <1>1 DEF IInv, Waiting, Working, PhasesExclude, Closing, Held, Deciding, InScope,
     AfterClaim
<1> QED
  BY <1>3, <1>4 DEF IInv

\* An upload replaces a snapshot by one that is bound to no batch.
LEMMA UploadIInv ==
    ASSUME IInv, NEW s \in Scopes, Upload(s)
    PROVE  IInv'
<1> USE DEF Upload, thread
<1>1. SuccessIsPublished'
  BY Pairs, NoneAssumption DEF IInv, SuccessIsPublished, TypeOK
<1>2. Waiting' /\ Working' /\ PhasesExclude' /\ Closing'
  BY DEF IInv, Waiting, Working, Mine, PhasesExclude, Closing, Held
<1> QED
  BY <1>1, <1>2 DEF IInv

\* close() fences admission, drops the queue and lists what is unfinished.
LEMMA FenceIInv == IInv /\ (Fence \/ ListJobs) => IInv'
<1> SUFFICES ASSUME IInv, Fence \/ ListJobs PROVE IInv'
  OBVIOUS
<1>1. /\ UNCHANGED <<job, active, snapshot, cur, todo, scope, pc, refused>>
      /\ \/ phase = "up" /\ phase' = "fenced" /\ batches' = batches /\ listed' = listed
         \/ /\ phase = "fenced" /\ phase' = "closing" /\ batches' = << >>
            /\ listed' = {[job |-> r, seen |-> job[r]] : r \in Listed}
  BY DEF Fence, ListJobs, thread
<1>2. \A r \in Listed : r \in Reserved /\ job[r] \in Unfinished
  BY DEF Listed
<1>3. SuccessIsPublished'
  <2>1. listed' \subseteq [job : Reserved, seen : Unfinished]
    BY <1>1, <1>2 DEF IInv, SuccessIsPublished, TypeOK
  <2>2. batches \in Seq(Collections) /\ << >> \in Seq(Collections)
    BY DEF IInv, SuccessIsPublished, TypeOK
  <2> QED
    BY <1>1, <2>1, <2>2 DEF IInv, SuccessIsPublished, TypeOK
<1>4. Waiting' /\ Working'
  BY <1>1 DEF IInv, Waiting, Working, Mine
<1>5. PhasesExclude'
  BY <1>1 DEF IInv, PhasesExclude
<1>6. Closing'
  <2>1. CASE phase' = "closing"
    <3>1. \A r \in Reserved : job[r] \in Unfinished => \E e \in listed' : e.job = r
      <4>1. SUFFICES ASSUME NEW r \in Reserved, job[r] \in Unfinished
                     PROVE  \E e \in listed' : e.job = r
        OBVIOUS
      <4>2. [job |-> r, seen |-> job[r]] \in listed'
        BY <1>1, <2>1, <4>1 DEF Listed
      <4> QED
        BY <4>2
    <3>2. \A e \in listed' : job[e.job] = e.seen
      BY <1>1, <2>1
    <3> QED
      BY <1>1, <3>1, <3>2 DEF Closing
  <2> QED
    BY <2>1 DEF Closing
<1> QED
  BY <1>3, <1>4, <1>5, <1>6 DEF IInv

\* close() decides a job of its list, or finds it decided or with the thread.
LEMMA CloseJobIInv ==
    ASSUME IInv, NEW e \in listed, CloseJob(e)
    PROVE  IInv'
<1>1. /\ listed' = listed \ {e} /\ e.job \in Reserved /\ phase = "closing"
      /\ UNCHANGED <<active, snapshot, batches, thread, refused, phase>>
      /\ \/ job[e.job] \in Unfinished /\ job' = [job EXCEPT ![e.job] = "cancelled"]
         \/ job[e.job] # e.seen /\ job' = job
  BY DEF CloseJob, IInv, SuccessIsPublished, TypeOK, PhasesExclude
<1>2. job[e.job] \in Unfinished => job[e.job] \in {"queued", "running", "needs_human"}
  BY DEF Unfinished
<1>3. Decides
  <2>1. CASE job' = job
    BY <2>1 DEF Decides, IInv, SuccessIsPublished, TypeOK
  <2>2. CASE job[e.job] \in Unfinished /\ job' = [job EXCEPT ![e.job] = "cancelled"]
    BY <1>1, <1>2, <2>2, DecideOne DEF IInv, SuccessIsPublished, TypeOK
  <2> QED
    BY <1>1, <2>1, <2>2
<1>4. SuccessIsPublished' /\ Waiting'
  <2>1. TypeOK'
    BY <1>1, <1>3 DEF thread, IInv, SuccessIsPublished, TypeOK, Decides
  <2> QED
    BY <1>1, <1>3, <2>1, DecidesPublished, DecidesWaiting DEF thread
<1>5. Working'
  <2>1. UNCHANGED <<pc, cur, todo, scope, active>> /\ Mine' = Mine
    BY <1>1 DEF thread, Mine
  <2> QED
    BY <1>3, <2>1, DecidesWorking
<1>6. PhasesExclude'
  BY <1>1 DEF thread, IInv, PhasesExclude
<1>7. Closing'
  <2>1. \A r \in Reserved : /\ job'[r] \in Unfinished => job'[r] = job[r]
                            /\ Held(r)' <=> Held(r)
    BY <1>1, <1>3 DEF Decides, Unfinished, Held, Mine, thread
  <2>2. job'[e.job] \in Unfinished => Held(e.job)
    <3>1. CASE job[e.job] # e.seen /\ job' = job
      BY <1>1, <3>1 DEF IInv, Closing
    <3>2. CASE job' = [job EXCEPT ![e.job] = "cancelled"]
      <4>1. job'[e.job] = "cancelled"
        BY <1>1, <3>2 DEF IInv, SuccessIsPublished, TypeOK
      <4> QED
        BY <4>1 DEF Unfinished
    <3> QED
      BY <1>1, <3>1, <3>2
  <2>3. \A d \in listed : d.job \in Reserved
    BY DEF IInv, SuccessIsPublished, TypeOK
  <2> HIDE DEF Held
  <2> QED
    BY <1>1, <2>1, <2>2, <2>3 DEF IInv, Closing
<1> QED
  BY <1>4, <1>5, <1>6, <1>7 DEF IInv

\* A crash forgets everything but the tables; a restart decides what was left.
LEMMA RestartIInv == IInv /\ (Stop \/ Restart) => IInv'
<1> SUFFICES ASSUME IInv, Stop \/ Restart PROVE IInv'
  OBVIOUS
<1> USE NoneAssumption
<1>1. Decides
  BY DEF Stop, Restart, Decides, Unfinished, States, IInv, SuccessIsPublished, TypeOK
<1>2. /\ UNCHANGED <<active, snapshot>> /\ phase' # "closing"
      /\ cur' = None /\ pc' = "idle" /\ batches' = << >> /\ listed' = {}
      /\ todo' \subseteq Scopes /\ scope' \in Scopes \union {None}
      /\ refused' \subseteq Reserved /\ phase' \in {"up", "down"}
  BY DEF Stop, Restart, Idle, thread, IInv, SuccessIsPublished, TypeOK, PhasesExclude, Working
<1>3. TypeOK'
  BY <1>1, <1>2 DEF Decides, IInv, SuccessIsPublished, TypeOK, Places
<1>4. SuccessIsPublished'
  BY <1>1, <1>2, <1>3, DecidesPublished
<1>5. Waiting' /\ Working' /\ PhasesExclude' /\ Closing'
  BY <1>2 DEF Waiting, Working, InScope, AfterClaim, PhasesExclude, Closing
<1> QED
  BY <1>4, <1>5 DEF IInv

\* Every step preserves the inductive invariant.
LEMMA NextIInv == IInv /\ [Next]_vars => IInv'
<1> SUFFICES ASSUME IInv, [Next]_vars PROVE IInv'
  OBVIOUS
<1>1. ASSUME NEW r \in Reserved, FailReserved(r) \/ OperatorCancel(r) PROVE IInv'
  <2>1. Decides
    BY <1>1, DecideOne DEF FailReserved, Refused, OperatorCancel, Unfinished, IInv,
       SuccessIsPublished, TypeOK
  <2> QED
    BY <1>1, <2>1, OutsideIInv DEF FailReserved, OperatorCancel
<1>2. ASSUME UNCHANGED vars PROVE IInv'
  <2>1. Decides
    BY <1>2 DEF vars, Decides, IInv, SuccessIsPublished, TypeOK
  <2> QED
    BY <1>2, <2>1, OutsideIInv DEF vars
<1>3. Request => IInv'
  BY <1>1, EnqueueIInv, UploadIInv DEF Request
<1>4. Execute => IInv'
  BY TakeIInv, StartIInv, DropIInv, NextScopeIInv, BatchEndIInv, ClaimIInv, AfterClaimIInv,
     IngestIInv DEF Execute, Refuse, NextScope, HandOver
<1> QED
  BY <1>2, <1>3, <1>4, FenceIInv, CloseJobIInv, RestartIInv DEF Next
-----------------------------------------------------------------------------
\* The strengthened invariant holds in every reachable state.
THEOREM QianfanInductive == Spec => []IInv
BY InitIInv, NextIInv, PTL DEF Spec

\* What a reader of the day sees is what the newest batch succeeded in.
THEOREM SuccessIsAlwaysPublished == Spec => []SuccessIsPublished
<1>1. IInv => SuccessIsPublished
  BY DEF IInv
<1> QED
  BY QianfanInductive, <1>1, PTL

\* When close() is through its list and the thread is idle, every job is decided.
THEOREM ShutdownAlwaysSettles == Spec => []ShutdownSettles
<1>1. IInv => ShutdownSettles
  BY DEF IInv, Closing, Held, Deciding, AfterClaim, ShutdownSettles
<1> QED
  BY QianfanInductive, <1>1, PTL

\* A result that arrives after a decision changes nothing.
THEOREM FinishedAlwaysStays == Spec => FinishedStaysFinished
<1> DEFINE Final     == {"succeeded", "failed", "cancelled"}
           Stays(r)  == job[r] \in Final => job'[r] = job[r]
<1>1. ASSUME IInv, Next, NEW r \in Reserved PROVE Stays(r)
  <2> USE <1>1
  <2>1. job \in [Reserved -> States] /\ (pc \in InScope => Mine \in Reserved)
    BY AtWork DEF IInv, SuccessIsPublished, TypeOK
  <2>2. ASSUME Request PROVE Stays(r)
    BY <2>1, <2>2, Pairs DEF Request, Enqueue, FailReserved, Refused, OperatorCancel, Upload,
       Unfinished
  <2>3. ASSUME Take \/ Start \/ EndBatch \/ Collect \/ Build \/ IngestFails \/ Untrusted
        PROVE  Stays(r)
    BY <2>3 DEF Take, Start, EndBatch, Collect, Build, IngestFails, Untrusted
  <2>4. ASSUME NEW s \in Scopes, Refuse(s) \/ NextScope(s) PROVE Stays(r)
    BY <2>1, <2>4 DEF Refuse, Refused, NextScope
  <2>5. ASSUME Claim \/ Ingest \/ HandOver \/ Report PROVE Stays(r)
    BY <2>1, <2>5 DEF Claim, Ingest, Owns, HandOver, Report
  <2>6. ASSUME NEW x, NEW y, Finish(x, y) \/ Returned(x, y) PROVE Stays(r)
    BY <2>1, <2>6 DEF Finish, Returned, CancelRunning
  <2>7. ASSUME NEW e \in listed, CloseJob(e) PROVE Stays(r)
    BY <2>1, <2>7 DEF CloseJob, Unfinished
  <2>8. ASSUME Fence \/ ListJobs \/ Stop \/ Restart PROVE Stays(r)
    BY <2>1, <2>8 DEF Fence, ListJobs, Stop, Restart, Unfinished
  <2> HIDE DEF Stays
  <2> QED
    BY <2>2, <2>3, <2>4, <2>5, <2>6, <2>7, <2>8 DEF Next, Execute
<1>2. IInv /\ [Next]_vars =>
          [\A r \in Reserved : job[r] \in Final => job'[r] = job[r]]_vars
  BY <1>1
<1> QED
  BY QianfanInductive, <1>2, PTL DEF Spec, FinishedStaysFinished
=============================================================================
