--------------------------- MODULE MediaRunsProofs ---------------------------
(***************************************************************************)
(* Theorems about MediaRuns, for any set of runs, any assignment of plan   *)
(* entries, any lease and any clock.                                       *)
(*                                                                         *)
(* The invariants of MediaRuns are not inductive one by one.  They need    *)
(* what the worker thread knows about the run in its hands at every place  *)
(* of its program (Progress), which bytes and which reservation exist      *)
(* there (Bytes), what the phases of the process exclude (PhasesExclude),  *)
(* and who still holds an open run while close() is at work                *)
(* (ClosingCovers).                                                        *)
(***************************************************************************)
EXTENDS MediaRuns, TLAPS

\* What somebody has decided about a run.
Decided == Statuses \ {"absent", "queued", "running"}

\* The places of the thread from a won claim to the end of the attempt.
Attempted == {"claimed", "facts_before", "call", "provider", "returned",
              "facts_after", "reserve", "write", "commit", "assess", "make_due"}

\* The thread has a run except at its loop; close() works in the closing phase
\* only; a process that is down or starting has nothing in its memory; and the
\* fence leaves no queue and no submission.
PhasesExclude ==
    /\ cur = None <=> pc \in {"off", "idle", "stopped"}
    /\ phase # "closing" => closing = {} /\ closer = NoCancel
    /\ phase \in {"down", "starting"} => pc = "off"
    /\ phase # "up" => queue = {} /\ submitting = None

\* A submission between its commits has its job and no run.
SubmissionIsOpen ==
    submitting # None => status[submitting] = "absent" /\ job[submitting] = "queued"

\* Whatever waits in the queue is queued or was decided, and is not in hand.
QueueIsQueued == \A r \in queue : status[r] \in Decided \union {"queued"} /\ r # cur

\* What the thread knows of its run.
Progress ==
    /\ pc \in {"taken", "active", "claim"} => status[cur] \in Decided \union {"queued"}
    /\ pc = "claim" /\ status[cur] = "queued" => seen = version[cur]
    /\ pc \in Attempted \union {"fail"} =>
          /\ status[cur] \in Decided \union {"running"}
          /\ status[cur] = "running" => seen = version[cur] /\ job[cur] = "running"
    /\ pc \in Attempted => status[cur] # "succeeded"
    /\ pc = "cancel" =>
          /\ status[cur] # "absent"
          /\ status[cur] \in Open => seen = version[cur] /\ job[cur] = status[cur]
    /\ pc = "done" => status[cur] \in Decided

\* The provider was not called for a run nobody claimed, nor before the call.
Counted ==
    /\ CalledAtMostOnce
    /\ \A r \in Runs : status[r] \in {"absent", "queued"} => calls[r] = 0
    /\ pc \in {"claimed", "facts_before", "call"} => calls[cur] = 0

\* Results, bytes and reservations, as the thread makes them one by one.
Bytes ==
    /\ \A r \in Runs : r \in output <=> status[r] = "succeeded"
    /\ \A r \in output \cap Generations : r \in file /\ cleanup[r] = "cancelled"
    /\ LooseBytesAreReserved
    /\ pc \in {"reserve", "write", "commit", "make_due"} => cur \in Generations
    /\ pc = "assess" => cur \notin Generations
    /\ Persisting => cleanup[cur] = "pending"
    /\ pc = "commit" => cur \in file

\* While the process closes, an open run is yet to be cancelled by close(),
\* being cancelled at the version it has, or in the hands of the thread.
ClosingCovers ==
    \A r \in Runs : phase = "closing" /\ status[r] \in Open =>
        \/ r \in closing
        \/ closer.run = r /\ closer.version = version[r]
        \/ cur = r
        \/ Overtaken(r)

IInv ==
    /\ RunAndJobAgree
    /\ PhasesExclude
    /\ SubmissionIsOpen
    /\ QueueIsQueued
    /\ Progress
    /\ Counted
    /\ Bytes
    /\ NoRunIsForgotten
    /\ ClosingCovers
-----------------------------------------------------------------------------
\* The initial state satisfies the inductive invariant.
LEMMA InitIInv == Init => IInv
<1> SUFFICES ASSUME Init PROVE IInv
  OBVIOUS
<1> USE RunsAssumption DEF Init
<1>1. RunAndJobAgree
  BY DEF RunAndJobAgree, TypeOK, Statuses, Cleanups, Places, NoCancel
<1>2. PhasesExclude /\ SubmissionIsOpen /\ QueueIsQueued /\ Progress
  BY DEF PhasesExclude, SubmissionIsOpen, QueueIsQueued, Progress, Attempted
<1>3. Counted /\ Bytes
  BY DEF Counted, CalledAtMostOnce, Bytes, LooseBytesAreReserved, Persisting
<1>4. NoRunIsForgotten /\ ClosingCovers
  BY DEF NoRunIsForgotten, ClosingCovers, Open
<1> QED
  BY <1>1, <1>2, <1>3, <1>4 DEF IInv

\* A run in the hands of the thread has a row, which nobody is submitting.
LEMMA InHand ==
    ASSUME IInv, cur # None
    PROVE  cur \in Runs /\ status[cur] # "absent" /\ cur # submitting
<1>1. pc \in Attempted \union {"taken", "active", "claim", "fail", "cancel", "done"}
  BY DEF IInv, RunAndJobAgree, TypeOK, PhasesExclude, Places, Attempted
<1> QED
  BY <1>1, RunsAssumption DEF IInv, RunAndJobAgree, TypeOK, Progress, Decided, SubmissionIsOpen

\* The thread is somewhere in its program only while it has a run.
LEMMA AtWork ==
    ASSUME IInv, pc \notin {"off", "idle", "stopped"}
    PROVE  cur # None /\ cur \in Runs /\ phase \in {"up", "closing"}
BY DEF IInv, RunAndJobAgree, TypeOK, PhasesExclude

\* A step of the thread that writes nothing outside it can disturb only what
\* the thread knows of its run, and what its place in the program means.
LEMMA ThreadOnlyIInv ==
    ASSUME IInv, ThreadOnly, cur' = cur, pc' \in Places, seen' \in Nat,
           cur = None <=> pc' \in {"off", "idle", "stopped"},
           phase \in {"up", "closing"},
           Progress', Counted', Bytes'
    PROVE  IInv'
<1> USE DEF ThreadOnly, IInv, table, results, fence
<1>1. RunAndJobAgree'
  BY DEF RunAndJobAgree, TypeOK, Overtaken
<1>2. PhasesExclude' /\ SubmissionIsOpen' /\ QueueIsQueued'
  BY DEF PhasesExclude, SubmissionIsOpen, QueueIsQueued
<1>3. NoRunIsForgotten' /\ ClosingCovers'
  BY DEF NoRunIsForgotten, ClosingCovers, Overtaken
<1> QED
  BY <1>1, <1>2, <1>3

\* Nothing but Progress is at stake in the steps that only look at the lock,
\* the fence or the rows.
LEMMA LookIInv ==
    ASSUME IInv, SetActive \/ Admit \/ Leave
    PROVE  IInv'
<1> USE DEF SetActive, Admit, Leave, NotAdmitted, Goto, ThreadOnly, table, results
<1>1. /\ cur' = cur /\ pc' \in Places /\ seen' \in Nat
      /\ cur = None <=> pc' \in {"off", "idle", "stopped"}
      /\ phase \in {"up", "closing"}
  BY AtWork DEF IInv, RunAndJobAgree, TypeOK, PhasesExclude, Places
<1>2. Progress'
  BY AtWork DEF IInv, RunAndJobAgree, TypeOK, Progress, Attempted, Decided, Statuses, Open,
     Overtaken
<1>3. Counted' /\ Bytes'
  BY DEF IInv, Counted, CalledAtMostOnce, Bytes, LooseBytesAreReserved, Persisting
<1> QED
  BY <1>1, <1>2, <1>3, ThreadOnlyIInv

\* The admission checks of an attempt, the steps of it that may raise, and a
\* transaction that binds nothing, change the thread's place only.
LEMMA AttemptIInv ==
    ASSUME IInv,
           \/ CheckAdmission("claimed", "facts_before")
           \/ CheckAdmission("returned", "facts_after")
           \/ Attempt("facts_before", "call")
           \/ Attempt("provider", "returned")
           \/ Attempt("facts_after", Provided)
           \/ CommitFails
    PROVE  IInv'
<1> USE DEF CheckAdmission, Attempt, CommitFails, Provided, Goto, ThreadOnly, table, results
<1>1. /\ cur' = cur /\ pc' \in Places /\ seen' \in Nat
      /\ cur = None <=> pc' \in {"off", "idle", "stopped"}
      /\ phase \in {"up", "closing"}
  BY AtWork DEF IInv, RunAndJobAgree, TypeOK, PhasesExclude, Places
<1>2. Progress'
  BY DEF IInv, Progress, Attempted, Decided, Statuses, Open
<1>3. Counted' /\ Bytes'
  BY DEF IInv, Counted, CalledAtMostOnce, Bytes, LooseBytesAreReserved, Persisting
<1> QED
  BY <1>1, <1>2, <1>3, ThreadOnlyIInv

\* What the guarded transaction of the store does to the tables: a run that
\* wins its guard moves with its job.
LEMMA CasTables ==
    ASSUME IInv, NEW r \in Runs, NEW v, NEW from \in SUBSET Open,
           NEW t \in Decided \union {"running"}, Cas(r, v, from, t)
    PROVE  /\ status' \in [Runs -> Statuses] /\ version' \in [Runs -> Nat]
           /\ job' \in [Runs -> Statuses] /\ lease' \in [Runs -> Nat \union {NoLease}]
           /\ \A s \in Runs \ {r} : /\ status'[s] = status[s] /\ job'[s] = job[s]
                                    /\ version'[s] = version[s]
           /\ Wins(r, v, from) => /\ status'[r] = t /\ job'[r] = t
                                  /\ version'[r] = version[r] + 1
           /\ ~Wins(r, v, from) => /\ status'[r] = status[r] /\ job'[r] = job[r]
                                   /\ version'[r] = version[r]
<1>1. t \in Statuses /\ TypeOK
  BY DEF Decided, Statuses, IInv, RunAndJobAgree
<1> QED
  BY <1>1, MBoundAssumption DEF Cas, Move, JobAfter, TypeOK, table

\* The claim: it wins only against a queued run, whose provider nobody called.
LEMMA ClaimIInv == IInv /\ Claim => IInv'
<1> SUFFICES ASSUME IInv, Claim PROVE IInv'
  OBVIOUS
<1> DEFINE Won == Wins(cur, seen, {"queued"})
<1>1. cur \in Runs /\ phase \in {"up", "closing"} /\ pc = "claim"
  BY AtWork DEF Claim
<1>2. /\ status' \in [Runs -> Statuses] /\ version' \in [Runs -> Nat]
      /\ job' \in [Runs -> Statuses] /\ lease' \in [Runs -> Nat \union {NoLease}]
      /\ \A s \in Runs \ {cur} : /\ status'[s] = status[s] /\ job'[s] = job[s]
                                 /\ version'[s] = version[s]
      /\ Won => /\ status'[cur] = "running" /\ job'[cur] = "running"
                /\ version'[cur] = version[cur] + 1
      /\ ~Won => /\ status'[cur] = status[cur] /\ job'[cur] = job[cur]
                 /\ version'[cur] = version[cur]
  BY <1>1, CasTables DEF Claim, Open
<1>3. /\ UNCHANGED <<calls, output, file, cleanup, queue, submitting, closing, closer,
                     phase, now, cur>>
      /\ Won => pc' = "claimed" /\ seen' = seen + 1
      /\ ~Won => pc' = "done" /\ seen' = seen
  BY DEF Claim, Goto, StoreOnly, results, fence
<1>4. Won => status[cur] = "queued" /\ seen = version[cur]
  BY DEF Wins
<1>5. ~Won => status[cur] \in Decided
  BY <1>1 DEF Wins, IInv, RunAndJobAgree, TypeOK, Overtaken, Progress, Decided, Statuses
<1> HIDE DEF Won
<1>6. RunAndJobAgree'
  BY <1>1, <1>2, <1>3 DEF IInv, RunAndJobAgree, TypeOK, Overtaken, Places
<1>7. PhasesExclude' /\ SubmissionIsOpen' /\ QueueIsQueued'
  BY <1>1, <1>2, <1>3, InHand, AtWork
     DEF IInv, RunAndJobAgree, TypeOK, PhasesExclude, SubmissionIsOpen, QueueIsQueued
<1>8. Progress'
  BY <1>1, <1>2, <1>3, <1>4, <1>5 DEF IInv, RunAndJobAgree, TypeOK, Progress, Attempted, Decided
<1>9. Counted' /\ Bytes'
  BY <1>1, <1>2, <1>3, <1>4, <1>5
     DEF IInv, RunAndJobAgree, TypeOK, Counted, CalledAtMostOnce, Bytes, LooseBytesAreReserved, Persisting
<1>10. NoRunIsForgotten' /\ ClosingCovers'
  BY <1>1, <1>2, <1>3 DEF IInv, NoRunIsForgotten, ClosingCovers, Overtaken
<1> QED
  BY <1>6, <1>7, <1>8, <1>9, <1>10 DEF IInv

\* The two ends of a run that bind nothing: its attempt failed, or close()
\* came first.
LEMMA GiveUpIInv ==
    ASSUME IInv, NEW t \in {"failed", "cancelled"}, NEW from \in SUBSET Open,
           Cas(cur, seen, from, t), Goto("done"), StoreOnly,
           \/ pc = "fail" /\ from = {"running"}
           \/ pc = "cancel" /\ from = Open
    PROVE  IInv'
<1> DEFINE Won == Wins(cur, seen, from)
<1>1. cur \in Runs /\ phase \in {"up", "closing"} /\ t \in Decided
  BY AtWork DEF Decided, Statuses
<1>2. /\ status' \in [Runs -> Statuses] /\ version' \in [Runs -> Nat]
      /\ job' \in [Runs -> Statuses] /\ lease' \in [Runs -> Nat \union {NoLease}]
      /\ \A s \in Runs \ {cur} : /\ status'[s] = status[s] /\ job'[s] = job[s]
                                 /\ version'[s] = version[s]
      /\ Won => /\ status'[cur] = t /\ job'[cur] = t
                /\ version'[cur] = version[cur] + 1
      /\ ~Won => /\ status'[cur] = status[cur] /\ job'[cur] = job[cur]
                 /\ version'[cur] = version[cur]
  BY <1>1, CasTables
<1>3. UNCHANGED <<calls, output, file, cleanup, queue, submitting, closing, closer,
                  phase, now, cur, seen>> /\ pc' = "done"
  BY DEF Goto, StoreOnly, results, fence
<1>4. /\ Won => status[cur] \in Open
      /\ ~Won => status[cur] \in Decided
  BY <1>1 DEF Wins, Open, IInv, RunAndJobAgree, TypeOK, Progress, Attempted, Decided, Statuses
<1> HIDE DEF Won
<1>5. RunAndJobAgree'
  BY <1>1, <1>2, <1>3 DEF IInv, RunAndJobAgree, TypeOK, Overtaken, Places
<1>6. PhasesExclude' /\ SubmissionIsOpen' /\ QueueIsQueued'
  BY <1>1, <1>2, <1>3, InHand, AtWork
     DEF IInv, RunAndJobAgree, TypeOK, PhasesExclude, SubmissionIsOpen, QueueIsQueued
<1>7. Progress'
  BY <1>1, <1>2, <1>3, <1>4 DEF IInv, Progress, Attempted, Decided
<1>8. Counted' /\ Bytes'
  BY <1>1, <1>2, <1>3, <1>4
     DEF IInv, RunAndJobAgree, TypeOK, Counted, CalledAtMostOnce, Bytes, LooseBytesAreReserved,
         Persisting, Decided, Open
<1>9. NoRunIsForgotten' /\ ClosingCovers'
  BY <1>1, <1>2, <1>3 DEF IInv, NoRunIsForgotten, ClosingCovers, Overtaken
<1> QED
  BY <1>5, <1>6, <1>7, <1>8, <1>9 DEF IInv

\* A result is bound by the transaction that makes its run successful.
LEMMA BindIInv ==
    ASSUME IInv, Wins(cur, seen, {"running"}), Move(cur, "succeeded"),
           output' = output \union {cur}, pc' \in {"done", "fail"},
           UNCHANGED <<cur, seen, file, calls, queue, submitting, fence, phase, now>>,
           \/ pc = "commit" /\ cleanup' = Reservation
           \/ pc = "assess" /\ cleanup' = cleanup
    PROVE  IInv'
<1>1. cur \in Runs /\ phase \in {"up", "closing"} /\ status[cur] = "running"
  BY AtWork DEF Wins
<1>2. /\ status' \in [Runs -> Statuses] /\ version' \in [Runs -> Nat]
      /\ job' \in [Runs -> Statuses] /\ lease' \in [Runs -> Nat \union {NoLease}]
      /\ \A s \in Runs \ {cur} : /\ status'[s] = status[s] /\ job'[s] = job[s]
                                 /\ version'[s] = version[s]
      /\ status'[cur] = "succeeded" /\ job'[cur] = "succeeded"
  BY <1>1, CasTables DEF Cas, Open, Decided, Statuses
<1> USE DEF fence
<1>3. RunAndJobAgree'
  BY <1>1, <1>2 DEF IInv, RunAndJobAgree, TypeOK, Overtaken, Places, Reservation, Cleanups
<1>4. PhasesExclude' /\ SubmissionIsOpen' /\ QueueIsQueued'
  BY <1>1, <1>2, InHand, AtWork
     DEF IInv, RunAndJobAgree, TypeOK, PhasesExclude, SubmissionIsOpen, QueueIsQueued
<1>5. Progress'
  BY <1>1, <1>2 DEF IInv, Progress, Attempted, Decided, Statuses
<1>6. Counted' /\ Bytes'
  BY <1>1, <1>2, RunsAssumption
     DEF IInv, RunAndJobAgree, TypeOK, Counted, CalledAtMostOnce, Bytes, LooseBytesAreReserved,
         Persisting, Reservation
<1>7. NoRunIsForgotten' /\ ClosingCovers'
  BY <1>1, <1>2 DEF IInv, NoRunIsForgotten, ClosingCovers, Overtaken
<1> QED
  BY <1>3, <1>4, <1>5, <1>6, <1>7 DEF IInv

\* The steps of an attempt that change a counter, a reservation or a file.
LEMMA ArtifactIInv == IInv /\ (CallProvider \/ Reserve \/ Write \/ MakeDue) => IInv'
<1> SUFFICES ASSUME IInv, CallProvider \/ Reserve \/ Write \/ MakeDue PROVE IInv'
  OBVIOUS
<1> USE DEF CallProvider, Reserve, Write, MakeDue, Goto, table, results, fence
<1>1. /\ cur \in Runs /\ phase \in {"up", "closing"}
      /\ pc \in {"call", "reserve", "write", "make_due"}
  BY AtWork
<1>2. RunAndJobAgree'
  BY <1>1 DEF IInv, RunAndJobAgree, TypeOK, Bytes, Overtaken, Places, Cleanups
<1>3. PhasesExclude' /\ SubmissionIsOpen' /\ QueueIsQueued'
  BY AtWork DEF IInv, PhasesExclude, SubmissionIsOpen, QueueIsQueued
<1>4. Progress'
  BY DEF IInv, Progress, Attempted, Decided, Open
<1>5. Counted' /\ Bytes'
  <2>1. Counted'
    BY <1>1 DEF IInv, RunAndJobAgree, TypeOK, Counted, CalledAtMostOnce, Progress, Attempted, Decided
  <2>2. cur \notin output
    BY <1>1 DEF IInv, Bytes, Progress, Attempted
  <2> USE DEF IInv, RunAndJobAgree, TypeOK, Bytes, LooseBytesAreReserved, Persisting
  <2>3. CASE CallProvider
    BY <2>1, <2>3
  <2>4. CASE Reserve
    BY <2>1, <2>2, <2>4, <1>1
  <2>5. CASE Write
    BY <2>1, <2>2, <2>5, <1>1
  <2>6. CASE MakeDue
    BY <2>1, <2>2, <2>6, <1>1
  <2> QED
    BY <2>3, <2>4, <2>5, <2>6
<1>6. NoRunIsForgotten' /\ ClosingCovers'
  BY DEF IInv, NoRunIsForgotten, ClosingCovers, Overtaken
<1> QED
  BY <1>2, <1>3, <1>4, <1>5, <1>6 DEF IInv

\* The thread takes a run out of the queue, and drops the one it has settled.
LEMMA TakeDoneIInv ==
    ASSUME IInv, Done \/ \E r \in Runs : Take(r)
    PROVE  IInv'
<1> USE DEF Take, Done, ThreadOnly, table, results, fence
<1>1. RunAndJobAgree'
  BY DEF IInv, RunAndJobAgree, TypeOK, Overtaken, Places
<1>2. PhasesExclude' /\ SubmissionIsOpen' /\ QueueIsQueued'
  BY RunsAssumption, AtWork DEF IInv, RunAndJobAgree, TypeOK, PhasesExclude, SubmissionIsOpen, QueueIsQueued
<1>3. Progress' /\ Counted' /\ Bytes'
  BY DEF IInv, Progress, Attempted, QueueIsQueued, Counted, CalledAtMostOnce, Bytes,
     LooseBytesAreReserved, Persisting
<1>4. NoRunIsForgotten' /\ ClosingCovers'
  <2>1. pc = "done" => status[cur] \notin Open
    BY DEF IInv, Progress, Decided, Open
  <2>2. pc = "idle" => cur = None
    BY DEF IInv, PhasesExclude
  <2> QED
    BY <2>1, <2>2, RunsAssumption
       DEF IInv, PhasesExclude, NoRunIsForgotten, ClosingCovers, Overtaken
<1> QED
  BY <1>1, <1>2, <1>3, <1>4 DEF IInv

\* Every step of the worker thread preserves the invariant.
LEMMA ThreadIInv == IInv /\ Thread => IInv'
<1> SUFFICES ASSUME IInv, Thread PROVE IInv'
  OBVIOUS
<1>1. ASSUME Commit PROVE IInv'
  <2>1. pc = "commit" /\ Wins(cur, seen, {"running"}) /\ pc' \in {"done", "fail"}
    BY <1>1 DEF Commit, Persistable, Goto
  <2> QED
    BY <1>1, <2>1, BindIInv DEF Commit, Goto
<1>2. ASSUME Assess PROVE IInv'
  <2>1. CASE Wins(cur, seen, {"running"}) /\ Move(cur, "succeeded") /\ Goto("done")
             /\ output' = output \union {cur}
    BY <1>2, <2>1, BindIInv DEF Assess, Goto
  <2>2. CASE UNCHANGED <<table, output>> /\ Goto("fail")
    <3> USE <1>2, <2>2 DEF Assess, Goto
    <3>1. ThreadOnly /\ cur' = cur /\ pc' = "fail" /\ seen' = seen
      BY DEF ThreadOnly, results
    <3>2. seen' \in Nat /\ pc' \in Places /\ cur # None /\ phase \in {"up", "closing"}
      BY <3>1, AtWork DEF IInv, RunAndJobAgree, TypeOK, Places
    <3>3. Progress' /\ Counted' /\ Bytes'
      BY DEF IInv, Progress, Attempted, Counted, CalledAtMostOnce, Bytes,
         LooseBytesAreReserved, Persisting, table
    <3> QED
      BY <3>1, <3>2, <3>3, ThreadOnlyIInv
  <2> QED
    BY <1>2, <2>1, <2>2 DEF Assess
<1>3. ASSUME RecordFailure PROVE IInv'
  BY <1>3, GiveUpIInv DEF RecordFailure, Open
<1>4. ASSUME CancelCurrent PROVE IInv'
  BY <1>4, GiveUpIInv DEF CancelCurrent
<1>5. Execute => IInv'
  BY <1>1, <1>2, <1>3, <1>4, AttemptIInv, ArtifactIInv DEF Execute
<1> QED
  BY <1>5, ClaimIInv, LookIInv, TakeDoneIInv DEF Thread

\* The two commits of a submission, or its refusal by the unique index.
LEMMA SubmissionIInv ==
    ASSUME IInv, NEW r \in Runs, Submit(r) \/ CreateRun(r)
    PROVE  IInv'
<1> USE RunsAssumption DEF Submit, CreateRun, table, results, thread, fence
<1>1. r # cur /\ status[r] = "absent"
  BY InHand DEF IInv, RunAndJobAgree, TypeOK, Overtaken, Statuses, Progress, SubmissionIsOpen
<1>2. RunAndJobAgree'
  BY <1>1 DEF IInv, RunAndJobAgree, TypeOK, Overtaken, Statuses, SubmissionIsOpen
<1>3. PhasesExclude' /\ SubmissionIsOpen' /\ QueueIsQueued'
  BY <1>1 DEF IInv, RunAndJobAgree, TypeOK, PhasesExclude, SubmissionIsOpen, QueueIsQueued
<1>4. Progress' /\ Counted' /\ Bytes'
  <2>1. pc \notin {"off", "idle", "stopped"} => status'[cur] = status[cur] /\ job'[cur] = job[cur]
    BY <1>1, AtWork DEF IInv, RunAndJobAgree, TypeOK
  <2>2. Progress' /\ Counted'
    BY <1>1, <2>1 DEF IInv, RunAndJobAgree, TypeOK, Progress, Attempted, Counted, CalledAtMostOnce
  <2>3. Bytes'
    BY <1>1 DEF IInv, RunAndJobAgree, TypeOK, Bytes, LooseBytesAreReserved, Persisting
  <2> QED
    BY <2>2, <2>3
<1>5. NoRunIsForgotten' /\ ClosingCovers'
  BY <1>1 DEF IInv, RunAndJobAgree, TypeOK, PhasesExclude, NoRunIsForgotten, ClosingCovers,
     Overtaken, Open
<1> QED
  BY <1>2, <1>3, <1>4, <1>5 DEF IInv

\* The fence, and the reads of close(), hand every open run that is not with the
\* thread over to a cancellation.
LEMMA FenceIInv ==
    ASSUME IInv, BeginClose \/ \E r \in Runs : CloseRead(r)
    PROVE  IInv'
<1> USE DEF BeginClose, ActiveRun, CloseRead, LockFree, table, results, thread
<1>1. RunAndJobAgree'
  BY DEF IInv, RunAndJobAgree, TypeOK, PhasesExclude, Overtaken, NoCancel
<1>2. PhasesExclude' /\ SubmissionIsOpen' /\ QueueIsQueued'
  BY DEF IInv, PhasesExclude, SubmissionIsOpen, QueueIsQueued
<1>3. Progress' /\ Counted' /\ Bytes'
  BY DEF IInv, Progress, Counted, CalledAtMostOnce, Bytes, LooseBytesAreReserved, Persisting
<1>4. NoRunIsForgotten'
  BY DEF IInv, PhasesExclude, NoRunIsForgotten, Overtaken
<1>5. ClosingCovers'
  <2>1. CASE BeginClose
    BY <2>1, AtWork DEF IInv, RunAndJobAgree, TypeOK, PhasesExclude, NoRunIsForgotten, ClosingCovers,
       Overtaken, Places
  <2>2. ASSUME NEW r \in Runs, CloseRead(r) PROVE ClosingCovers'
    BY <2>2, RunsAssumption DEF IInv, ClosingCovers, Overtaken, NoCancel
  <2> QED
    BY <2>1, <2>2
<1> QED
  BY <1>1, <1>2, <1>3, <1>4, <1>5 DEF IInv

\* A cancellation by close() finds the run as it read it, or leaves it to the
\* thread, which has moved it since.
LEMMA CloseWriteIInv == IInv /\ CloseWrite => IInv'
<1> SUFFICES ASSUME IInv, CloseWrite PROVE IInv'
  OBVIOUS
<1> DEFINE r == closer.run
           Won == Wins(r, closer.version, Open)
<1>1. r \in Runs /\ phase = "closing" /\ "cancelled" \in Decided
  BY DEF CloseWrite, IInv, RunAndJobAgree, TypeOK, PhasesExclude, Decided, Statuses
<1>2. /\ status' \in [Runs -> Statuses] /\ version' \in [Runs -> Nat]
      /\ job' \in [Runs -> Statuses] /\ lease' \in [Runs -> Nat \union {NoLease}]
      /\ \A s \in Runs \ {r} : /\ status'[s] = status[s] /\ job'[s] = job[s]
                               /\ version'[s] = version[s]
      /\ Won => /\ status'[r] = "cancelled" /\ job'[r] = "cancelled"
                /\ version'[r] = version[r] + 1
      /\ ~Won => /\ status'[r] = status[r] /\ job'[r] = job[r]
                 /\ version'[r] = version[r]
  BY <1>1, CasTables DEF CloseWrite
<1>3. /\ Won => status[r] \in Open
      /\ ~Won /\ status[r] \in Open => version[r] # closer.version \/ Overtaken(r)
  BY <1>1 DEF Wins, Open, IInv, RunAndJobAgree
<1>4. UNCHANGED <<calls, output, file, cleanup, queue, pc, cur, seen, submitting,
                  closing, phase, now>> /\ closer' = NoCancel
  BY DEF CloseWrite, results, thread
<1> HIDE DEF r, Won
<1>5. RunAndJobAgree'
  BY <1>1, <1>2, <1>4 DEF IInv, RunAndJobAgree, TypeOK, Overtaken, NoCancel
<1>6. PhasesExclude' /\ SubmissionIsOpen' /\ QueueIsQueued'
  BY <1>1, <1>4 DEF IInv, PhasesExclude, SubmissionIsOpen, QueueIsQueued
<1>7. pc \notin {"off", "idle", "stopped"} =>
          \/ status'[cur] = status[cur] /\ job'[cur] = job[cur] /\ version'[cur] = version[cur]
          \/ status'[cur] = "cancelled" /\ status[cur] \in Open
  BY <1>1, <1>2, <1>3, AtWork
<1>8. Progress'
  BY <1>4, <1>7 DEF IInv, Progress, Attempted, Decided, Statuses, Open
<1>9. Counted' /\ Bytes'
  BY <1>1, <1>2, <1>3, <1>4
     DEF IInv, RunAndJobAgree, TypeOK, Counted, CalledAtMostOnce, Bytes, LooseBytesAreReserved,
         Persisting, Open
<1>10. NoRunIsForgotten' /\ ClosingCovers'
  <2>1. \A s \in Runs : closer.run = s <=> s = r
    BY DEF r
  <2>2. ASSUME NEW s \in Runs, status'[s] \in Open
        PROVE  s \in closing \/ cur = s \/ Overtaken(s)'
    <3>1. status[s] = status'[s] /\ job[s] = job'[s] /\ (s = r => ~Won)
      BY <1>1, <1>2, <2>2 DEF Open
    <3> QED
      BY <1>1, <1>3, <2>1, <2>2, <3>1 DEF IInv, ClosingCovers, Overtaken
  <2> QED
    BY <1>1, <1>4, <2>2 DEF NoRunIsForgotten, ClosingCovers
<1> QED
  BY <1>5, <1>6, <1>8, <1>9, <1>10 DEF IInv

\* A crash forgets the queue, the thread and the fence, and no row.
LEMMA StopIInv == IInv /\ Stop => IInv'
<1> SUFFICES ASSUME IInv, Stop PROVE IInv'
  OBVIOUS
<1> USE DEF Stop, table, results
<1>1. RunAndJobAgree'
  BY DEF IInv, RunAndJobAgree, TypeOK, Overtaken, Places
<1>2. PhasesExclude' /\ SubmissionIsOpen' /\ QueueIsQueued' /\ Progress'
  BY DEF PhasesExclude, SubmissionIsOpen, QueueIsQueued, Progress, Attempted
<1>3. Counted' /\ Bytes'
  BY DEF IInv, Counted, CalledAtMostOnce, Bytes, LooseBytesAreReserved, Persisting
<1>4. NoRunIsForgotten' /\ ClosingCovers'
  BY DEF NoRunIsForgotten, ClosingCovers
<1> QED
  BY <1>1, <1>2, <1>3, <1>4 DEF IInv

\* The recovery of create_app takes jobs whose lease has expired, and leaves
\* their runs behind.
LEMMA RecoverExpiredIInv == IInv /\ RecoverExpiredRunning => IInv'
<1> SUFFICES ASSUME IInv, RecoverExpiredRunning PROVE IInv'
  OBVIOUS
<1> USE DEF RecoverExpiredRunning, results, thread, fence
<1>1. RunAndJobAgree'
  BY DEF IInv, RunAndJobAgree, TypeOK, Overtaken, Statuses
<1>2. PhasesExclude' /\ SubmissionIsOpen' /\ QueueIsQueued' /\ Progress'
  BY DEF IInv, PhasesExclude, SubmissionIsOpen, QueueIsQueued, Progress, Attempted
<1>3. Counted' /\ Bytes'
  BY DEF IInv, Counted, CalledAtMostOnce, Bytes, LooseBytesAreReserved, Persisting
<1>4. NoRunIsForgotten' /\ ClosingCovers'
  BY DEF NoRunIsForgotten, ClosingCovers
<1> QED
  BY <1>1, <1>2, <1>3, <1>4 DEF IInv

\* start() takes the queued runs into the queue and hands the interrupted ones
\* over; a running row it leaves open is one whose job is gone.
LEMMA StartIInv == IInv /\ Start => IInv'
<1> SUFFICES ASSUME IInv, Start PROVE IInv'
  OBVIOUS
<1> USE DEF Start, Recoverable, Interrupted, results, fence
<1>1. RunAndJobAgree'
  BY DEF IInv, RunAndJobAgree, TypeOK, Overtaken, Statuses, Places
<1>2. PhasesExclude' /\ SubmissionIsOpen' /\ QueueIsQueued' /\ Progress'
  BY RunsAssumption DEF IInv, RunAndJobAgree, TypeOK, PhasesExclude, SubmissionIsOpen,
     QueueIsQueued, Progress, Attempted
<1>3. Counted' /\ Bytes'
  BY DEF IInv, RunAndJobAgree, TypeOK, Counted, CalledAtMostOnce, Bytes,
     LooseBytesAreReserved, Persisting
<1>4. NoRunIsForgotten' /\ ClosingCovers'
  BY DEF IInv, RunAndJobAgree, TypeOK, PhasesExclude, NoRunIsForgotten, ClosingCovers,
     Overtaken, Open
<1> QED
  BY <1>1, <1>2, <1>3, <1>4 DEF IInv

\* The cleanup worker touches loose bytes only, and none the thread is writing.
LEMMA CleanUpIInv ==
    ASSUME IInv, NEW r \in Runs, CleanUp(r)
    PROVE  IInv'
<1> USE DEF CleanUp, table, thread, fence
<1>1. RunAndJobAgree'
  BY DEF IInv, RunAndJobAgree, TypeOK, Overtaken, Cleanups
<1>2. PhasesExclude' /\ SubmissionIsOpen' /\ QueueIsQueued' /\ Progress' /\ Counted'
  BY DEF IInv, PhasesExclude, SubmissionIsOpen, QueueIsQueued, Progress, Counted, CalledAtMostOnce
<1>3. Bytes'
  BY DEF IInv, RunAndJobAgree, TypeOK, Bytes, LooseBytesAreReserved, Persisting
<1>4. NoRunIsForgotten' /\ ClosingCovers'
  BY DEF IInv, NoRunIsForgotten, ClosingCovers, Overtaken
<1> QED
  BY <1>1, <1>2, <1>3, <1>4 DEF IInv

\* The invariant does not look at the clock, nor at a stuttering step.
LEMMA TickIInv == IInv /\ (Tick \/ UNCHANGED vars) => IInv'
<1> SUFFICES ASSUME IInv, Tick \/ UNCHANGED vars PROVE IInv'
  OBVIOUS
<1> USE DEF Tick, vars, table, results, thread, fence
<1>1. RunAndJobAgree'
  BY DEF IInv, RunAndJobAgree, TypeOK, Overtaken
<1>2. PhasesExclude' /\ SubmissionIsOpen' /\ QueueIsQueued' /\ Progress' /\ Counted' /\ Bytes'
  BY DEF IInv, PhasesExclude, SubmissionIsOpen, QueueIsQueued, Progress, Counted,
     CalledAtMostOnce, Bytes, LooseBytesAreReserved, Persisting
<1>3. NoRunIsForgotten' /\ ClosingCovers'
  BY DEF IInv, NoRunIsForgotten, ClosingCovers, Overtaken
<1> QED
  BY <1>1, <1>2, <1>3 DEF IInv

\* Every step preserves the inductive invariant.
LEMMA NextIInv == IInv /\ [Next]_vars => IInv'
BY ThreadIInv, SubmissionIInv, FenceIInv, CloseWriteIInv, StopIInv, RecoverExpiredIInv,
   StartIInv, CleanUpIInv, TickIInv
   DEF Next, Close, Restart
-----------------------------------------------------------------------------
\* The strengthened invariant holds in every reachable state.
THEOREM MediaInductive == Spec => []IInv
BY InitIInv, NextIInv, PTL DEF Spec

\* The variables keep their types, and a run and its reserved job agree, except
\* where the lease overtook the recovery of the worker.
THEOREM RunAndJobAlwaysAgree == Spec => []RunAndJobAgree
<1>1. IInv => RunAndJobAgree
  BY DEF IInv
<1> QED
  BY MediaInductive, <1>1, PTL

\* However often the process crashes and restarts, a run costs one call.
THEOREM ProviderIsPaidOnce == Spec => []CalledAtMostOnce
<1>1. IInv => CalledAtMostOnce
  BY DEF IInv, Counted
<1> QED
  BY MediaInductive, <1>1, PTL

\* A generation succeeds with its result, its bytes and its reservation, or not.
THEOREM SuccessIsAlwaysWhole == Spec => []SuccessIsWhole
<1>1. IInv => SuccessIsWhole
  BY RunsAssumption DEF IInv, Bytes, SuccessIsWhole
<1> QED
  BY MediaInductive, <1>1, PTL

\* No bytes of a run are left to nobody.
THEOREM LooseBytesAreAlwaysReserved == Spec => []LooseBytesAreReserved
<1>1. IInv => LooseBytesAreReserved
  BY DEF IInv, Bytes
<1> QED
  BY MediaInductive, <1>1, PTL

\* A serving process has every open run in its queue or in its hands.
THEOREM NoRunIsEverForgotten == Spec => []NoRunIsForgotten
<1>1. IInv => NoRunIsForgotten
  BY DEF IInv
<1> QED
  BY MediaInductive, <1>1, PTL

\* When close() is through and the thread has left, no run is open.
THEOREM ShutdownAlwaysSettles == Spec => []ShutdownSettles
<1>1. IInv => ShutdownSettles
  <2> SUFFICES ASSUME IInv, phase = "closing", closing = {}, closer = NoCancel, pc = "stopped",
                      NEW r \in Runs, status[r] \in Open
               PROVE  Overtaken(r)
    BY DEF ShutdownSettles
  <2>1. cur # r /\ closer.run # r
    BY RunsAssumption DEF IInv, PhasesExclude, NoCancel
  <2> QED
    BY <2>1 DEF IInv, ClosingCovers
<1> QED
  BY MediaInductive, <1>1, PTL

\* A decided run, and its result, are what they are for good.
THEOREM DecisionsStayFinal == Spec => DecisionsAreFinal
<1> DEFINE Stays(r) == status'[r] = status[r] /\ (r \in output <=> r \in output')
<1>1. ASSUME IInv, Next, NEW r \in Runs, status[r] \notin Open \union {"absent"}
      PROVE  Stays(r)
  <2> USE <1>1 DEF results
  <2>1. ASSUME NEW s \in Runs, NEW v, NEW from \in SUBSET Open, NEW t, Cas(s, v, from, t)
        PROVE  status'[r] = status[r]
    BY <2>1 DEF Cas, Wins, Move, table, IInv, RunAndJobAgree, TypeOK
  <2>2. ASSUME Commit \/ Assess PROVE Stays(r)
    <3>1. \/ /\ Wins(cur, seen, {"running"}) /\ Move(cur, "succeeded")
             /\ output' = output \union {cur}
          \/ UNCHANGED <<status, output>>
      BY <2>2 DEF Commit, Assess, Persistable, table
    <3>2. Wins(cur, seen, {"running"}) => r # cur
      BY DEF Wins, Open
    <3>3. Move(cur, "succeeded") /\ r # cur => status'[r] = status[r]
      BY DEF Move, IInv, RunAndJobAgree, TypeOK
    <3> QED
      BY <3>1, <3>2, <3>3
  <2>3. ASSUME Claim \/ RecordFailure \/ CancelCurrent PROVE Stays(r)
    BY <2>1, <2>3, AtWork DEF Claim, RecordFailure, CancelCurrent, StoreOnly, Open
  <2>4. ASSUME CloseWrite PROVE Stays(r)
    BY <2>1, <2>4 DEF CloseWrite, IInv, RunAndJobAgree, TypeOK
  <2>5. ASSUME NEW s \in Runs, CreateRun(s) PROVE Stays(r)
    BY <2>5, RunsAssumption DEF CreateRun, IInv, RunAndJobAgree, TypeOK, SubmissionIsOpen
  <2>6. ASSUME Start PROVE Stays(r)
    BY <2>6 DEF Start, Open
  <2>7. ASSUME NEW s \in Runs, Submit(s) \/ CleanUp(s) \/ Take(s) \/ CloseRead(s) PROVE Stays(r)
    BY <2>7 DEF Submit, CleanUp, Take, CloseRead, table
  <2>8. ASSUME SetActive \/ Admit \/ Done \/ Leave \/ BeginClose \/ Stop
                 \/ RecoverExpiredRunning \/ Tick
        PROVE  Stays(r)
    BY <2>8 DEF SetActive, Admit, NotAdmitted, Done, Leave, BeginClose, Stop, RecoverExpiredRunning,
       Tick, ThreadOnly, table
  <2>9. ASSUME Execute, ~(Commit \/ Assess \/ RecordFailure \/ CancelCurrent) PROVE Stays(r)
    BY <2>9 DEF Execute, CheckAdmission, Attempt, CallProvider, Reserve, Write, CommitFails,
       MakeDue, ThreadOnly, table
  <2> HIDE DEF Stays
  <2> QED
    BY <2>2, <2>3, <2>4, <2>5, <2>6, <2>7, <2>8, <2>9 DEF Next, Thread, Close, Restart
<1>2. IInv /\ [Next]_vars =>
          [\A r \in Runs : status[r] \notin Open \union {"absent"} => Stays(r)]_vars
  BY <1>1
<1> QED
  BY MediaInductive, <1>2, PTL DEF Spec, DecisionsAreFinal
=============================================================================
