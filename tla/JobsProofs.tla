----------------------------- MODULE JobsProofs -----------------------------
(***************************************************************************)
(* Theorems about Jobs, for any set of jobs and any bounds.                *)
(*                                                                         *)
(* The invariants of Jobs are not inductive one by one.  What they need is *)
(* said by CallsLegal (a call of transition() in progress asks only for    *)
(* what its read allowed, and for a shop job only an unsuccessful end) and *)
(* WorkersLegal (what the worker of a shop job knows about its row).       *)
(***************************************************************************)
EXTENDS Jobs, TLAPS

\* A call in progress asks for an edge that was permitted when it read the row,
\* and nothing but the end of a shop job.
CallsLegal ==
    \A call \in inflight :
        /\ <<call.seen, call.target>> \in Permitted
        /\ call.job \in Shop => call.target \in {"cancelled", "failed"}

\* The threads that are yet to claim their job.
Waiting == {"pending", "unscheduled"}

\* A thread exists for shop jobs of a serving process only.  A thread yet to
\* claim has a job nobody else can start; one that has claimed, a job that is
\* not queued again; and a job with no thread that no error has cut off has the
\* transition() that fails it and has read the state it is in.
WorkersLegal ==
    \A j \in Jobs :
        /\ worker[j] # "none" => j \in Shop /\ phase = "up"
        /\ worker[j] \in Waiting => state[j] \in {"queued", "cancelled"}
        /\ worker[j] \notin {"none"} \union Waiting => state[j] \notin {"absent", "queued"}
        /\ j \in Shop \ dropped /\ phase = "up" /\ worker[j] = "none"
             /\ state[j] \in {"queued", "running"}
           => \E call \in inflight :
                 call.job = j /\ call.seen = state[j] /\ call.target = "failed"

IInv ==
    /\ TypeOK
    /\ ColumnsFollowState
    /\ bound \subseteq final
    /\ ShopSuccessIsEvidenced
    /\ ShopRestartLabelled
    /\ CallsLegal
    /\ WorkersLegal

\* The tables of states, as facts the provers can use without expanding them.
LEMMA StateFacts ==
    /\ States = {"queued", "running", "needs_human", "succeeded", "failed", "cancelled"}
    /\ Terminal = {"succeeded", "failed", "cancelled"}
    /\ \A s \in States \union {"absent"}, t \in States : <<s, t>> \in Permitted <=>
          \/ s = "queued" /\ t \in {"running", "cancelled"}
          \/ s = "running" /\ t \notin {"queued", "running"}
          \/ s = "needs_human" /\ t \in {"running", "cancelled"}
BY DEF States, Terminal, Permitted, L!States, L!Terminal, L!Permitted

\* The initial state satisfies the inductive invariant.
LEMMA InitIInv == Init => IInv
BY StateFacts, ShopAssumption
   DEF Init, IInv, TypeOK, ColumnsFollowState, ShopSuccessIsEvidenced,
       ShopRestartLabelled, CallsLegal, WorkersLegal, Waiting, NoLease, Errors,
       WorkerStates

\* Creation puts a queued row where there was nothing, and for a shop job a
\* thread or an error.
LEMMA CreateIInv ==
    ASSUME IInv, NEW j \in Jobs, Create(j)
    PROVE  IInv'
<1> USE ShopAssumption DEF Create, LoseThread, External, files
<1>1. TypeOK'
  BY StateFacts DEF IInv, TypeOK, WorkerStates
<1>2. ColumnsFollowState'
  BY StateFacts DEF IInv, TypeOK, ColumnsFollowState
<1>3. (bound \subseteq final)' /\ ShopSuccessIsEvidenced' /\ ShopRestartLabelled'
  BY DEF IInv, TypeOK, ShopSuccessIsEvidenced, ShopRestartLabelled
<1>4. CallsLegal'
  BY DEF IInv, CallsLegal
<1>5. WorkersLegal'
  BY DEF IInv, TypeOK, WorkersLegal, Waiting
<1> QED
  BY <1>1, <1>2, <1>3, <1>4, <1>5 DEF IInv

\* What a successful claim does to the columns of the row.
LEMMA ClaimRowColumns ==
    ASSUME TypeOK, ColumnsFollowState, NEW j \in Jobs, ClaimRow(j)
    PROVE  /\ state'   \in [Jobs -> States \union {"absent"}]
           /\ lease'   \in [Jobs -> Nat \union {NoLease}]
           /\ retries' \in [Jobs -> Nat]
           /\ ColumnsFollowState'
<1>1. state' \in [Jobs -> States \union {"absent"}]
  BY StateFacts DEF TypeOK, ClaimRow
<1>2. lease' \in [Jobs -> Nat \union {NoLease}]
  BY BoundAssumption DEF TypeOK, ClaimRow
<1>3. retries' \in [Jobs -> Nat]
  BY DEF TypeOK, ClaimRow
<1>4. ColumnsFollowState'
  BY StateFacts, BoundAssumption DEF TypeOK, ClaimRow, ColumnsFollowState, NoLease
<1> QED
  BY <1>1, <1>2, <1>3, <1>4

\* The read of a transition records a well-formed call for a permitted edge.
LEMMA TransitionReadCall ==
    ASSUME TypeOK, NEW j \in Jobs, NEW t \in States,
           NEW e \in Errors \union {"unset"}, TransitionRead(j, t, e)
    PROVE  /\ state[j] \in States
           /\ inflight' \subseteq Calls
           /\ inflight \subseteq inflight'
           /\ \E call \in inflight' :
                 call.job = j /\ call.seen = state[j] /\ call.target = t
           /\ \A call \in inflight' \ inflight :
                  /\ call.job = j /\ call.target = t
                  /\ <<call.seen, call.target>> \in Permitted
<1>1. state[j] \in States
  BY StateFacts DEF TypeOK, TransitionRead
<1>2. inflight' \subseteq Calls
  BY <1>1 DEF TypeOK, TransitionRead, Calls
<1>3. \A call \in inflight' \ inflight :
          /\ call.job = j /\ call.target = t /\ call.seen = state[j]
          /\ <<call.seen, call.target>> \in Permitted
  BY DEF TransitionRead
<1>4. \E call \in inflight' : call.job = j /\ call.seen = state[j] /\ call.target = t
  <2> DEFINE c == [job |-> j, seen |-> state[j], target |-> t, error |-> e]
  <2>1. c \in inflight'
    BY DEF TransitionRead
  <2>2. c.job = j /\ c.seen = state[j] /\ c.target = t
    OBVIOUS
  <2> QED
    BY <2>1, <2>2
<1> QED
  BY <1>1, <1>2, <1>3, <1>4 DEF TransitionRead

\* A claim through the API moves an external job and starts its lease.
LEMMA ExternalClaimIInv ==
    ASSUME IInv, NEW j \in Jobs, ExternalClaim(j)
    PROVE  IInv'
<1> USE DEF ExternalClaim, files
<1>1. TypeOK' /\ ColumnsFollowState'
  BY ClaimRowColumns DEF IInv, TypeOK, ClaimRow
<1>2. (bound \subseteq final)' /\ ShopSuccessIsEvidenced' /\ ShopRestartLabelled'
  BY DEF IInv, TypeOK, ClaimRow, ShopSuccessIsEvidenced, ShopRestartLabelled, External
<1>3. CallsLegal'
  BY DEF IInv, CallsLegal
<1>4. WorkersLegal'
  BY DEF IInv, TypeOK, ClaimRow, WorkersLegal, Waiting, External
<1> QED
  BY <1>1, <1>2, <1>3, <1>4 DEF IInv

\* The claim of a thread starts its job, or finds it cancelled and gives up.
LEMMA ThreadClaimIInv ==
    ASSUME IInv, NEW j \in Jobs, NEW before \in Waiting,
           NEW after \in WorkerStates \ ({"none"} \union Waiting),
           ThreadClaim(j, before, after)
    PROVE  IInv'
<1>1. j \in Shop /\ state[j] \in {"queued", "cancelled"}
  BY DEF IInv, WorkersLegal, Waiting, ThreadClaim
<1>2. CASE ClaimRow(j) /\ worker' = [worker EXCEPT ![j] = after]
  <2> USE <1>2 DEF ThreadClaim, files
  <2>1. TypeOK' /\ ColumnsFollowState'
    BY ClaimRowColumns DEF IInv, TypeOK, ClaimRow
  <2>2. (bound \subseteq final)' /\ ShopSuccessIsEvidenced' /\ ShopRestartLabelled'
    BY DEF IInv, TypeOK, ClaimRow, ShopSuccessIsEvidenced, ShopRestartLabelled
  <2>3. CallsLegal'
    BY DEF IInv, CallsLegal
  <2>4. WorkersLegal'
    BY <1>1 DEF IInv, TypeOK, ClaimRow, WorkersLegal, Waiting
  <2> QED
    BY <2>1, <2>2, <2>3, <2>4 DEF IInv
<1>3. CASE /\ state[j] \notin {"queued", "needs_human"}
           /\ worker' = [worker EXCEPT ![j] = "none"]
           /\ UNCHANGED rows
  <2> USE <1>3 DEF ThreadClaim, files, rows
  <2>1. TypeOK' /\ ColumnsFollowState' /\ CallsLegal'
    BY DEF IInv, TypeOK, WorkerStates, ColumnsFollowState, CallsLegal
  <2>2. (bound \subseteq final)' /\ ShopSuccessIsEvidenced' /\ ShopRestartLabelled'
    BY DEF IInv, ShopSuccessIsEvidenced, ShopRestartLabelled
  <2>3. WorkersLegal'
    BY <1>1 DEF IInv, TypeOK, WorkersLegal, Waiting
  <2> QED
    BY <2>1, <2>2, <2>3 DEF IInv
<1> QED
  BY <1>2, <1>3 DEF ThreadClaim

\* An error that ends a thread may leave its job queued or claimed, and marks it.
LEMMA ThreadDiesIInv ==
    ASSUME IInv, NEW j \in Jobs, ThreadDies(j)
    PROVE  IInv'
<1> USE DEF ThreadDies, LoseThread, files
<1>1. j \in Shop /\ worker[j] # "none"
  BY DEF IInv, WorkersLegal
<1>2. CallsLegal'
  BY DEF IInv, CallsLegal
<1>3. CASE UNCHANGED rows
  <2> USE <1>3 DEF rows
  <2>1. TypeOK' /\ ColumnsFollowState'
    BY <1>1 DEF IInv, TypeOK, WorkerStates, ColumnsFollowState
  <2>2. (bound \subseteq final)' /\ ShopSuccessIsEvidenced' /\ ShopRestartLabelled'
    BY DEF IInv, ShopSuccessIsEvidenced, ShopRestartLabelled
  <2>3. WorkersLegal'
    BY <1>1 DEF IInv, TypeOK, WorkersLegal, Waiting
  <2> QED
    BY <1>2, <2>1, <2>2, <2>3 DEF IInv
<1>4. CASE worker[j] \in Waiting /\ ClaimRow(j)
  <2> USE <1>4
  <2>1. TypeOK' /\ ColumnsFollowState'
    BY <1>1, ClaimRowColumns DEF IInv, TypeOK, ClaimRow, WorkerStates
  <2>2. (bound \subseteq final)' /\ ShopSuccessIsEvidenced' /\ ShopRestartLabelled'
    BY <1>1 DEF IInv, TypeOK, ClaimRow, ShopSuccessIsEvidenced, ShopRestartLabelled
  <2>3. WorkersLegal'
    BY <1>1 DEF IInv, TypeOK, ClaimRow, WorkersLegal, Waiting
  <2> QED
    BY <1>2, <2>1, <2>2, <2>3 DEF IInv
<1> QED
  BY <1>3, <1>4 DEF Waiting

\* The read of a requested transition only adds a legal call.
LEMMA RequestTransitionIInv ==
    ASSUME IInv, NEW j \in Jobs, NEW t \in States,
           NEW e \in {"unset", "reported", "operator_cancelled"},
           RequestTransition(j, t, e)
    PROVE  IInv'
<1> USE DEF RequestTransition, files, rows
<1>1. e \in Errors \union {"unset"} /\ TypeOK
  BY DEF IInv, Errors
<1>2. TypeOK' /\ ColumnsFollowState'
  BY <1>1, TransitionReadCall DEF IInv, TypeOK, ColumnsFollowState
<1>3. (bound \subseteq final)' /\ ShopSuccessIsEvidenced' /\ ShopRestartLabelled'
  BY DEF IInv, ShopSuccessIsEvidenced, ShopRestartLabelled
<1>4. CallsLegal'
  <2> SUFFICES ASSUME NEW c \in inflight'
               PROVE  /\ <<c.seen, c.target>> \in Permitted
                      /\ c.job \in Shop => c.target \in {"cancelled", "failed"}
    BY DEF CallsLegal
  <2>1. CASE c \in inflight
    BY <2>1 DEF IInv, CallsLegal
  <2>2. CASE c \in inflight' \ inflight
    BY <1>1, <2>2, TransitionReadCall DEF Allowed, External
  <2> QED
    BY <2>1, <2>2
<1>5. WorkersLegal'
  BY <1>1, TransitionReadCall DEF IInv, WorkersLegal
<1> QED
  BY <1>2, <1>3, <1>4, <1>5 DEF IInv

\* A thread that saw an exception leaves a failing transition behind, or a job
\* that is over.
LEMMA ThreadFailIInv ==
    ASSUME IInv, NEW j \in Jobs, NEW before \in WorkerStates \ ({"none"} \union Waiting),
           NEW e \in Errors, ThreadFail(j, before, e)
    PROVE  IInv'
<1> USE DEF ThreadFail, files, rows
<1>1. /\ TypeOK /\ CallsLegal /\ WorkersLegal
      /\ "failed" \in States /\ e \in Errors \union {"unset"}
  BY StateFacts DEF IInv
<1>2. TypeOK' /\ ColumnsFollowState'
  BY <1>1, TransitionReadCall DEF IInv, TypeOK, ColumnsFollowState, WorkerStates
<1>3. (bound \subseteq final)' /\ ShopSuccessIsEvidenced' /\ ShopRestartLabelled'
  BY DEF IInv, ShopSuccessIsEvidenced, ShopRestartLabelled
<1>4. CallsLegal'
  <2> SUFFICES ASSUME NEW c \in inflight'
               PROVE  /\ <<c.seen, c.target>> \in Permitted
                      /\ c.job \in Shop => c.target \in {"cancelled", "failed"}
    BY DEF CallsLegal
  <2>1. CASE c \in inflight
    BY <1>1, <2>1 DEF CallsLegal
  <2>2. CASE c \in inflight' \ inflight
    BY <1>1, <2>2, TransitionReadCall
  <2> QED
    BY <2>1, <2>2
<1>5. WorkersLegal'
  <2>1. inflight \subseteq inflight'
    BY <1>1, TransitionReadCall
  <2>2. state[j] = "running" =>
          \E call \in inflight' : call.job = j /\ call.seen = state[j] /\ call.target = "failed"
    BY <1>1, TransitionReadCall
  <2>3. state[j] \notin {"absent", "queued"}
    BY <1>1 DEF WorkersLegal
  <2> QED
    BY <1>1, <2>1, <2>2, <2>3 DEF TypeOK, WorkersLegal, Waiting
<1> QED
  BY <1>2, <1>3, <1>4, <1>5 DEF IInv

\* The guarded UPDATE of a call moves its job along the edge the call read, or
\* loses and changes nothing.
LEMMA TransitionWriteIInv ==
    ASSUME IInv, NEW call \in inflight, TransitionWrite(call)
    PROVE  IInv'
<1> DEFINE j == call.job
           t == call.target
<1>1. /\ j \in Jobs /\ t \in States /\ call.seen \in States
      /\ call.error \in Errors \union {"unset"}
      /\ <<call.seen, t>> \in Permitted
      /\ j \in Shop => t \in {"cancelled", "failed"}
  BY DEF IInv, TypeOK, Calls, CallsLegal
<1>2. inflight' \subseteq inflight /\ CallsLegal'
  BY DEF IInv, CallsLegal, TransitionWrite
<1>3. CASE Won(call)
  <2>1. state[j] = call.seen
    BY <1>3 DEF Won
  <2>2. /\ state' = [state EXCEPT ![j] = t]
        /\ lease' = [lease EXCEPT ![j] = LeaseAfter(j, t)]
        /\ completed' = IF t \in Terminal THEN completed \union {j} ELSE completed
        /\ error' = [error EXCEPT ![j] = IF call.error = "unset" THEN @ ELSE call.error]
        /\ retries' = [retries EXCEPT ![j] =
                          IF call.seen = "needs_human" /\ t = "running" THEN @ + 1 ELSE @]
        /\ UNCHANGED <<files, worker, dropped, phase, now>>
    BY <1>3 DEF TransitionWrite
  <2> HIDE DEF j, t
  <2>3. lease' \in [Jobs -> Nat \union {NoLease}]
    BY <1>1, <2>2, BoundAssumption DEF IInv, TypeOK, LeaseAfter, NoLease
  <2>4. retries' \in [Jobs -> Nat]
    BY <1>1, <2>2 DEF IInv, TypeOK
  <2>5. error' \in [Jobs -> Errors]
    BY <1>1, <2>2 DEF IInv, TypeOK
  <2>6. TypeOK'
    BY <1>1, <1>2, <2>2, <2>3, <2>4, <2>5 DEF IInv, TypeOK, files
  <2>7. ColumnsFollowState'
    <3>1. call.seen \notin Terminal
      BY <1>1, StateFacts
    <3>2. (LeaseAfter(j, t) # NoLease) <=> (t = "running")
      BY BoundAssumption DEF LeaseAfter, NoLease, IInv, TypeOK
    <3> QED
      BY <1>1, <2>1, <2>2, <3>1, <3>2, StateFacts DEF IInv, TypeOK, ColumnsFollowState
  <2>8. (bound \subseteq final)' /\ ShopSuccessIsEvidenced' /\ ShopRestartLabelled'
    BY <1>1, <2>2, ShopAssumption
       DEF IInv, TypeOK, files, ShopSuccessIsEvidenced, ShopRestartLabelled
  <2>9. WorkersLegal'
    <3>1. \A k \in Jobs : k # j => state'[k] = state[k]
      BY <1>1, <2>2 DEF IInv, TypeOK
    <3>2. state'[j] = t
      BY <1>1, <2>2 DEF IInv, TypeOK
    <3>3. worker[j] # "none" => t \in {"cancelled", "failed"}
      BY <1>1 DEF IInv, WorkersLegal
    <3>4. worker[j] \in Waiting => t = "cancelled"
      BY <1>1, <2>1, <3>3, StateFacts DEF IInv, WorkersLegal, Waiting
    <3>5. \A c \in inflight : c.job # j => c \in inflight'
      BY DEF TransitionWrite, j
    <3> QED
      BY <1>1, <2>2, <3>1, <3>2, <3>3, <3>4, <3>5 DEF IInv, WorkersLegal
  <2> QED
    BY <1>2, <2>6, <2>7, <2>8, <2>9 DEF IInv
<1>4. CASE ~Won(call)
  <2>1. UNCHANGED <<rows, files, worker, dropped, phase, now>>
    BY <1>4 DEF TransitionWrite
  <2>2. \A c \in inflight : c.job = j /\ c.seen = state[j] => c \in inflight'
    BY <1>4 DEF TransitionWrite, Won
  <2>3. \A c \in inflight : c.job # j => c \in inflight'
    BY DEF TransitionWrite
  <2>4. WorkersLegal'
    BY <2>1, <2>2, <2>3 DEF IInv, WorkersLegal, rows
  <2> QED
    BY <1>2, <2>1, <2>4 DEF IInv, TypeOK, ColumnsFollowState, ShopSuccessIsEvidenced,
       ShopRestartLabelled, rows, files
<1> QED
  BY <1>3, <1>4

\* An UPDATE that raises takes its call away, and marks the job when the call was
\* the one that fails it.
LEMMA TransitionErrorIInv ==
    ASSUME IInv, NEW call \in inflight, TransitionError(call)
    PROVE  IInv'
<1> USE DEF TransitionError, files, rows
<1>1. TypeOK' /\ ColumnsFollowState' /\ CallsLegal'
  BY DEF IInv, TypeOK, ColumnsFollowState, CallsLegal
<1>2. (bound \subseteq final)' /\ ShopSuccessIsEvidenced' /\ ShopRestartLabelled'
  BY DEF IInv, ShopSuccessIsEvidenced, ShopRestartLabelled
<1>3. WorkersLegal'
  <2>1. \A c \in inflight : c # call => c \in inflight'
    OBVIOUS
  <2>2. dropped \subseteq dropped'
    OBVIOUS
  <2>3. \A j \in Shop \ dropped' : ~(call.job = j /\ call.target = "failed")
    OBVIOUS
  <2> QED
    BY <2>1, <2>2, <2>3 DEF IInv, WorkersLegal
<1> QED
  BY <1>1, <1>2, <1>3 DEF IInv

\* The steps of a worker that leave the row alone.
LEMMA WorkerStepIInv ==
    ASSUME IInv, NEW j \in Jobs,
           WorkerRaise(j) \/ PersistResult(j) \/ FinalizeLost(j) \/ FinalizeRollback(j)
    PROVE  IInv'
<1> USE DEF WorkerRaise, PersistResult, FinalizeLost, FinalizeRollback, Rename, files, rows
<1>1. j \in Shop /\ state[j] \notin {"absent", "queued"}
  BY DEF IInv, WorkersLegal, Waiting
<1>2. TypeOK'
  BY <1>1 DEF IInv, TypeOK, WorkerStates
<1>3. ColumnsFollowState' /\ CallsLegal'
  BY DEF IInv, ColumnsFollowState, CallsLegal
<1>4. (bound \subseteq final)' /\ ShopSuccessIsEvidenced' /\ ShopRestartLabelled'
  BY DEF IInv, ShopSuccessIsEvidenced, ShopRestartLabelled
<1>5. WorkersLegal'
  BY <1>1 DEF IInv, TypeOK, WorkersLegal, Waiting
<1> QED
  BY <1>2, <1>3, <1>4, <1>5 DEF IInv

\* A committed finalisation decides a running job with its file and its row.
LEMMA FinalizeCommitIInv ==
    ASSUME IInv, NEW j \in Jobs, NEW f \in FinalStates, FinalizeCommit(j, f[1], f[2])
    PROVE  IInv'
<1> DEFINE t == f[1]
           e == f[2]
<1>1. /\ j \in Shop /\ phase = "up"
      /\ t \in {"succeeded", "failed", "needs_human"} /\ e \in Errors
  BY DEF IInv, WorkersLegal, FinalizeCommit, FinalStates, Errors
<1>2. /\ state' = [state EXCEPT ![j] = t]
      /\ lease' = [lease EXCEPT ![j] = NoLease]
      /\ completed' = IF t \in Terminal THEN completed \union {j} ELSE completed
      /\ error' = [error EXCEPT ![j] = e]
      /\ bound' = bound \union {j}
      /\ temp' = temp \ {j} /\ final' = final \union {j}
      /\ state[j] = "running"
      /\ worker' = [worker EXCEPT ![j] = "none"] \/ worker' = [worker EXCEPT ![j] = "raised"]
      /\ UNCHANGED <<retries, dropped, inflight, phase, now>>
  BY DEF FinalizeCommit, FinalizeRow, Rename
<1> HIDE DEF t, e
<1>3. TypeOK'
  BY <1>1, <1>2, StateFacts DEF IInv, TypeOK, WorkerStates
<1>4. ColumnsFollowState'
  BY <1>1, <1>2, StateFacts DEF IInv, TypeOK, ColumnsFollowState
<1>5. (bound \subseteq final)' /\ ShopSuccessIsEvidenced' /\ ShopRestartLabelled'
  BY <1>1, <1>2 DEF IInv, TypeOK, ShopSuccessIsEvidenced, ShopRestartLabelled
<1>6. CallsLegal'
  BY <1>2 DEF IInv, CallsLegal
<1>7. WorkersLegal'
  BY <1>1, <1>2 DEF IInv, TypeOK, WorkersLegal, Waiting
<1> QED
  BY <1>3, <1>4, <1>5, <1>6, <1>7 DEF IInv

\* A crash forgets workers and calls and nothing durable.
LEMMA CrashIInv ==
    ASSUME IInv, Crash
    PROVE  IInv'
BY DEF Crash, files, rows, IInv, TypeOK, WorkerStates, ColumnsFollowState,
       ShopSuccessIsEvidenced, ShopRestartLabelled, CallsLegal, WorkersLegal, Waiting

\* What a recovery does to the rows, whichever unfinished jobs it selects.
LEMMA HandOverColumns ==
    ASSUME TypeOK, ColumnsFollowState, NEW S \in SUBSET Jobs, NEW e \in [Jobs -> Errors],
           \A j \in S : state[j] \in {"queued", "running"}, HandOver(S, e)
    PROVE  /\ state' \in [Jobs -> States \union {"absent"}]
           /\ lease' \in [Jobs -> Nat \union {NoLease}]
           /\ completed' \subseteq Jobs
           /\ error' \in [Jobs -> Errors]
           /\ retries' \in [Jobs -> Nat]
           /\ ColumnsFollowState'
<1>1. ColumnsFollowState'
  BY StateFacts DEF TypeOK, HandOver, ColumnsFollowState
<1> QED
  BY <1>1, StateFacts DEF TypeOK, HandOver

\* The recovery of expired leases labels shop jobs for their worker.
LEMMA RecoverExpiredIInv ==
    ASSUME IInv, RecoverExpiredRunning
    PROVE  IInv'
<1> DEFINE S == {j \in Jobs : state[j] = "running" /\ lease[j] < now}
           e == [j \in Jobs |-> ExpiredError(j)]
<1>1. e \in [Jobs -> Errors] /\ HandOver(S, e)
  BY DEF RecoverExpiredRunning, ExpiredError, Errors
<1>2. S \in SUBSET Jobs /\ \A j \in S : state[j] \in {"queued", "running"}
  OBVIOUS
<1> HIDE DEF S, e
<1>3. TypeOK' /\ ColumnsFollowState'
  BY <1>1, <1>2, HandOverColumns DEF IInv, TypeOK, RecoverExpiredRunning, files
<1>4. (bound \subseteq final)' /\ ShopSuccessIsEvidenced' /\ ShopRestartLabelled'
  BY ShopAssumption DEF IInv, RecoverExpiredRunning, HandOver, ExpiredError, files,
     ShopSuccessIsEvidenced, ShopRestartLabelled
<1>5. CallsLegal'
  BY DEF IInv, CallsLegal, RecoverExpiredRunning
<1>6. WorkersLegal'
  BY DEF IInv, WorkersLegal, Waiting, RecoverExpiredRunning
<1> QED
  BY <1>3, <1>4, <1>5, <1>6 DEF IInv

\* The recovery of the shop worker leaves no shop job unfinished.
LEMMA RecoverInterruptedIInv ==
    ASSUME IInv, RecoverInterruptedWorkers
    PROVE  IInv'
<1> DEFINE S == {j \in Shop : Interrupted(j)}
           e == [j \in Jobs |-> "worker_restart_required"]
<1>1. /\ S \subseteq Jobs /\ e \in [Jobs -> Errors] /\ HandOver(S, e)
      /\ \A j \in S : state[j] \in {"queued", "running"}
  BY ShopAssumption DEF RecoverInterruptedWorkers, Interrupted, Errors
<1>2. TypeOK' /\ ColumnsFollowState'
  BY <1>1, HandOverColumns DEF IInv, TypeOK, RecoverInterruptedWorkers, files
<1>3. (bound \subseteq final)' /\ ShopSuccessIsEvidenced' /\ ShopRestartLabelled'
  BY ShopAssumption DEF IInv, RecoverInterruptedWorkers, HandOver, files,
     ShopSuccessIsEvidenced, ShopRestartLabelled
<1>4. CallsLegal'
  BY DEF IInv, CallsLegal, RecoverInterruptedWorkers
<1>5. WorkersLegal'
  <2>1. \A j \in Jobs : worker[j] = "none"
    BY DEF IInv, WorkersLegal, RecoverInterruptedWorkers
  <2>2. \A j \in Shop : state'[j] \notin {"queued", "running"}
    BY ShopAssumption DEF RecoverInterruptedWorkers, HandOver, Interrupted
  <2> QED
    BY <2>1, <2>2 DEF WorkersLegal, Waiting, RecoverInterruptedWorkers
<1> QED
  BY <1>2, <1>3, <1>4, <1>5 DEF IInv

\* Time changes nothing else.
LEMMA TickIInv ==
    ASSUME IInv, Tick
    PROVE  IInv'
BY DEF Tick, files, rows, IInv, TypeOK, ColumnsFollowState, ShopSuccessIsEvidenced,
       ShopRestartLabelled, CallsLegal, WorkersLegal

\* Every step keeps the inductive invariant.
LEMMA NextIInv == IInv /\ [Next]_vars => IInv'
<1> SUFFICES ASSUME IInv, [Next]_vars PROVE IInv'
  OBVIOUS
<1>1. ASSUME NEW j \in Jobs, Request(j) PROVE IInv'
  BY <1>1, CreateIInv, ExternalClaimIInv, RequestTransitionIInv DEF Request
<1>2. ASSUME NEW j \in Jobs, Worker(j) PROVE IInv'
  <2>1. CASE WorkerClaim(j) \/ ScheduleClaim(j)
    BY <2>1, ThreadClaimIInv DEF WorkerClaim, ScheduleClaim, Waiting, WorkerStates
  <2>2. CASE WorkerFail(j) \/ ScheduleFail(j)
    BY <2>2, ThreadFailIInv DEF WorkerFail, ScheduleFail, Waiting, WorkerStates, Errors
  <2> QED
    BY <1>2, <2>1, <2>2, ThreadDiesIInv, WorkerStepIInv, FinalizeCommitIInv DEF Worker
<1>3. CASE UNCHANGED vars
  BY <1>3 DEF vars, files, rows, IInv, TypeOK, ColumnsFollowState, ShopSuccessIsEvidenced,
     ShopRestartLabelled, CallsLegal, WorkersLegal
<1> QED
  BY <1>1, <1>2, <1>3, TransitionWriteIInv, TransitionErrorIInv, CrashIInv, RecoverExpiredIInv,
     RecoverInterruptedIInv, TickIInv DEF Next, Restart

LEMMA Inductive == Spec => []IInv
BY InitIInv, NextIInv, PTL DEF Spec

(***************************************************************************)
(* The theorems.                                                           *)
(***************************************************************************)

\* Type correctness, for every reachable state.
THEOREM TypeCorrect == Spec => []TypeOK
BY Inductive, PTL DEF IInv

\* The lease and the completion time always tell the state of the job.
THEOREM ColumnsCorrect == Spec => []ColumnsFollowState
BY Inductive, PTL DEF IInv

\* A shop job is never successful without the result file that proves it.
THEOREM SuccessIsEvidenced == Spec => []ShopSuccessIsEvidenced
BY Inductive, PTL DEF IInv

\* A shop job that a restart took over always says so.
THEOREM RestartIsLabelled == Spec => []ShopRestartLabelled
BY Inductive, PTL DEF IInv

\* A serving process leaves an unfinished shop job without a thread only when a
\* database error has ended that thread.
THEOREM NothingStranded == Spec => []NoStrandedShopJob
<1>1. IInv => NoStrandedShopJob
  BY ShopAssumption DEF IInv, WorkersLegal, NoStrandedShopJob
<1> QED
  BY Inductive, <1>1, PTL

\* Result bytes survive every step, and so do their bindings.
THEOREM EvidenceIsKept == Spec => EvidenceKept
<1> DEFINE Kept == /\ temp \union final \subseteq temp' \union final'
                   /\ bound \subseteq bound'
                   /\ bound' \subseteq final'
<1>1. IInv' => bound' \subseteq final'
  BY DEF IInv
<1>2. [Next]_vars => temp \union final \subseteq temp' \union final' /\ bound \subseteq bound'
  <2> USE DEF vars, rows, files
  <2>1. ASSUME NEW j \in Jobs, Request(j) PROVE UNCHANGED files
    BY <2>1 DEF Request, Create, ExternalClaim, RequestTransition
  <2>2. ASSUME NEW j \in Jobs, Worker(j)
        PROVE  temp \union final \subseteq temp' \union final' /\ bound \subseteq bound'
    BY <2>2 DEF Worker, WorkerClaim, ScheduleClaim, ThreadClaim, WorkerRaise, WorkerFail,
       ScheduleFail, ThreadFail, ThreadDies, PersistResult, FinalizeLost, FinalizeCommit, FinalizeRollback, FinalizeRow, Rename
  <2>3. ASSUME NEW call \in inflight, TransitionWrite(call) \/ TransitionError(call)
        PROVE  UNCHANGED files
    BY <2>3 DEF TransitionWrite, TransitionError
  <2>4. Crash \/ Restart \/ Tick => UNCHANGED files
    BY DEF Crash, Restart, RecoverExpiredRunning, RecoverInterruptedWorkers, Tick
  <2> QED
    BY <2>1, <2>2, <2>3, <2>4 DEF Next
<1>3. IInv' /\ [Next]_vars => [Kept]_vars
  BY <1>1, <1>2
<1> QED
  BY Inductive, <1>3, PTL DEF Spec, EvidenceKept

\* The job table refines its life cycle: every step is one of its steps or
\* leaves states and leases alone.
THEOREM RefinesLifecycle == Spec => ImplementsLifecycle
<1> DEFINE running == {j \in Jobs : state[j] = "running"}
<1>1. Init => L!Init
  BY DEF Init, L!Init
<1>2. ASSUME IInv, [Next]_vars PROVE [L!Next]_(L!vars)
  <2> USE <1>2 DEF rows, files
  <2>1. ASSUME NEW j \in Jobs, NEW t \in States, <<state[j], t>> \in Permitted,
               state' = [state EXCEPT ![j] = t]
        PROVE  L!Move(j)
    <3>1. running' = IF t = "running" THEN running \union {j} ELSE running \ {j}
      BY <2>1 DEF IInv, TypeOK
    <3> QED
      BY <2>1, <3>1 DEF L!Move, States, Permitted
  <2>2. ASSUME NEW S \in SUBSET Jobs, NEW e, HandOver(S, e),
               \A j \in S : state[j] \in {"queued", "running"}
        PROVE  L!HandOver(S)
    BY <2>2 DEF HandOver, L!HandOver
  <2>3. ASSUME NEW j \in Jobs, ClaimRow(j) PROVE L!Move(j)
    BY <2>1, <2>3, StateFacts DEF ClaimRow, IInv, TypeOK
  <2>4. ASSUME NEW j \in Jobs, Request(j) PROVE [L!Next]_(L!vars)
    <3>1. CASE Create(j)
      BY <3>1 DEF Create, IInv, TypeOK, L!Create, L!Next
    <3>2. CASE ExternalClaim(j)
      BY <2>3, <3>2 DEF ExternalClaim, L!Next
    <3>3. ASSUME NEW t, NEW e, RequestTransition(j, t, e) PROVE UNCHANGED L!vars
      BY <3>3 DEF RequestTransition, L!vars
    <3> QED
      BY <2>4, <3>1, <3>2, <3>3 DEF Request
  <2>5. ASSUME NEW j \in Jobs, Worker(j) PROVE [L!Next]_(L!vars)
    <3>1. CASE WorkerClaim(j) \/ ScheduleClaim(j) \/ ThreadDies(j)
      BY <2>3, <3>1 DEF WorkerClaim, ScheduleClaim, ThreadClaim, ThreadDies, L!Next, L!vars
    <3>2. ASSUME NEW f \in FinalStates, FinalizeCommit(j, f[1], f[2]) PROVE L!Next
      <4>1. f[1] \in {"succeeded", "failed", "needs_human"} /\ state[j] = "running"
        BY <3>2 DEF FinalizeCommit, FinalStates
      <4>2. f[1] \in States /\ <<state[j], f[1]>> \in Permitted
        BY <4>1, StateFacts
      <4> QED
        BY <2>1, <3>2, <4>2 DEF FinalizeCommit, FinalizeRow, L!Next
    <3>3. CASE \/ WorkerRaise(j) \/ WorkerFail(j) \/ ScheduleFail(j) \/ PersistResult(j)
               \/ FinalizeLost(j) \/ FinalizeRollback(j)
      BY <3>3 DEF WorkerRaise, WorkerFail, ScheduleFail, ThreadFail, PersistResult,
         FinalizeLost, FinalizeRollback, L!vars
    <3> QED
      BY <2>5, <3>1, <3>2, <3>3 DEF Worker
  <2>6. ASSUME NEW call \in inflight, TransitionWrite(call) PROVE [L!Next]_(L!vars)
    <3>1. CASE Won(call)
      <4>1. /\ call.job \in Jobs /\ call.target \in States
            /\ <<state[call.job], call.target>> \in Permitted
        BY <3>1 DEF Won, IInv, TypeOK, Calls, CallsLegal
      <4>2. state' = [state EXCEPT ![call.job] = call.target]
        BY <2>6, <3>1 DEF TransitionWrite
      <4> QED
        BY <2>1, <4>1, <4>2 DEF L!Next
    <3>2. CASE ~Won(call)
      BY <2>6, <3>2 DEF TransitionWrite, L!vars
    <3> QED
      BY <3>1, <3>2
  <2>7. CASE RecoverExpiredRunning
    BY <2>2, <2>7 DEF RecoverExpiredRunning, L!Next
  <2>8. CASE RecoverInterruptedWorkers
    <3>1. {j \in Shop : Interrupted(j)} \subseteq Jobs
      BY ShopAssumption
    <3> QED
      BY <2>2, <2>8, <3>1 DEF RecoverInterruptedWorkers, Interrupted, L!Next
  <2>9. CASE \/ \E call \in inflight : TransitionError(call)
             \/ Crash \/ Tick \/ UNCHANGED vars
    BY <2>9 DEF TransitionError, Crash, Tick, vars, L!vars
  <2> QED
    BY <2>4, <2>5, <2>6, <2>7, <2>8, <2>9 DEF Next, Restart
<1> QED
  BY <1>1, <1>2, Inductive, PTL DEF Spec, ImplementsLifecycle, L!Spec
=============================================================================
