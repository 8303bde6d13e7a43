---------------------------- MODULE ArtifactProofs ----------------------------
(***************************************************************************)
(* Theorems about ArtifactCleanup, for any managed paths and any number of *)
(* worker processes.                                                       *)
(*                                                                         *)
(* The argument rests on two facts that no single look of a worker         *)
(* establishes.  A path whose writer is still to bind it was never claimed *)
(* (Untouched), so that what the worker found unreferenced stays so.  And  *)
(* once claimed, a path is never written again, so that bytes a worker has *)
(* seen missing stay missing, even when it has lost its lease (Looks).     *)
(***************************************************************************)
EXTENDS ArtifactCleanup, TLAPS

\* No worker has the row, and nothing of it is in quarantine.
Untouched(r) == quar[r] # "bytes" /\ \A w \in Workers : row[w] # r /\ r \notin owned[w]

\* What a writer in progress means for its row.
Writers ==
    \A r \in Rows :
        /\ writer[r] = "write" => state[r] = "pending" /\ r \notin due
        /\ writer[r] # "none" => owner[r] \notin {"live", "failed"}
        /\ state[r] = "absent" => /\ writer[r] = "none" /\ owner[r] = "none"
                                  /\ orig[r] # "bytes" /\ r \notin due
        /\ writer[r] # "none" /\ state[r] = "pending" => Untouched(r)
        /\ state[r] \in {"absent", "cancelled"} => Untouched(r)

OrigGone(w) == orig[row[w]] # "bytes"
QuarGone(w) == quar[row[w]] # "bytes"

\* What a worker may conclude from what it saw, its lease lost or not.
Looks ==
    \A w \in Workers :
        /\ pc[w] \in Processing \union {"renamed", "shutdown", "armed"} => row[w] # None
        /\ pc[w] = "target" /\ saw[w] = "missing" => OrigGone(w)
        /\ pc[w] = "issue" /\ saw[w] = "missing" => OrigGone(w) /\ QuarGone(w)
        /\ pc[w] \in {"verify", "move"} => owner[row[w]] \notin {"building", "live"}
        /\ pc[w] \in {"look_quarantine", "references", "handle", "arm", "armed", "missing"} =>
              OrigGone(w)
        /\ pc[w] = "references" /\ saw[w] = "missing" => QuarGone(w)
        /\ pc[w] = "missing" => QuarGone(w)
        /\ pc[w] \in Deleting /\ state[row[w]] = "claimed" /\ token[row[w]] = w =>
              row[w] \in moved

\* A worker that has armed the deletion holds the database's lock, its lease is
\* the one of the row, nothing refers to the row, and it was in quarantine.
Armed ==
    \A w \in Workers :
        /\ lock = w <=> pc[w] = "armed"
        /\ pc[w] = "armed" => /\ state[row[w]] = "claimed" /\ token[row[w]] = w
                              /\ ~Ref(row[w])
                              /\ row[w] \in moved

IInv == TypeOK /\ BytesAreTracked /\ Writers /\ Looks /\ Armed

\* A worker in process_one has a row.
LEMMA HasRow ==
    ASSUME IInv, NEW w \in Workers, pc[w] \in Processing \union {"renamed", "shutdown", "armed"}
    PROVE  row[w] \in Rows
BY DEF IInv, TypeOK, Looks
-----------------------------------------------------------------------------
\* The initial state satisfies the inductive invariant.
LEMMA InitIInv == Init => IInv
<1> SUFFICES ASSUME Init PROVE IInv
  OBVIOUS
<1> USE WorkersAssumption, RowsAssumption DEF Init
<1>1. TypeOK /\ BytesAreTracked
  BY DEF TypeOK, TokenMeansClaimed, States, Contents, Places, BytesAreTracked,
     MovedBytesAreTracked, LooseBytesAreQueued
<1>2. Writers /\ Looks /\ Armed
  BY DEF Writers, Untouched, Looks, Processing, Quarantining, Deleting, Outcomes, Armed
<1> QED
  BY <1>1, <1>2 DEF IInv

\* The conditions of IInv on the bytes, with their definitions together.
LEMMA Bytes ==
    BytesAreTracked <=>
        \A r \in Rows : /\ quar[r] = "bytes" => state[r] \in OpenStates
                        /\ state[r] = "deleted" => quar[r] # "bytes" /\ orig[r] # "bytes"
                        /\ orig[r] = "bytes" /\ ~Ref(r) => state[r] \in OpenStates
BY DEF BytesAreTracked, MovedBytesAreTracked, LooseBytesAreQueued

\* A reservation makes a row for a path nobody has touched.
LEMMA ReserveIInv ==
    ASSUME IInv, NEW r \in Rows, Reserve(r)
    PROVE  IInv'
<1> USE DEF IInv, Reserve, WriterOnly, CanWrite, disk, local
<1>1. Untouched(r) /\ orig[r] # "bytes"
  BY DEF Writers
<1>2. TypeOK'
  BY DEF TypeOK, TokenMeansClaimed, States
<1>3. BytesAreTracked'
  BY <1>1, Bytes DEF TypeOK, BytesAreTracked, MovedBytesAreTracked, LooseBytesAreQueued,
     OpenStates, Ref
<1>4. Writers'
  <2>1. UNCHANGED <<quar, row, owned>>
    OBVIOUS
  <2>2. \A q \in Rows : Untouched(q)' <=> Untouched(q)
    BY <2>1 DEF Untouched
  <2>3. r \notin due /\ owner'[r] \in {"building", "none"}
    BY DEF TypeOK, Writers
  <2> QED
    BY <1>1, <2>2, <2>3 DEF TypeOK, Writers
<1>5. Looks' /\ Armed'
  <2>1. \A w \in Workers : row[w] # r
    BY <1>1 DEF Untouched
  <2>2. \A q \in Rows \ {r} : state'[q] = state[q] /\ owner'[q] = owner[q]
    BY DEF TypeOK
  <2> QED
    BY <2>1, <2>2 DEF TypeOK, Looks, OrigGone, QuarGone, Armed, Ref, Deleting, Processing,
       Quarantining, Outcomes
<1> QED
  BY <1>2, <1>3, <1>4, <1>5

\* The write of the file: the only step that puts bytes at a managed path.
LEMMA WriteIInv ==
    ASSUME IInv, NEW r \in Rows, Write(r)
    PROVE  IInv'
<1> USE DEF IInv, TypeOK, Write, WriterOnly, record, facts, local
<1>1. state[r] = "pending" /\ Untouched(r)
  BY DEF Writers
<1>2. TypeOK'
  BY DEF TokenMeansClaimed, Contents
<1>3. BytesAreTracked'
  BY <1>1, Bytes DEF BytesAreTracked, MovedBytesAreTracked, LooseBytesAreQueued, OpenStates, Ref
<1>4. Writers'
  BY <1>1 DEF Writers, Untouched
<1>5. Looks' /\ Armed'
  BY <1>1 DEF Looks, Untouched, OrigGone, QuarGone, Armed, Ref, Deleting, Processing,
     Quarantining, Outcomes
<1> QED
  BY <1>2, <1>3, <1>4, <1>5

\* The other ends of a writer: it binds the path, gives up, or dies.
LEMMA WriterEndsIInv ==
    ASSUME IInv, NEW r \in Rows, Bind(r) \/ BindFails(r) \/ GiveUp(r) \/ WriterDies(r)
    PROVE  IInv'
<1> USE DEF IInv, TypeOK, Bind, Bindable, BindFails, GiveUp, GivesUp, WriterDies, WriterOnly,
            IsPackage, CanWrite, disk, local
<1>1. Bind(r) => Untouched(r)
  BY DEF Writers
<1>2. TypeOK'
  BY DEF TokenMeansClaimed, States
<1>3. BytesAreTracked'
  BY <1>1 DEF BytesAreTracked, MovedBytesAreTracked, LooseBytesAreQueued, Untouched,
     OpenStates, Ref
<1>4. Writers'
  BY DEF Writers, Untouched
<1>5. Looks'
  BY <1>1 DEF Looks, Untouched, OrigGone, QuarGone, Deleting, Processing, Quarantining, Outcomes
<1>6. Armed'
  BY <1>1 DEF Armed, Ref, Untouched
<1> QED
  BY <1>2, <1>3, <1>4, <1>5, <1>6

\* A path that is replaced is queued again, and its generation is gone.
LEMMA ReplaceIInv ==
    ASSUME IInv, NEW r \in Rows, Replace(r)
    PROVE  IInv'
<1> USE DEF IInv, TypeOK, Replace, Enqueued, WriterOnly, CanWrite, disk, local
<1>1. TypeOK'
  BY DEF TokenMeansClaimed, States, OpenStates
<1>2. BytesAreTracked'
  BY DEF BytesAreTracked, MovedBytesAreTracked, LooseBytesAreQueued, OpenStates, Ref
<1>3. Writers'
  BY DEF Writers, Untouched, OpenStates
<1>4. Looks' /\ Armed'
  BY DEF Looks, OrigGone, QuarGone, Armed, Ref, OpenStates, Deleting, Processing,
     Quarantining, Outcomes
<1> QED
  BY <1>1, <1>2, <1>3, <1>4

\* What happens around them takes nothing from a row but its lease.
LEMMA AroundIInv ==
    ASSUME IInv, NEW r \in Rows, Around(r)
    PROVE  IInv'
<1> USE DEF IInv, TypeOK, Around, Refer, Tamper, BecomeDue, Expire, CanWrite,
            record, facts, disk, local
<1>1. TypeOK'
  BY DEF TokenMeansClaimed, Contents
<1>2. BytesAreTracked'
  BY DEF BytesAreTracked, MovedBytesAreTracked, LooseBytesAreQueued, Ref
<1>3. Writers'
  BY DEF Writers, Untouched, Claimable
<1>4. Looks'
  <2>1. \A q \in Rows : /\ orig[q] # "bytes" => orig'[q] # "bytes"
                       /\ quar[q] # "bytes" => quar'[q] # "bytes"
    OBVIOUS
  <2>2. UNCHANGED <<pc, row, saw, state, token, owner, moved>>
    OBVIOUS
  <2> QED
    BY <2>1, <2>2 DEF Looks, OrigGone, QuarGone, Processing, Deleting, Quarantining, Outcomes
<1>5. Armed'
  BY WorkersAssumption DEF Armed, Ref
<1> QED
  BY <1>1, <1>2, <1>3, <1>4, <1>5

\* A claim takes a row that is due, so that its writer has done with the file.
LEMMA ClaimIInv ==
    ASSUME IInv, NEW w \in Workers, NEW r \in Rows, Claim(w, r)
    PROVE  IInv'
<1> USE DEF IInv, TypeOK, Claim, WriteOnly, WorkerOnly, CanWrite, facts, disk
<1>1. TypeOK'
  BY WorkersAssumption DEF TokenMeansClaimed, States
<1>2. BytesAreTracked'
  BY DEF BytesAreTracked, MovedBytesAreTracked, LooseBytesAreQueued, OpenStates, Ref
<1>3. Writers'
  BY DEF Writers, Untouched, Claimable
<1>4. Looks'
  BY DEF Looks, OrigGone, QuarGone, Deleting, Processing, Quarantining, Outcomes, Claimable
<1>5. Armed'
  BY DEF Armed, Ref, Claimable
<1> QED
  BY <1>1, <1>2, <1>3, <1>4, <1>5

\* A step of a worker that only reads disturbs what the workers may conclude,
\* and nothing else, when it acquires no row it did not own.
LEMMA LookOnlyIInv ==
    ASSUME IInv, LookOnly, TypeOK', Looks', Armed',
           \A v \in Workers, r \in Rows :
               /\ row'[v] = r => row[v] = r \/ r \in owned[v]
               /\ r \in owned'[v] => r \in owned[v]
    PROVE  IInv'
<1> USE DEF LookOnly, WorkerOnly, record, facts, disk
<1>1. BytesAreTracked'
  BY DEF IInv, BytesAreTracked, MovedBytesAreTracked, LooseBytesAreQueued, Ref
<1>2. \A r \in Rows : Untouched(r) => Untouched(r)'
  BY DEF Untouched
<1>3. Writers'
  BY <1>2 DEF IInv, Writers
<1> QED
  BY <1>1, <1>3 DEF IInv

\* The batch: its rows are taken one by one, and the worker polls again.
LEMMA BatchIInv ==
    ASSUME IInv, NEW w \in Workers,
           BeginBatch(w) \/ EndBatch(w) \/ \E r \in Rows : Take(w, r)
    PROVE  IInv'
<1> USE DEF TypeOK, BeginBatch, EndBatch, Take, Goto, LookOnly, WorkerOnly, record, facts, disk
<1>1. TypeOK'
  BY DEF IInv, TokenMeansClaimed, Places, Processing, Quarantining, Deleting
<1>2. Looks'
  BY RowsAssumption DEF IInv, Looks, OrigGone, QuarGone, Deleting, Processing, Quarantining,
     Outcomes
<1>3. Armed'
  BY DEF IInv, Armed, Ref
<1>4. \A v \in Workers, r \in Rows : /\ row'[v] = r => row[v] = r \/ r \in owned[v]
                                     /\ r \in owned'[v] => r \in owned[v]
  BY RowsAssumption DEF IInv
<1> QED
  BY <1>1, <1>2, <1>3, <1>4, LookOnlyIInv

\* The looks of _quarantine and _delete_quarantined: what one shows stays so.
LEMMA LookIInv ==
    ASSUME IInv, NEW w \in Workers,
           \/ Look(w) \/ Target(w) \/ Issue(w) \/ Verify(w) \/ Renamed(w) \/ Moved(w)
           \/ LookOriginal(w) \/ LookQuarantine(w) \/ References(w) \/ OpenHandle(w)
    PROVE  IInv'
<1> USE DEF TypeOK, Look, Target, AfterTarget, Issue, AfterIssue, Verify, Renamed, Moved,
            LookOriginal, LookQuarantine, References, OpenHandle, Step, LookOnly, WorkerOnly,
            record, facts, disk
<1>1. pc[w] # "armed" /\ pc'[w] # "armed" /\ row[w] \in Rows
  BY DEF IInv, Looks, Processing, Quarantining, Deleting
<1>2. TypeOK'
  BY <1>1 DEF IInv, TokenMeansClaimed, Places, Processing, Quarantining, Deleting, Outcomes,
     Contents
<1>3. Looks'
  BY <1>1 DEF IInv, Looks, OrigGone, QuarGone, Ref, Deleting, Processing, Quarantining, Outcomes
<1>4. Armed'
  BY <1>1 DEF IInv, Armed, Ref
<1>5. \A v \in Workers : row'[v] = row[v] /\ owned'[v] = owned[v]
  OBVIOUS
<1> QED
  BY <1>2, <1>3, <1>4, <1>5, LookOnlyIInv

\* A worker that leaves its program for whatever reason knows nothing more.
LEMMA LeaveIInv ==
    ASSUME IInv, NEW w \in Workers, Raise(w) \/ DatabaseError(w) \/ Notice(w)
    PROVE  IInv'
<1> USE DEF TypeOK, Raise, DatabaseError, Notice, Goto, LookOnly, WorkerOnly, record, facts, disk
<1>1. TypeOK'
  BY DEF IInv, TokenMeansClaimed, Places, Processing, Outcomes
<1>2. Looks'
  BY DEF IInv, Looks, OrigGone, QuarGone, Deleting, Processing, Quarantining, Outcomes
<1>3. Armed'
  BY DEF IInv, Armed, Ref, Deleting, Processing, Quarantining, Outcomes
<1>4. \A v \in Workers, r \in Rows : /\ row'[v] = r => row[v] = r \/ r \in owned[v]
                                     /\ r \in owned'[v] => r \in owned[v]
  BY RowsAssumption DEF IInv
<1> QED
  BY <1>1, <1>2, <1>3, <1>4, LookOnlyIInv

\* The rename: the row of a worker that is about to move bytes is open, whoever
\* has its lease, since its bytes have been there all along.
LEMMA MoveIInv ==
    ASSUME IInv, NEW w \in Workers, Move(w)
    PROVE  IInv'
<1>1. row[w] \in Rows /\ pc[w] # "armed"
  <2>1. pc[w] = "move"
    BY DEF Move
  <2>2. pc[w] \in Processing
    BY <2>1 DEF Processing, Quarantining
  <2> QED
    BY <2>1, <2>2, HasRow
<1> USE DEF IInv, TypeOK, Move, Goto, WorkerOnly, record, facts
<1>2. TypeOK'
  BY <1>1 DEF TokenMeansClaimed, Contents, Places, Processing, Outcomes, disk
<1>3. BytesAreTracked'
  <2>1. orig[row[w]] = "bytes" => state[row[w]] \in OpenStates
    BY <1>1 DEF BytesAreTracked, MovedBytesAreTracked, Writers, Untouched, States, OpenStates
  <2>2. UNCHANGED <<state, owner, alias>>
    OBVIOUS
  <2>3. \A q \in Rows : /\ q # row[w] => orig'[q] = orig[q] /\ quar'[q] = quar[q]
                        /\ orig'[q] = "bytes" => orig[q] = "bytes"
    BY <1>1 DEF disk
  <2>4. quar'[row[w]] = "bytes" => orig[row[w]] = "bytes" \/ quar[row[w]] = "bytes"
    BY <1>1 DEF disk
  <2> QED
    BY <1>1, <2>1, <2>2, <2>3, <2>4 DEF BytesAreTracked, MovedBytesAreTracked,
       LooseBytesAreQueued, OpenStates, Ref
<1>4. Writers'
  BY <1>1 DEF Writers, Untouched, disk
<1>5. Looks'
  BY <1>1 DEF Looks, OrigGone, QuarGone, Deleting, Processing, Quarantining, Outcomes, disk
<1>6. Armed'
  BY <1>1 DEF Armed, Ref
<1> QED
  BY <1>2, <1>3, <1>4, <1>5, <1>6

\* The commits of a worker: after a rename, before a person, or of a removal.
LEMMA CommitIInv ==
    ASSUME IInv, NEW w \in Workers,
           \/ CommitQuarantine(w) \/ RecordShutdown(w)
           \/ Decide(w, "human", "needs_human")
           \/ Decide(w, "moved_human", "needs_human")
           \/ Decide(w, "missing", "deleted")
    PROVE  IInv'
<1>1. row[w] \in Rows /\ pc[w] # "armed"
  <2>1. pc[w] \in {"commit", "shutdown", "human", "moved_human", "missing"}
    BY DEF CommitQuarantine, RecordShutdown, Decide
  <2>2. pc[w] \in Processing \union {"shutdown"}
    BY <2>1 DEF Processing, Quarantining, Outcomes
  <2> QED
    BY <2>1, <2>2, HasRow
<1> USE DEF IInv, TypeOK, CommitQuarantine, RecordShutdown, Decide, Release, Goto, Owned,
            CanWrite, WriteOnly, WorkerOnly, record, facts, disk
<1>2. TypeOK'
  BY <1>1, WorkersAssumption DEF TokenMeansClaimed, States, Places, Processing, Outcomes
<1>3. BytesAreTracked'
  BY <1>1 DEF BytesAreTracked, MovedBytesAreTracked, LooseBytesAreQueued, OpenStates, Ref,
     Looks, OrigGone, QuarGone
<1>4. Writers'
  BY <1>1 DEF Writers, Untouched
<1>5. Looks'
  BY <1>1 DEF Looks, OrigGone, QuarGone, Deleting, Processing, Quarantining, Outcomes
<1>6. Armed'
  BY <1>1, WorkersAssumption DEF Armed, Ref
<1> QED
  BY <1>2, <1>3, <1>4, <1>5, <1>6

\* The deletion: armed under the lock, then committed or taken back.
LEMMA DeleteIInv ==
    ASSUME IInv, NEW w \in Workers, Arm(w) \/ CommitDelete(w) \/ Disarm(w)
    PROVE  IInv'
<1> USE DEF IInv, TypeOK, Arm, Authorized, CommitDelete, Disarm, Release, Erase, Goto, Owned,
            CanWrite, WorkerOnly, record, facts, disk
<1>1. row[w] \in Rows
  BY DEF Looks, Processing, Deleting
<1>2. TypeOK'
  BY <1>1, WorkersAssumption DEF TokenMeansClaimed, States, Contents, Places, Processing,
     Outcomes
<1>3. BytesAreTracked'
  BY <1>1 DEF BytesAreTracked, MovedBytesAreTracked, LooseBytesAreQueued, OpenStates, Ref,
     Looks, Armed, OrigGone
<1>4. Writers'
  BY <1>1 DEF Writers, Untouched, Armed
<1>5. Looks'
  BY <1>1 DEF Looks, OrigGone, QuarGone, Deleting, Processing, Quarantining, Outcomes
<1>6. Armed'
  BY <1>1, WorkersAssumption DEF Armed, Looks, Deleting, Ref
<1> QED
  BY <1>2, <1>3, <1>4, <1>5, <1>6

\* A shutdown is asked for, or the process dies, maybe with the deletion armed.
LEMMA EndIInv ==
    ASSUME IInv, NEW w \in Workers, Close(w) \/ Crash(w)
    PROVE  IInv'
<1> USE DEF IInv, TypeOK, Close, Crash, Erase, record, facts, local
<1>1. lock = w => row[w] \in Rows
  BY DEF Armed, Looks
<1>2. TypeOK'
  BY <1>1 DEF TokenMeansClaimed, Contents, Places, disk
<1>3. BytesAreTracked'
  BY <1>1 DEF BytesAreTracked, MovedBytesAreTracked, LooseBytesAreQueued, Ref, disk
<1>4. Writers'
  BY <1>1, RowsAssumption DEF Writers, Untouched, disk
<1>5. Looks'
  BY <1>1 DEF Looks, OrigGone, QuarGone, Deleting, Processing, Quarantining, Outcomes, disk
<1>6. Armed'
  BY WorkersAssumption DEF Armed, Ref
<1> QED
  BY <1>2, <1>3, <1>4, <1>5, <1>6

\* A start fails the leftover builds and frees the expired claims.  The other
\* processes may be anywhere, but none holds the lock.
LEMMA StartIInv ==
    ASSUME IInv, NEW w \in Workers, Start(w)
    PROVE  IInv'
<1> USE DEF IInv, TypeOK, Start, Building, RecoveredState, CanWrite, disk
<1>1. TypeOK'
  BY DEF TokenMeansClaimed, States, OpenStates, Places
<1>2. BytesAreTracked'
  BY DEF BytesAreTracked, MovedBytesAreTracked, LooseBytesAreQueued, OpenStates, Ref
<1>3. Writers'
  BY DEF Writers, Untouched
<1>4. Looks'
  BY WorkersAssumption DEF Looks, OrigGone, QuarGone, Deleting, Processing, Quarantining,
     Outcomes
<1>5. Armed'
  BY WorkersAssumption DEF Armed, Ref
<1> QED
  BY <1>1, <1>2, <1>3, <1>4, <1>5

\* A step that changes nothing.
LEMMA StutterIInv == IInv /\ UNCHANGED vars => IInv'
BY DEF vars, record, facts, disk, local, IInv, TypeOK, TokenMeansClaimed, BytesAreTracked,
   MovedBytesAreTracked, LooseBytesAreQueued, Writers, Untouched, Looks, OrigGone, QuarGone,
   Armed, Ref

\* Every step preserves the invariant.
LEMMA NextIInv == IInv /\ [Next]_vars => IInv'
<1> SUFFICES ASSUME IInv, [Next]_vars PROVE IInv'
  OBVIOUS
<1>1. ASSUME NEW r \in Rows, Content(r) PROVE IInv'
  BY <1>1, ReserveIInv, WriteIInv, WriterEndsIInv, ReplaceIInv DEF Content
<1>2. ASSUME NEW r \in Rows, Around(r) PROVE IInv'
  BY <1>2, AroundIInv
<1>3. ASSUME NEW w \in Workers, Process(w) PROVE IInv'
  BY <1>3, ClaimIInv, BatchIInv, LookIInv, MoveIInv, CommitIInv, DeleteIInv, LeaveIInv
     DEF Process
<1>4. ASSUME NEW w \in Workers, Raise(w) \/ DatabaseError(w) \/ Close(w) \/ Crash(w) \/ Start(w)
      PROVE  IInv'
  BY <1>4, LeaveIInv, EndIInv, StartIInv
<1> QED
  BY <1>1, <1>2, <1>3, <1>4, StutterIInv DEF Next
-----------------------------------------------------------------------------
\* The invariant holds in every reachable state: what writers, workers, crashes and
\* starts may assume of a path at each of their steps.
THEOREM ArtifactInductive == Spec => []IInv
BY InitIInv, NextIInv, PTL DEF Spec

\* Every variable keeps its type, and a row carries a lease token exactly while it
\* is claimed.
THEOREM TypesHold == Spec => []TypeOK
<1>1. IInv => TypeOK
  BY DEF IInv
<1> QED
  BY <1>1, ArtifactInductive, PTL

\* No byte of a managed path is lost sight of: bytes in quarantine and bytes that
\* nothing refers to have an open row, and a deleted row has no bytes left.
THEOREM BytesAreAlwaysTracked == Spec => []BytesAreTracked
<1>1. IInv => BytesAreTracked
  BY DEF IInv
<1> QED
  BY <1>1, ArtifactInductive, PTL

\* The file of a bound artifact is never taken away, and bytes are erased only from
\* quarantine and only while nothing refers to them.
THEOREM WantedBytesAlwaysStay == Spec => WantedBytesStay
<1> DEFINE Stay(r) == /\ owner[r] = "live" /\ orig[r] = "bytes" => orig'[r] # "missing"
                      /\ quar[r] = "bytes" /\ quar'[r] = "missing" => ~Ref(r) /\ r \in moved
<1>1. ASSUME IInv, Next PROVE \A r \in Rows : Stay(r)
  <2> SUFFICES ASSUME NEW r \in Rows PROVE Stay(r)
    OBVIOUS
  <2>t. orig \in [Rows -> Contents] /\ quar \in [Rows -> Contents]
    BY <1>1 DEF IInv, TypeOK
  <2>1. CASE UNCHANGED disk
    BY <2>1 DEF disk
  <2>2. CASE \E q \in Rows : Content(q) \/ Around(q)
    BY <2>t, <2>2 DEF Content, Reserve, Write, Bind, BindFails, GiveUp, WriterDies, Replace,
       WriterOnly, Around, Refer, Tamper, BecomeDue, Expire, disk
  <2>3. ASSUME NEW w \in Workers, Move(w) PROVE Stay(r)
    <3>1. row[w] \in Rows /\ owner[row[w]] \notin {"building", "live"}
      BY <1>1, <2>3, HasRow DEF Move, IInv, Looks, Processing, Quarantining
    <3> QED
      BY <2>t, <2>3, <3>1 DEF Move, disk
  <2>4. ASSUME NEW w \in Workers, CommitDelete(w) \/ Disarm(w) \/ Crash(w) PROVE Stay(r)
    <3>1. lock = w => ~Ref(row[w]) /\ row[w] \in moved
      BY <1>1 DEF IInv, Armed
    <3>2. UNCHANGED disk \/ (lock = w /\ Erase(row[w]))
      BY <1>1, <2>4 DEF CommitDelete, Disarm, Crash, IInv, Armed
    <3> QED
      BY <2>t, <3>1, <3>2 DEF Erase, disk
  <2>5. ASSUME NEW w \in Workers,
               \/ CommitQuarantine(w) \/ RecordShutdown(w)
               \/ Decide(w, "human", "needs_human")
               \/ Decide(w, "moved_human", "needs_human")
               \/ Decide(w, "missing", "deleted")
               \/ Arm(w) \/ \E q \in Rows : Claim(w, q)
        PROVE  UNCHANGED disk
    BY <2>5 DEF CommitQuarantine, RecordShutdown, Decide, Arm, Claim, WriteOnly, disk
  <2>6. ASSUME NEW w \in Workers,
               \/ \E q \in Rows : Take(w, q)
               \/ BeginBatch(w) \/ EndBatch(w) \/ Notice(w)
               \/ Look(w) \/ Target(w) \/ Issue(w) \/ Verify(w) \/ Renamed(w) \/ Moved(w)
               \/ LookOriginal(w) \/ LookQuarantine(w) \/ References(w) \/ OpenHandle(w)
               \/ Raise(w) \/ DatabaseError(w) \/ Close(w) \/ Start(w)
        PROVE  UNCHANGED disk
    BY <2>6 DEF Take, BeginBatch, EndBatch, Notice, Look, Target, Issue, Verify, Renamed, Moved,
       LookOriginal, LookQuarantine, References, OpenHandle, Raise, DatabaseError, Close, Start,
       Step, LookOnly, disk
  <2> QED
    BY <1>1, <2>1, <2>2, <2>3, <2>4, <2>5, <2>6 DEF Next, Process
<1>2. IInv /\ [Next]_vars => [\A r \in Rows : Stay(r)]_vars
  BY <1>1
<1> QED
  BY <1>2, ArtifactInductive, PTL DEF Spec, WantedBytesStay
=============================================================================
