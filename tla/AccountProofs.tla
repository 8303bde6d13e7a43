---------------------------- MODULE AccountProofs ----------------------------
(***************************************************************************)
(* Theorems about AccountCollection, for any collections, any number of    *)
(* processes, at once or one after the other, and any number of errors.    *)
(*                                                                         *)
(* A lease may lapse under a process that works, and another may take its  *)
(* row.  While it is the owner, the place of a task says what row and      *)
(* files are (Tasks), and an owner once overtaken never is one again, so   *)
(* nothing has to be known of it: but for the writer of a stage, who holds *)
(* a file no row knows of (Lost).  That is harmless because two processes  *)
(* ran, and whoever closes the row ends its job.                           *)
(***************************************************************************)
EXTENDS AccountCollection, SequenceTheorems, TLAPS

Phases     == {"unborn", "dead", "up", "fenced", "draining", "waiting", "closed"}
              \union Recovering
RowType    == [state : Unresolved \union {"none", "completed"},
               resolution : {"none", "committed", "rolled_back", "inconsistent"},
               owner : Process \union {Nobody}, live : BOOLEAN,
               target : Targets \union {"none"}, known : BOOLEAN]
TaskType   == [at : {"idle"} \union Working \union Inspecting,
               job : Job \union {"none"}, target : Targets \union {"none"}]
TicketType == [by : Process \union {Nobody},
               at : {"none", "admitted", "created", "confirmed", "ended"}]

Shapes ==
    /\ jobs \in [Job -> JobStates]
    /\ journal \in [Job -> RowType]
    /\ artifact \subseteq Job /\ facts \subseteq Job
    /\ stage \subseteq Job /\ final \subseteq Job
    /\ phase \in [Process -> Phases]
    /\ admitted \in [Job -> TicketType]
    /\ queue \in [Process -> Seq(Job)]
    /\ task \in [Process -> TaskType]
    /\ todo \in [Process -> SUBSET Job]
    /\ doomed \in [Process -> {<< >>} \union (Job \X Active)]
    /\ earlier \in [Process -> SUBSET Process]
    /\ dropped \subseteq Job
    /\ faults \in 0..MaxFaults

\* What the row, the job and the files of a collection say of each other.
HasRow(j)     == journal[j].state # "none"
RolledBack(j) == journal[j].resolution = "rolled_back"
Broken(j)     == journal[j].resolution = "inconsistent"
Pending(j)    == journal[j].state \in {"prepared", "promoted"}

Unwritten(j) ==
    ~HasRow(j) => /\ journal[j] = NoRow
                  /\ j \notin artifact /\ j \notin facts /\ j \notin stage /\ j \notin final
                  /\ jobs[j] # "succeeded"

Written(j) ==
    HasRow(j) =>
        /\ admitted[j].at = "ended" /\ journal[j].target \in Targets
        /\ journal[j].state = "allocating" => ~journal[j].known
        /\ IF Pinned(j) THEN jobs[j] = journal[j].target
                        ELSE jobs[j] \in {"running", "needs_human", "cancelled"}
        /\ journal[j].state = "completed" => jobs[j] \notin Active

Filed(j) ==
    /\ Pinned(j) => /\ j \in artifact /\ j \in final /\ j \notin stage
                    /\ journal[j].target = "succeeded" => j \in facts
    /\ j \in artifact \/ j \in facts => Pinned(j) \/ Broken(j)
    /\ j \in final => Pending(j) \/ Pinned(j) \/ Broken(j)
    /\ j \in stage /\ RolledBack(j) => Overlapped /\ jobs[j] \notin Active

Rows == \A j \in Job : WellFormed(journal[j]) /\ Unwritten(j) /\ Written(j) /\ Filed(j)

\* What a task knows of its job, place by place.
Mine(p, j) == Owns(p, j) /\ journal[j].state = "allocating"
Lost(p, j) ==
    /\ Overlapped /\ ~journal[j].known
    /\ \/ journal[j].state = "allocating" /\ ~Owns(p, j)
       \/ RolledBack(j)
       \/ Broken(j)

Starting == {"taken", "claimed", "collect", "allocate"}
Staged   == {"authorize", "promote"}
Renamed  == {"record", "commit"}
Undoing  == {"resolve", "settle"}

Before(p, j) ==
    /\ task[p].at \in Starting => ~HasRow(j)
    /\ task[p].at \in Starting \ {"taken"} => jobs[j] \in {"running", "needs_human", "cancelled"}
    /\ At(p, "allocate") => task[p].target \in Targets

Writing(p, j) ==
    /\ At(p, "create")  => j \notin stage /\ (Mine(p, j) \/ Lost(p, j))
    /\ At(p, "prepare") => (Mine(p, j) /\ j \in stage) \/ Lost(p, j)
    /\ task[p].at \in Staged \union Renamed \union Undoing => HasRow(j)
    /\ Owns(p, j) =>
          /\ task[p].at \in Staged \union {"record"} => journal[j].state = "prepared"
          /\ At(p, "commit") => journal[j].state = "promoted"
          /\ task[p].at \in Staged  => j \in stage /\ j \notin final
          /\ task[p].at \in Renamed => j \in final /\ j \notin stage

Repairing(p, j) ==
    /\ Owns(p, j) =>
          /\ task[p].at \in Undoing => Pending(j) \/ (RolledBack(j) /\ journal[j].known)
          /\ At(p, "settle") => j \notin stage /\ j \notin final
          /\ At(p, "interrupted") /\ journal[j].state = "allocating" /\ j \in stage => Overlapped
    /\ task[p].at \in {"mark"} \union Inspecting => HasRow(j)
    /\ At(p, "verify") => /\ journal[j].known /\ (Pinned(j) \/ Broken(j)) /\ j \notin stage
                          /\ Owns(p, j) => Pinned(j)

Tasks == \A p \in Process : Before(p, J(p)) /\ Writing(p, J(p)) /\ Repairing(p, J(p))

\* Which places a phase allows.
Placed(p) ==
    /\ task[p].at = "idle" \/ ~Alive(p) => task[p] = Idle
    /\ task[p].at # "idle" => J(p) \in Job
    /\ phase[p] \in {"recover", "closed"} => task[p] = Idle
    /\ phase[p] \in Recovering =>
          task[p].at \in {"idle", "mark"} \union Undoing \union Inspecting
    /\ task[p].at \in Inspecting => phase[p] \in Recovering
    /\ phase[p] \in Recovering \union {"unborn", "dead", "waiting", "closed"} =>
          queue[p] = << >>
    /\ phase[p] \in {"pass1", "pass2"} => \A j \in todo[p] : HasRow(j)

Places == \A p \in Process : Placed(p)

\* A collection is worked on once, by the process that admitted it.
Ticket(p, j) == admitted[j] = [by |-> p, at |-> "ended"]

Waiting(p) ==
    /\ \A i \in 1..Len(queue[p]) : /\ Ticket(p, queue[p][i]) /\ ~HasRow(queue[p][i])
                                   /\ task[p].at # "idle" => queue[p][i] # J(p)
    /\ \A i, k \in 1..Len(queue[p]) : i # k => queue[p][i] # queue[p][k]

Admissions ==
    /\ \A j \in Job :
          /\ admitted[j].at = "none" => admitted[j].by = Nobody
          /\ admitted[j].at # "none" =>
                /\ admitted[j].by \in Process
                /\ phase[admitted[j].by] \notin {"unborn"} \union Recovering
          /\ admitted[j].at \in {"none", "admitted"} => jobs[j] = "absent"
    /\ \A p \in Process : Waiting(p)
    /\ \A p \in Process :
          task[p].at \in Working /\ phase[p] \notin Recovering => Ticket(p, J(p))

\* A process that was dead when another started stays so.
Deaths == \A p \in Process : \A q \in earlier[p] : phase[q] = "dead"

\* While close() goes on, an active job of its process is on its list, about to be
\* cancelled, or with a request or the worker, who will look at the fence.
Covered(p, j) ==
    /\ phase[p] \in {"draining", "waiting", "closed"} /\ admitted[j].by = p /\ jobs[j] \in Active =>
          \/ phase[p] = "draining" /\ (j \in todo[p] \/ doomed[p] = <<j, jobs[j]>>)
          \/ admitted[j].at \in {"admitted", "created"}
          \/ J(p) = j /\ task[p].at = "claimed"
          \/ j \in dropped
    /\ phase[p] = "closed" /\ admitted[j].by = p => admitted[j].at = "ended"

\* After the recovery of a start, the jobs of the dead are active only with a
\* row that a lease or a later pass answers for.
Recovered(p, j) ==
    phase[p] \notin {"unborn", "dead", "pass1", "recover"} /\ admitted[j].by \in earlier[p]
        /\ jobs[j] \in Active => Pending(j)

Closings   == \A p \in Process, j \in Job : Covered(p, j)
Recoveries == \A p \in Process, j \in Job : Recovered(p, j)

IInv == Shapes /\ Rows /\ Tasks /\ Places /\ Admissions /\ Deaths /\ Closings /\ Recoveries
-----------------------------------------------------------------------------
\* What a step of p may do to a collection: it ends what is active or leaves it,
\* takes no row from its holder, but for an allocation whose job has ended, and
\* brings no file where none was, but the stage of its own writer.
Begun == {"running", "needs_human", "cancelled"}

SameData(k) ==
    /\ jobs'[k] = jobs[k] /\ journal'[k] = journal[k]
    /\ k \in artifact' <=> k \in artifact
    /\ k \in facts' <=> k \in facts
    /\ k \in stage' <=> k \in stage
    /\ k \in final' <=> k \in final

Decided(k) ==
    /\ journal[k].state = "completed" =>
          /\ journal'[k].state = "completed"
          /\ journal'[k].resolution \in {journal[k].resolution, "inconsistent"}
    /\ jobs[k] \in {"succeeded", "failed", "cancelled"} /\ jobs'[k] # jobs[k] =>
          Pinned(k) /\ journal'[k].resolution = "inconsistent"

AllDecided == \A k \in Job : Decided(k)

SameRow(k) ==
    /\ journal'[k].state = journal[k].state /\ journal'[k].resolution = journal[k].resolution
    /\ journal'[k].known = journal[k].known /\ journal'[k].target = journal[k].target

Spares(q, k) ==
    /\ Owns(q, k)' =>
          /\ Owns(q, k) /\ SameRow(k)
          /\ \/ (k \in stage' <=> k \in stage) /\ (k \in final' <=> k \in final)
             \/ task[q].at \in {"read", "look", "interrupted", "mark"}
    /\ task[q].at \in {"create", "prepare"} =>
          /\ Mine(q, k) => Mine(q, k)' \/ Lost(q, k)'
          /\ Lost(q, k) => Lost(q, k)'

Keeps(p, k) ==
    /\ Decided(k)
    /\ HasRow(k) => HasRow(k)' /\ (journal[k].known => journal'[k].known)
    /\ HasRow(k)' => HasRow(k) \/ (p \in Process /\ task[p].at = "allocate" /\ J(p) = k)
    /\ jobs'[k] \in Active => \/ jobs'[k] = jobs[k]
                              \/ \E r \in Process : Alive(r) /\ admitted[k].by = r /\ ~HasRow(k)
    /\ ~HasRow(k) /\ admitted[k].at = "ended" /\ jobs[k] \in Begun => jobs'[k] \in Begun
    /\ Pending(k) => Pending(k)' \/ jobs'[k] \notin Active
    /\ k \in stage' => \/ k \in stage \/ Pending(k)
                       \/ p \in Process /\ task[p].at = "create" /\ J(p) = k
    /\ \A q \in Process \ {p} : task[q].at # "idle" /\ J(q) = k => Spares(q, k)

\* A row that stays is kept.
LEMMA SameKeeps ==
    ASSUME IInv, NEW p, NEW k \in Job, SameData(k), Overlapped => Overlapped'
    PROVE  Keeps(p, k)
BY DEF SameData, SameRow, Keeps, Decided, Spares, Mine, Lost, HasRow, Pending, Owns,
       RolledBack, Broken, Pinned, Begun

\* A job that is worked on has been admitted, and no two workers have one job.
LEMMA AtWork ==
    ASSUME IInv, NEW p \in Process, task[p].at # "idle"
    PROVE  /\ J(p) \in Job /\ Alive(p) /\ admitted[J(p)].at = "ended"
           /\ task[p].at \in Inspecting \union Working
           /\ phase[p] \notin Recovering => Ticket(p, J(p))
           /\ phase[p] \in Recovering => HasRow(J(p))
           /\ task[p].at \in Working \ ({"mark"} \union Undoing) => phase[p] \notin Recovering
<1>1. /\ task[p].at \in Inspecting \union Working /\ J(p) \in Job /\ Alive(p)
      /\ phase[p] \in Recovering => task[p].at \in {"mark"} \union Undoing \union Inspecting
      /\ phase[p] \notin Recovering => task[p].at \notin Inspecting
  BY DEF IInv, Shapes, TaskType, Places, Placed, Alive, Idle
<1>3. phase[p] \in Recovering => HasRow(J(p))
  BY <1>1 DEF IInv, Tasks, Repairing, Writing
<1>4. phase[p] \notin Recovering => Ticket(p, J(p))
  BY <1>1 DEF IInv, Admissions
<1>5. admitted[J(p)].at = "ended"
  BY <1>1, <1>3, <1>4 DEF IInv, Rows, Written, Ticket
<1> QED
  BY <1>1, <1>3, <1>4, <1>5 DEF Inspecting, Undoing, Working

\* What p leaves to the tasks of the others stays true of them.
LEMMA OtherStands ==
    ASSUME IInv, NEW p, NEW k \in Job, Keeps(p, k), Overlapped => Overlapped',
           NEW q \in Process, q # p, J(q) = k, task[q].at # "idle",
           task'[q] = task[q], Alive(q)'
    PROVE  Before(q, k)' /\ Writing(q, k)' /\ Repairing(q, k)'
<1>1. /\ Alive(q) /\ Alive(q)' /\ admitted[k].at = "ended"
      /\ phase[q] \notin Recovering => admitted[k].by = q
      /\ task[q].at \in Working \ ({"mark"} \union Undoing) => phase[q] \notin Recovering
  <2>1. /\ Alive(q) /\ admitted[J(q)].at = "ended"
        /\ phase[q] \notin Recovering => Ticket(q, J(q))
        /\ task[q].at \in Working \ ({"mark"} \union Undoing) => phase[q] \notin Recovering
    BY AtWork
  <2>2. Ticket(q, k) => admitted[k].by = q
    BY DEF Ticket
  <2> QED
    BY <2>1, <2>2 DEF Alive
<1>2. Before(q, k) /\ Writing(q, k) /\ Repairing(q, k)
  BY DEF IInv, Tasks
<1>3. Spares(q, k)
  BY DEF Keeps
<1>4. p \in Process /\ task[p].at \in {"allocate", "create"} /\ J(p) = k
          => admitted[k].by = p /\ Alive(p)
  <2> SUFFICES ASSUME p \in Process, task[p].at \in {"allocate", "create"}, J(p) = k
               PROVE  admitted[k].by = p /\ Alive(p)
    OBVIOUS
  <2>1. task[p].at # "idle" /\ task[p].at \in Working \ ({"mark"} \union Undoing)
    BY DEF Working, Undoing
  <2>2. Alive(p) /\ Ticket(p, J(p))
    BY <2>1, AtWork
  <2> QED
    BY <2>2 DEF Ticket
<1>5. jobs[k] \notin Active => jobs'[k] \notin Active \/ ~HasRow(k)
  BY DEF Keeps
<1>6. \A l \in {"idle"} \union Working \union Inspecting :
          At(q, l) = (task[q].at = l) /\ At(q, l)' = (task[q].at = l)
  BY <1>1 DEF At
<1>7. Before(q, k)'
  <2>1. CASE task[q].at \in Starting
    <3>1. task[q].at \in Working \ ({"mark"} \union Undoing) /\ ~HasRow(k)
      BY <2>1, <1>2 DEF Starting, Working, Undoing, Before
    <3>2. ~HasRow(k)'
      BY <3>1, <1>1, <1>4 DEF Keeps
    <3>3. task[q].at \in Starting \ {"taken"} => jobs'[k] \in Begun
      BY <3>1, <1>1, <1>2 DEF Keeps, Before, Begun
    <3> QED
      BY <3>2, <3>3, <1>2, <1>6 DEF Before, Begun, Working
  <2>2. CASE task[q].at \notin Starting
    BY <2>2, <1>6 DEF Before, Starting, Working
  <2> QED
    BY <2>1, <2>2
<1>8. Writing(q, k)'
  <2>1. CASE task[q].at = "create"
    <3>1. Mine(q, k) \/ Lost(q, k)
      BY <2>1, <1>2, <1>6 DEF Writing, Working
    <3>2. ~Pending(k) /\ k \notin stage
      BY <2>1, <3>1, <1>2, <1>6
      DEF Writing, Mine, Lost, Pending, RolledBack, Broken, IInv, Rows, WellFormed, Working
    <3>3. k \notin stage'
      BY <2>1, <3>2, <1>1, <1>4 DEF Keeps, Working, Undoing
    <3>4. Mine(q, k)' \/ Lost(q, k)'
      BY <2>1, <3>1, <1>3 DEF Spares
    <3> QED
      BY <2>1, <3>3, <3>4, <1>6 DEF Writing, Staged, Renamed, Undoing, Working
  <2>2. CASE task[q].at = "prepare"
    <3>1. (Mine(q, k) /\ k \in stage) \/ Lost(q, k)
      BY <2>2, <1>2, <1>6 DEF Writing, Working
    <3>2. Mine(q, k)' => k \in stage' \/ Lost(q, k)
      BY <2>2, <3>1, <1>3 DEF Spares, Mine
    <3>3. Lost(q, k) => Lost(q, k)'
      BY <2>2, <1>3 DEF Spares
    <3>4. Mine(q, k)' \/ Lost(q, k)'
      BY <2>2, <3>1, <1>3 DEF Spares
    <3> QED
      BY <2>2, <3>2, <3>3, <3>4, <1>6 DEF Writing, Staged, Renamed, Undoing, Working
  <2>3. CASE task[q].at \in Staged \union Renamed \union Undoing
    <3>1. HasRow(k)'
      BY <2>3, <1>2 DEF Writing, Keeps
    <3>2. Owns(q, k)' => /\ Owns(q, k) /\ SameRow(k)
                         /\ (k \in stage' <=> k \in stage) /\ (k \in final' <=> k \in final)
      BY <2>3, <1>3 DEF Spares, Staged, Renamed, Undoing
    <3> QED
      BY <2>3, <3>1, <3>2, <1>2, <1>6 DEF Writing, Staged, Renamed, Undoing, Working, SameRow
  <2>4. CASE task[q].at \notin {"create", "prepare"} \union Staged \union Renamed \union Undoing
    BY <2>4, <1>6 DEF Writing, Staged, Renamed, Undoing, Working
  <2> QED
    BY <2>1, <2>2, <2>3, <2>4
<1>9. Repairing(q, k)'
  <2>1. CASE task[q].at = "interrupted"
    <3>1. ASSUME Owns(q, k)', (journal[k].state = "allocating")', k \in stage'
          PROVE  Overlapped'
      <4>1. Owns(q, k) /\ journal[k].state = "allocating" /\ HasRow(k) /\ ~Pending(k)
        BY <3>1, <1>3 DEF Spares, SameRow, HasRow, Pending
      <4>2. CASE k \in stage
        BY <4>1, <4>2, <2>1, <1>2, <1>6 DEF Repairing, Inspecting
      <4>3. CASE p \in Process /\ task[p].at = "create" /\ J(p) = k
        <5>1. Writing(p, k) /\ At(p, "create")
          BY <4>3, <1>4 DEF IInv, Tasks, At
        <5>2. Lost(p, k)
          BY <5>1, <4>1 DEF Writing, Mine, Owns
        <5> QED
          BY <5>2 DEF Lost
      <4> QED
        BY <3>1, <4>1, <4>2, <4>3 DEF Keeps
    <3>2. HasRow(k)'
      BY <2>1, <1>2 DEF Repairing, Keeps, Inspecting
    <3>3. /\ task'[q].at = "interrupted" /\ task'[q].at \notin Undoing
          /\ ~At(q, "settle")' /\ ~At(q, "verify")'
      BY <2>1 DEF At, Undoing
    <3> QED
      BY <3>1, <3>2, <3>3 DEF Repairing
  <2>2. CASE task[q].at \in Undoing
    <3>1. Owns(q, k)' => /\ Owns(q, k) /\ SameRow(k)
                         /\ (k \in stage' <=> k \in stage) /\ (k \in final' <=> k \in final)
      BY <2>2, <1>3 DEF Spares, Undoing
    <3> QED
      BY <2>2, <3>1, <1>2, <1>6
      DEF Repairing, Undoing, Inspecting, Working, Pending, RolledBack, SameRow
  <2>3. CASE task[q].at \in {"mark", "look", "read"}
    <3>1. HasRow(k)'
      BY <2>3, <1>2 DEF Repairing, Keeps, Inspecting
    <3> QED
      BY <2>3, <3>1, <1>6 DEF Repairing, Undoing, Inspecting, Working
  <2>5. CASE task[q].at = "verify"
    <3>1. journal[k].known /\ (Pinned(k) \/ Broken(k)) /\ k \notin stage /\ ~Pending(k)
      BY <2>5, <1>2, <1>6
      DEF Repairing, Inspecting, Pinned, Broken, Pending, IInv, Rows, WellFormed
    <3>2. journal'[k].known /\ (Pinned(k) \/ Broken(k))'
      <4>1. WellFormed(journal[k]) /\ Decided(k) /\ (HasRow(k) /\ journal[k].known => journal'[k].known)
        BY DEF IInv, Rows, Keeps
      <4>2. HasRow(k) /\ journal[k].state = "completed"
        BY <3>1, <4>1 DEF Pinned, Broken, HasRow, WellFormed
      <4> QED
        BY <3>1, <4>1, <4>2 DEF Decided, Pinned, Broken
    <3>3. ~(p \in Process /\ task[p].at = "create" /\ J(p) = k)
      <4>1. task[p].at = "create" /\ p \in Process /\ J(p) = k => Mine(p, k) \/ Lost(p, k)
        BY <1>4 DEF IInv, Tasks, Writing, At
      <4> QED
        BY <4>1, <3>1 DEF Mine, Lost, IInv, Rows, Written, HasRow
    <3>4. k \notin stage'
      BY <3>1, <3>3 DEF Keeps
    <3>5. HasRow(k)'
      BY <2>5, <1>2 DEF Repairing, Keeps, Inspecting
    <3>6. Owns(q, k)' => Pinned(k)'
      <4>1. Owns(q, k) => Pinned(k)
        BY <2>5, <1>2, <1>6 DEF Repairing, Inspecting
      <4> QED
        BY <4>1, <1>3 DEF Spares, SameRow, Pinned
    <3> QED
      BY <2>5, <3>2, <3>4, <3>5, <3>6, <1>6 DEF Repairing, Undoing, Inspecting, Working
  <2>4. CASE task[q].at \notin {"mark"} \union Undoing \union Inspecting
    BY <2>4, <1>6 DEF Repairing, Undoing, Inspecting, Working
  <2> QED
    BY <2>1, <2>2, <2>3, <2>4, <2>5 DEF Inspecting
<1> QED
  BY <1>7, <1>8, <1>9

LEMMA IdleStands ==
    ASSUME NEW q \in Process, task'[q].at = "idle"
    PROVE  (Before(q, J(q)) /\ Writing(q, J(q)) /\ Repairing(q, J(q)))'
<1>1. Before(q, J(q))'
  BY DEF Before, Starting, At
<1>2. Writing(q, J(q))'
  BY DEF Writing, Staged, Renamed, Undoing, At
<1>3. Repairing(q, J(q))'
  BY DEF Repairing, Undoing, Inspecting, At
<1> QED
  BY <1>1, <1>2, <1>3

LEMMA OthersStand ==
    ASSUME IInv, NEW p, \A k \in Job : Keeps(p, k), Overlapped => Overlapped',
           NEW q \in Process, q # p, task'[q] = task[q], Alive(q) => Alive(q)'
    PROVE  (Before(q, J(q)) /\ Writing(q, J(q)) /\ Repairing(q, J(q)))'
<1>1. CASE task[q].at = "idle"
  BY <1>1, IdleStands
<1>2. CASE task[q].at # "idle"
  <2>1. PICK k \in Job : J(q) = k
    BY <1>2, AtWork
  <2>2. Before(q, k)' /\ Writing(q, k)' /\ Repairing(q, k)'
    <3>1. Alive(q)' /\ Keeps(p, k)
      BY <1>2, AtWork
    <3> QED
      BY <1>2, <2>1, <3>1, OtherStands
  <2>3. J(q)' = k
    BY <2>1 DEF J
  <2> QED
    BY <2>2, <2>3
<1> QED
  BY <1>1, <1>2

\* Once a start has recovered, the jobs of the dead stay as they are or end.
LEMMA RecoveriesStand ==
    ASSUME IInv, NEW p, \A k \in Job : Keeps(p, k), earlier' = earlier, Deaths',
           \A q \in Process : phase[q] \in {"unborn", "dead", "pass1", "recover"}
               => phase'[q] \in {"unborn", "dead", "pass1", "recover"},
           \A k \in Job : \/ admitted'[k].by = admitted[k].by
                          \/ admitted'[k].by \in Process /\ phase'[admitted'[k].by] # "dead"
    PROVE  Recoveries'
<1> SUFFICES ASSUME NEW q \in Process, NEW k \in Job,
                    phase'[q] \notin {"unborn", "dead", "pass1", "recover"},
                    admitted'[k].by \in earlier'[q], jobs'[k] \in Active
             PROVE  Pending(k)'
  BY DEF Recoveries, Recovered
<1>1. phase'[admitted'[k].by] = "dead" /\ admitted'[k].by \in earlier[q]
  BY DEF Deaths
<1>2. admitted[k].by = admitted'[k].by /\ phase[admitted[k].by] = "dead"
  BY <1>1 DEF IInv, Deaths
<1>3. Keeps(p, k) /\ jobs'[k] = jobs[k]
  BY <1>2 DEF Keeps, Alive
<1>4. Pending(k)
  BY <1>1, <1>2, <1>3 DEF IInv, Recoveries, Recovered
<1> QED
  BY <1>3, <1>4 DEF Keeps

\* A step that leaves the other processes alone, but for what an error drops.
Quiet ==
    /\ UNCHANGED <<phase, admitted, queue, todo, doomed, earlier>>
    /\ dropped \subseteq dropped' /\ dropped' \subseteq Job

LEMMA Quietly == ASSUME IInv, WorkerOnly  PROVE Quiet
BY DEF Quiet, WorkerOnly, Apart, IInv, Shapes

\* What a step of a task p on its job j has to show.
Advances(p, j) ==
    /\ \A q \in Process \ {p} : task'[q] = task[q]
    /\ task'[p] = Idle \/ (task'[p].at # "idle" /\ task'[p].job = j)
    /\ phase[p] \in Recovering =>
          task'[p].at \in {"idle", "mark"} \union Undoing \union Inspecting
    /\ phase[p] \notin Recovering => task'[p].at \notin Inspecting
    /\ \A k \in Job \ {j} : SameData(k)
    /\ jobs'[j] \in Active =>
          IF task'[p].at = "claimed" THEN phase[p] \notin Recovering
          ELSE \/ jobs'[j] = jobs[j] /\ (task[p].at = "claimed" => Accepting(p))
               \/ j \in dropped'

LEMMA StepIInv ==
    ASSUME IInv, NEW p \in Process, NEW j \in Job, J(p) = j, task[p].at # "idle",
           Shapes', Quiet, Advances(p, j), Keeps(p, j),
           WellFormed(journal[j])', Unwritten(j)', Written(j)', Filed(j)',
           task'[p].at # "idle" => Before(p, j)' /\ Writing(p, j)' /\ Repairing(p, j)'
    PROVE  IInv' /\ AllDecided
<1> USE DEF Quiet
<1>1. Overlapped' <=> Overlapped
  BY DEF Overlapped
<1>2. \A k \in Job : Keeps(p, k)
  BY <1>1, SameKeeps DEF Advances
<1>3. Rows'
  <2>1. ASSUME NEW k \in Job \ {j}
        PROVE  WellFormed(journal[k])' /\ Unwritten(k)' /\ Written(k)' /\ Filed(k)'
    <3>1. SameData(k) /\ admitted' = admitted
      BY DEF Advances
    <3>2. WellFormed(journal[k]) /\ Unwritten(k) /\ Written(k) /\ Filed(k)
      BY DEF IInv, Rows
    <3> QED
      BY <1>1, <3>1, <3>2
      DEF SameData, WellFormed, Unwritten, Written, Filed, HasRow, Pinned, Pending, Broken, RolledBack
  <2> QED
    BY <2>1 DEF Rows
<1>4. Tasks'
  <2>1. ASSUME NEW q \in Process \ {p}
        PROVE  (Before(q, J(q)) /\ Writing(q, J(q)) /\ Repairing(q, J(q)))'
    <3>1. task'[q] = task[q] /\ (Alive(q) => Alive(q)')
      BY DEF Advances, Alive
    <3> QED
      BY <1>1, <1>2, <3>1, OthersStand
  <2>2. (Before(p, J(p)) /\ Writing(p, J(p)) /\ Repairing(p, J(p)))'
    <3>1. CASE task'[p].at = "idle"
      BY <3>1, IdleStands
    <3>2. CASE task'[p].at # "idle"
      <4>1. J(p)' = j
        BY <3>2 DEF Advances, J, Idle
      <4> QED
        BY <3>2, <4>1
    <3> QED
      BY <3>1, <3>2
  <2> QED
    BY <2>1, <2>2 DEF Tasks
<1>5. /\ Alive(p) /\ admitted[j].at = "ended" /\ (phase[p] \notin Recovering => Ticket(p, j))
      /\ task[p].at \in Working \ ({"mark"} \union Undoing) => phase[p] \notin Recovering
  BY AtWork
<1>6. Places'
  <2>1. \A k \in Job : HasRow(k) => HasRow(k)'
    BY <1>2 DEF Keeps
  <2>2. \A q \in Process : Placed(q)
    BY DEF IInv, Places
  <2>3. ASSUME NEW q \in Process \ {p}  PROVE Placed(q)'
    <3>1. task'[q] = task[q] /\ todo[q] \subseteq Job
      BY DEF Advances, IInv, Shapes
    <3> QED
      BY <3>1, <2>1, <2>2 DEF Placed, J, Alive
  <2>4. Placed(p)'
    <3>1. /\ todo[p] \subseteq Job /\ phase[p] \notin {"recover", "closed", "unborn", "dead"}
          /\ task'[p] = Idle \/ (task'[p].at # "idle" /\ task'[p].job = j)
      BY <1>5, <2>2 DEF IInv, Shapes, Placed, Alive, Advances, Idle
    <3> QED
      BY <3>1, <2>1, <2>2 DEF Placed, J, Alive, Advances, Idle
  <2> QED
    BY <2>3, <2>4 DEF Places
<1>7. Admissions'
  <2>1. ASSUME NEW k \in Job, HasRow(k)', ~HasRow(k)
        PROVE  task[p].at = "allocate" /\ k = j /\ Ticket(p, j)
    <3>1. task[p].at = "allocate" /\ k = j
      BY <2>1, <1>2 DEF Keeps
    <3> QED
      BY <3>1, <1>5 DEF Working, Undoing
  <2>2. ASSUME NEW q \in Process  PROVE Waiting(q)'
    <3>1. Waiting(q) /\ queue[q] \in Seq(Job) /\ queue'[q] = queue[q] /\ admitted' = admitted
      BY DEF IInv, Admissions, Shapes
    <3>2. ASSUME NEW i \in 1..Len(queue[q])
          PROVE  ~HasRow(queue[q][i])' /\ (task'[q].at # "idle" => queue[q][i] # J(q)')
      <4>1. queue[q][i] \in Job /\ Ticket(q, queue[q][i]) /\ ~HasRow(queue[q][i])
        BY <3>1 DEF Waiting
      <4>2. queue[q][i] = j => q = p \/ ~Ticket(p, j)
        BY <4>1 DEF Ticket
      <4>3. queue[q][i] = j => q # p
        BY <3>1 DEF Waiting
      <4>4. ~HasRow(queue[q][i])'
        BY <4>1, <4>2, <4>3, <2>1
      <4>5. CASE q = p
        BY <4>5, <4>3, <4>4 DEF Advances, Idle, J
      <4>6. CASE q # p
        BY <4>6, <3>1, <4>4 DEF Advances, J, Waiting
      <4> QED
        BY <4>5, <4>6
    <3> QED
      BY <3>1, <3>2 DEF Waiting, Ticket
  <2>3. ASSUME NEW q \in Process, task'[q].at \in Working, phase[q] \notin Recovering
        PROVE  Ticket(q, J(q))'
    <3>1. CASE q = p
      BY <3>1, <2>3, <1>5 DEF Advances, J, Ticket, Idle, Working
    <3>2. CASE q # p
      BY <3>2, <2>3 DEF Advances, J, Ticket, IInv, Admissions
    <3> QED
      BY <3>1, <3>2
  <2>4. \A k \in Job : admitted[k].at \in {"none", "admitted"} => jobs'[k] = "absent"
    BY <1>5 DEF Advances, SameData, IInv, Admissions
  <2> QED
    BY <2>2, <2>3, <2>4 DEF IInv, Admissions
<1>8. Deaths'
  BY DEF IInv, Deaths
<1>9. Recoveries'
  BY <1>2, <1>8, RecoveriesStand
<1>10. Closings'
  <2> SUFFICES ASSUME NEW q \in Process, NEW k \in Job, phase[q] \in {"draining", "waiting", "closed"},
                      admitted[k].by = q, jobs'[k] \in Active
               PROVE  Covered(q, k)'
    BY DEF IInv, Closings, Covered
  <2>3. CASE k \in dropped'
    BY <2>3, <1>5 DEF Covered, IInv, Closings
  <2>1. CASE jobs'[k] = jobs[k] /\ (k = j => task[p].at # "claimed" \/ q # p)
    <3>1. Covered(q, k)
      BY DEF IInv, Closings
    <3>2. task[q].at = "claimed" /\ J(q) = k => task'[q] = task[q]
      BY <2>1 DEF Advances
    <3> QED
      BY <2>1, <3>1, <3>2 DEF Covered, J
  <2>2. CASE k = j /\ task'[p].at = "claimed"
    <3>1. q = p /\ J(p)' = j /\ Covered(q, k)
      BY <2>2, <1>5 DEF Advances, J, Idle, Ticket, IInv, Closings
    <3> QED
      BY <2>2, <3>1 DEF Covered
  <2> QED
    BY <2>1, <2>2, <2>3 DEF Advances, SameData, Accepting
<1>11. AllDecided
  BY <1>2 DEF AllDecided, Keeps
<1> QED
  BY <1>3, <1>4, <1>6, <1>7, <1>8, <1>9, <1>10, <1>11 DEF IInv, Shapes
-----------------------------------------------------------------------------
\* The updates of a row, of a job and of a task, field by field.
LEMMA RowIs ==
    ASSUME Shapes, NEW j \in Job, NEW n \in RowType
    PROVE  /\ [journal EXCEPT ![j] = n] \in [Job -> RowType]
           /\ [journal EXCEPT ![j] = n][j] = n
           /\ \A k \in Job \ {j} : [journal EXCEPT ![j] = n][k] = journal[k]
BY DEF Shapes

LEMMA ClosedIs ==
    ASSUME Shapes, NEW j \in Job, NEW r \in {"committed", "rolled_back", "inconsistent"}
    PROVE  /\ Closed(j, r) \in [Job -> RowType]
           /\ Closed(j, r)[j].state = "completed"
           /\ Closed(j, r)[j].resolution = r
           /\ Closed(j, r)[j].owner = Nobody
           /\ ~Closed(j, r)[j].live
           /\ Closed(j, r)[j].target = journal[j].target
           /\ Closed(j, r)[j].known = journal[j].known
           /\ \A k \in Job \ {j} : Closed(j, r)[k] = journal[k]
<1> DEFINE n == [journal[j] EXCEPT !.state = "completed", !.resolution = r,
                                   !.owner = Nobody, !.live = FALSE]
<1>1. journal[j] \in RowType
  BY DEF Shapes
<1>2. /\ n \in RowType
      /\ n.state = "completed"
      /\ n.resolution = r
      /\ n.owner = Nobody
      /\ ~n.live
      /\ n.target = journal[j].target
      /\ n.known = journal[j].known
  BY <1>1 DEF RowType
<1>3. Closed(j, r) = [journal EXCEPT ![j] = n]
  BY DEF Closed, Shapes
<1> HIDE DEF n
<1>4. Closed(j, r) \in [Job -> RowType] /\ Closed(j, r)[j] = n
      /\ \A k \in Job \ {j} : Closed(j, r)[k] = journal[k]
  BY <1>2, <1>3, RowIs
<1> QED
  BY <1>2, <1>4

LEMMA RenewedIs ==
    ASSUME Shapes, NEW p \in Process, NEW j \in Job,
           NEW s \in Unresolved \union {"none", "completed"}
    PROVE  /\ Renewed(p, j, s) \in [Job -> RowType]
           /\ Renewed(p, j, s)[j].state = s
           /\ Renewed(p, j, s)[j].resolution = journal[j].resolution
           /\ Renewed(p, j, s)[j].owner = p
           /\ Renewed(p, j, s)[j].live
           /\ Renewed(p, j, s)[j].target = journal[j].target
           /\ Renewed(p, j, s)[j].known = journal[j].known
           /\ \A k \in Job \ {j} : Renewed(p, j, s)[k] = journal[k]
<1> DEFINE n == [journal[j] EXCEPT !.state = s, !.owner = p, !.live = TRUE]
<1>1. journal[j] \in RowType
  BY DEF Shapes
<1>2. /\ n \in RowType
      /\ n.state = s
      /\ n.resolution = journal[j].resolution
      /\ n.owner = p
      /\ n.live
      /\ n.target = journal[j].target
      /\ n.known = journal[j].known
  BY <1>1 DEF RowType
<1>3. Renewed(p, j, s) = [journal EXCEPT ![j] = n]
  BY DEF Renewed, Shapes
<1> HIDE DEF n
<1>4. Renewed(p, j, s) \in [Job -> RowType] /\ Renewed(p, j, s)[j] = n
      /\ \A k \in Job \ {j} : Renewed(p, j, s)[k] = journal[k]
  BY <1>2, <1>3, RowIs
<1> QED
  BY <1>2, <1>4

LEMMA JobIs ==
    ASSUME Shapes, NEW j \in Job
    PROVE  /\ Stopped(j) \in [Job -> JobStates] /\ Cancelled(j) \in [Job -> JobStates]
           /\ Stopped(j)[j] = IF jobs[j] \in Active THEN "needs_human" ELSE jobs[j]
           /\ Cancelled(j)[j] = IF jobs[j] \in Active THEN "cancelled" ELSE jobs[j]
           /\ \A k \in Job \ {j} : Stopped(j)[k] = jobs[k] /\ Cancelled(j)[k] = jobs[k]
BY DEF Shapes, Stopped, Cancelled, JobStates

LEMMA GoIs ==
    ASSUME Shapes, NEW p \in Process, NEW place \in Working \union Inspecting, Go(p, place)
    PROVE  /\ task' \in [Process -> TaskType]
           /\ task'[p].at = place /\ task'[p].job = J(p) /\ task'[p].target = task[p].target
           /\ \A q \in Process \ {p} : task'[q] = task[q]
<1>1. place \in {"idle"} \union Working \union Inspecting
  OBVIOUS
<1> QED
  BY <1>1 DEF Go, J, TaskType, Shapes

LEMMA LeaveIs ==
    ASSUME Shapes, NEW p \in Process, Leave(p)
    PROVE  /\ task' \in [Process -> TaskType] /\ task'[p] = Idle /\ task'[p].at = "idle"
           /\ \A q \in Process \ {p} : task'[q] = task[q]
<1>1. Idle \in TaskType
  BY DEF Idle, TaskType
<1> QED
  BY <1>1 DEF Leave, Idle, Shapes

\* Nobody is not a process, and two processes that live overlap.
LEMMA Numbers == Nobody \notin Process /\ \A p \in Process : p \in Nat
BY BoundsAssumption DEF Process, Nobody

LEMMA TwoOverlap ==
    ASSUME IInv, NEW p \in Process, NEW q \in Process, p # q, Alive(p), Alive(q)
    PROVE  Overlapped
<1>1. ASSUME NEW r \in Process, NEW s \in Process, r < s, Alive(r), Alive(s)
      PROVE  Overlapped
  <2>1. r \notin earlier[s] /\ r \in 1..(s - 1)
    BY <1>1, BoundsAssumption DEF IInv, Deaths, Alive, Process
  <2> QED
    BY <1>1, <2>1 DEF Overlapped, Alive
<1>2. p < q \/ q < p
  BY Numbers
<1> QED
  BY <1>1, <1>2

\* The state a task finds.
LEMMA Finds ==
    ASSUME IInv, NEW p \in Process, task[p].at # "idle"
    PROVE  /\ Shapes /\ J(p) \in Job
           /\ Before(p, J(p)) /\ Writing(p, J(p)) /\ Repairing(p, J(p))
           /\ WellFormed(journal[J(p)]) /\ Unwritten(J(p)) /\ Written(J(p)) /\ Filed(J(p))
           /\ jobs[J(p)] \in JobStates /\ journal[J(p)] \in RowType
BY AtWork DEF IInv, Tasks, Rows, Shapes

\* A step that leaves the row and the files alone, and may end the job.
LEMMA RowStays ==
    ASSUME IInv, NEW p, NEW j \in Job,
           Overlapped => Overlapped',
           UNCHANGED <<journal, artifact, facts, files>>,
           jobs'[j] \in Active => jobs'[j] = jobs[j]
                                  \/ \E r \in Process : Alive(r) /\ admitted[j].by = r /\ ~HasRow(j),
           admitted[j].at = "ended" /\ jobs[j] \in Begun => jobs'[j] \in Begun,
           jobs[j] \in {"succeeded", "failed", "cancelled"} => jobs'[j] = jobs[j]
    PROVE  Keeps(p, j)
<1>1. HasRow(j)' = HasRow(j) /\ Pending(j)' = Pending(j) /\ Pinned(j)' = Pinned(j)
  BY DEF HasRow, Pending, Pinned
<1>2. Decided(j)
  BY DEF Decided
<1>3. \A q \in Process \ {p} : Spares(q, j)
  <2> TAKE q \in Process \ {p}
  <2>1. (Lost(q, j) => Lost(q, j)') /\ (Mine(q, j) => Mine(q, j)')
    BY DEF Lost, Mine, Owns, RolledBack, Broken
  <2> QED
    BY <2>1 DEF Spares, SameRow, Owns, files
<1> QED
  BY <1>1, <1>2, <1>3 DEF Keeps, files, Begun

\* A step may use up an error, and no more than there are.
LEMMA Faults ==
    ASSUME IInv, Fault \/ NoFault \/ UNCHANGED faults
    PROVE  faults' \in 0..MaxFaults
BY BoundsAssumption DEF IInv, Shapes, Fault, NoFault

LEMMA Drops ==
    ASSUME IInv, NEW j \in Job, Drop(j) \/ NoDrop
    PROVE  faults' \in 0..MaxFaults /\ dropped \subseteq dropped' /\ dropped' \subseteq Job
BY Faults DEF Drop, NoDrop, IInv, Shapes

\* The claim and the look at the fence after it, and the answer of the adapter.
LEMMA BeginsIInv ==
    ASSUME IInv, NEW p \in Process, Claim(p) \/ CheckShutdown(p) \/ Collect(p)
    PROVE  IInv' /\ AllDecided
<1> DEFINE at == task[p].at
<1>1. PICK j \in Job : J(p) = j
  BY AtWork DEF Claim, CheckShutdown, Collect, At
<1>2. /\ task[p].at \in {"taken", "claimed", "collect"} /\ Alive(p)
      /\ UNCHANGED <<journal, artifact, facts, files>> /\ Quiet /\ faults' \in 0..MaxFaults
  <2>1. CASE Claim(p)
    BY <1>1, <2>1, Faults DEF Claim, At, Apart, NoDrop, Drop, Quiet, IInv, Shapes
  <2>2. CASE CheckShutdown(p)
    BY <1>1, <2>2, Faults DEF CheckShutdown, At, Apart, NoDrop, Drop, CancelRunning, Quiet, IInv, Shapes
  <2>3. CASE Collect(p)
    BY <2>3, Faults, Quietly DEF Collect, At, rows
  <2> QED
    BY <2>1, <2>2, <2>3
<1>3. /\ Shapes /\ Before(p, j) /\ WellFormed(journal[j]) /\ Unwritten(j) /\ Written(j) /\ Filed(j)
      /\ jobs[j] \in JobStates /\ ~HasRow(j) /\ Ticket(p, j) /\ phase[p] \notin Recovering
      /\ at \in {"claimed", "collect"} => jobs[j] \in Begun
  <2>1. at # "idle" /\ at \in Working \ ({"mark"} \union Undoing)
    BY <1>2 DEF Working, Undoing
  <2> QED
    BY <1>1, <1>2, <2>1, AtWork, Finds DEF Before, Starting, Begun
<1>4. /\ jobs' \in [Job -> JobStates] /\ \A k \in Job \ {j} : jobs'[k] = jobs[k]
      /\ task' \in [Process -> TaskType] /\ \A q \in Process \ {p} : task'[q] = task[q]
      /\ \/ /\ task'[p] = Idle
            /\ \/ jobs'[j] = jobs[j] /\ (at = "claimed" => jobs[j] \notin Active \/ j \in dropped')
               \/ jobs[j] \in Active /\ jobs'[j] = "cancelled"
               \/ jobs[j] \in {"queued", "needs_human"} /\ jobs'[j] = "running" /\ j \in dropped'
         \/ /\ task'[p].at = "claimed" /\ task'[p].job = j /\ jobs'[j] = "running"
            /\ jobs[j] \in {"queued", "needs_human"}
         \/ /\ task'[p].at \in {"collect", "allocate"} /\ task'[p].job = j /\ jobs'[j] = jobs[j]
            /\ at \in {"claimed", "collect"} /\ Accepting(p)
            /\ task'[p].at = "allocate" => task'[p].target \in Targets
  <2>1. CASE Claim(p)
    <3> DEFINE claimed == [jobs EXCEPT ![j] = "running"]
    <3>1. at = "taken" /\ task \in [Process -> TaskType] /\ jobs \in [Job -> JobStates]
      BY <2>1, <1>3 DEF Claim, At, Shapes
    <3>2. /\ claimed \in [Job -> JobStates] /\ claimed[j] = "running"
          /\ \A k \in Job \ {j} : claimed[k] = jobs[k]
      <4>1. "running" \in JobStates
        BY DEF JobStates, Active
      <4> QED
        BY <3>1, <4>1
    <3> HIDE DEF claimed
    <3>3. CASE jobs[j] \in {"queued", "needs_human"} /\ jobs' = claimed /\ Go(p, "claimed")
      <4>1. "claimed" \in Working /\ J(p) = j
        BY <1>1 DEF Working
      <4> QED
        BY <3>2, <3>3, <4>1, <1>3, GoIs DEF Shapes
    <3>4. CASE UNCHANGED jobs /\ Leave(p)
      BY <3>1, <3>4, <1>3, LeaveIs DEF Shapes
    <3>5. CASE jobs[j] \in {"queued", "needs_human"} /\ jobs' = claimed /\ Leave(p) /\ Drop(j)
      BY <3>1, <3>2, <3>5, <1>3, LeaveIs DEF Shapes, Drop
    <3> QED
      BY <2>1, <3>3, <3>4, <3>5, <1>1 DEF Claim, claimed
  <2>2. CASE CheckShutdown(p)
    <3>1. CASE Go(p, "collect") /\ Accepting(p) /\ UNCHANGED jobs
      BY <2>2, <3>1, <1>1, <1>3, GoIs DEF CheckShutdown, Shapes, Working, At
    <3>2. CASE Leave(p) /\ CancelRunning(j)
      BY <3>2, <1>1, <1>3, LeaveIs, JobIs DEF CancelRunning, Drop, Shapes, Active
    <3> QED
      BY <2>2, <3>1, <3>2, <1>1 DEF CheckShutdown
  <2>3. CASE Collect(p)
    <3>1. UNCHANGED jobs /\ at = "collect"
      BY <2>3 DEF Collect, rows, At
    <3>2. CASE Leave(p)
      BY <3>1, <3>2, <1>3, LeaveIs DEF Shapes
    <3>3. CASE ~Leave(p)
      <4>1. PICK t \in Targets : task' = [task EXCEPT ![p].at = "allocate", ![p].target = t]
        BY <2>3, <3>3 DEF Collect, FinalizeResult, FinalizeFailure, Targets
      <4>2. /\ task' \in [Process -> TaskType] /\ \A q \in Process \ {p} : task'[q] = task[q]
            /\ task'[p].at = "allocate" /\ task'[p].job = j /\ task'[p].target = t
          <5>1. "allocate" \in {"idle"} \union Working \union Inspecting
            BY DEF Working
          <5>2. task \in [Process -> TaskType] /\ task[p].job = j
            BY <1>1, <1>3 DEF Shapes, J
          <5> QED
            BY <4>1, <5>1, <5>2 DEF TaskType
      <4> QED
        BY <2>3, <3>1, <3>3, <4>2, <1>3 DEF Collect, Shapes
    <3> QED
      BY <3>2, <3>3
  <2> QED
    BY <2>1, <2>2, <2>3
<1>5. Shapes'
  BY <1>2, <1>3, <1>4 DEF Shapes, files, Quiet
<1>6. Advances(p, j)
  BY <1>2, <1>3, <1>4 DEF Advances, SameData, files, Active, Inspecting, Idle
<1>7. Keeps(p, j)
  <2>1. Overlapped' <=> Overlapped
    BY <1>2 DEF Overlapped, Quiet
  <2>2. admitted[j].by = p
    BY <1>3 DEF Ticket
  <2> QED
    BY <1>2, <1>3, <1>4, <2>1, <2>2, RowStays DEF Begun, Active
<1>8. WellFormed(journal[j])' /\ Unwritten(j)' /\ Written(j)' /\ Filed(j)'
  <2>1. journal[j].resolution = "none"
    BY <1>3 DEF WellFormed, HasRow
  <2> QED
    BY <1>2, <1>3, <1>4, <2>1
    DEF WellFormed, Unwritten, Written, Filed, HasRow, files, Pinned, Pending, Broken, RolledBack
<1>9. task'[p].at # "idle" => Before(p, j)' /\ Writing(p, j)' /\ Repairing(p, j)'
  BY <1>2, <1>3, <1>4
  DEF Before, Writing, Repairing, Starting, Staged, Renamed, Undoing, Inspecting, At, HasRow, Begun, Idle
<1> QED
  BY <1>1, <1>2, <1>5, <1>6, <1>7, <1>8, <1>9, StepIInv
-----------------------------------------------------------------------------
\* A step on a row with a file, or on one that is resolved.
LEMMA HolderKeeps ==
    ASSUME IInv, NEW p \in Process, NEW j \in Job, Overlapped' <=> Overlapped,
           HasRow(j), journal[j].state # "allocating", Decided(j), HasRow(j)', journal'[j].state # "allocating",
           journal'[j].owner \in {p, Nobody},
           RolledBack(j) => RolledBack(j)' \/ Broken(j)', Broken(j) => Broken(j)',
           journal'[j].known = journal[j].known,
           jobs'[j] \in Active => jobs'[j] = jobs[j],
           Pending(j) => Pending(j)' \/ jobs'[j] \notin Active,
           j \in stage' => j \in stage \/ Pending(j)
    PROVE  Keeps(p, j)
<1>1. ASSUME NEW q \in Process \ {p}
      PROVE  Spares(q, j)
  <2>1. ~Owns(q, j)' /\ ~Mine(q, j)
    BY <1>1, Numbers DEF Owns, Mine
  <2>2. Lost(q, j) => Lost(q, j)'
    BY DEF Lost
  <2> QED
    BY <2>1, <2>2 DEF Spares
<1> QED
  BY <1>1 DEF Keeps

\* What a task has to know where it goes.
LEMMA StandsStaged ==
    ASSUME NEW p, NEW j, task'[p].at \in Staged, (journal[j].state = "prepared")',
           j \in stage', j \notin final'
    PROVE  Writing(p, j)' /\ Repairing(p, j)'
BY DEF Writing, Repairing, Staged, Renamed, Undoing, Inspecting, At, HasRow

LEMMA StandsRecord ==
    ASSUME NEW p, NEW j, task'[p].at = "record", (journal[j].state = "prepared")',
           j \in final', j \notin stage'
    PROVE  Writing(p, j)' /\ Repairing(p, j)'
BY DEF Writing, Repairing, Staged, Renamed, Undoing, Inspecting, At, HasRow

LEMMA StandsCommit ==
    ASSUME NEW p, NEW j, task'[p].at = "commit", (journal[j].state = "promoted")',
           j \in final', j \notin stage'
    PROVE  Writing(p, j)' /\ Repairing(p, j)'
BY DEF Writing, Repairing, Staged, Renamed, Undoing, Inspecting, At, HasRow

LEMMA StandsUndoing ==
    ASSUME NEW p, NEW j, task'[p].at \in Undoing, HasRow(j)',
           Owns(p, j)' => /\ Pending(j)' \/ (RolledBack(j) /\ journal[j].known)'
                          /\ task'[p].at = "settle" => j \notin stage' /\ j \notin final'
    PROVE  Writing(p, j)' /\ Repairing(p, j)'
BY DEF Writing, Repairing, Staged, Renamed, Undoing, Inspecting, At, HasRow

LEMMA StandsMark ==
    ASSUME NEW p, NEW j, task'[p].at \in {"mark", "look"}, HasRow(j)'
    PROVE  Writing(p, j)' /\ Repairing(p, j)'
BY DEF Writing, Repairing, Staged, Renamed, Undoing, Inspecting, At

LEMMA StandsVerify ==
    ASSUME NEW p, NEW j, task'[p].at = "verify", HasRow(j)', Pinned(j)', journal'[j].known,
           j \notin stage'
    PROVE  Writing(p, j)' /\ Repairing(p, j)'
BY DEF Writing, Repairing, Staged, Renamed, Undoing, Inspecting, At

LEMMA StandsWriting ==
    ASSUME NEW p, NEW j, task'[p].at \in {"create", "prepare"},
           (Mine(p, j)' /\ (task'[p].at = "create" <=> j \notin stage'))
               \/ (Lost(p, j)' /\ (task'[p].at = "create" => j \notin stage'))
    PROVE  Writing(p, j)' /\ Repairing(p, j)'
BY DEF Writing, Repairing, Staged, Renamed, Undoing, Inspecting, At

\* The row keeps what it says, but for its lease and the step from prepared to
\* promoted.
Carries(p, j) ==
    /\ journal' \in [Job -> RowType] /\ \A k \in Job \ {j} : journal'[k] = journal[k]
    /\ journal'[j].resolution = journal[j].resolution
    /\ journal'[j].owner = p
    /\ journal'[j].target = journal[j].target /\ journal'[j].known = journal[j].known
    /\ \/ journal'[j].state = journal[j].state
       \/ journal[j].state = "prepared" /\ journal'[j].state = "promoted"

Turns(p, j, places) ==
    /\ task' \in [Process -> TaskType] /\ \A q \in Process \ {p} : task'[q] = task[q]
    /\ task'[p] = Idle \/ (task'[p].at \in places /\ task'[p].job = j)

Ends(j) ==
    /\ jobs' \in [Job -> JobStates] /\ \A k \in Job \ {j} : jobs'[k] = jobs[k]
    /\ jobs'[j] = jobs[j] \/ (jobs[j] \in Active /\ jobs'[j] \in {"cancelled", "needs_human"})

Files(j) ==
    /\ stage' \subseteq Job /\ final' \subseteq Job
    /\ \A k \in Job \ {j} : (k \in stage' <=> k \in stage) /\ (k \in final' <=> k \in final)

LEMMA RenewalCarries ==
    ASSUME Shapes, NEW p \in Process, NEW j \in Job,
           NEW s \in Unresolved \union {"none", "completed"}, journal' = Renewed(p, j, s),
           s = journal[j].state \/ (journal[j].state = "prepared" /\ s = "promoted")
    PROVE  Carries(p, j) /\ journal'[j].state = s
<1>1. /\ journal' \in [Job -> RowType] /\ \A k \in Job \ {j} : journal'[k] = journal[k]
      /\ journal'[j].state = s /\ journal'[j].resolution = journal[j].resolution
      /\ journal'[j].owner = p /\ journal'[j].live
      /\ journal'[j].target = journal[j].target /\ journal'[j].known = journal[j].known
  BY RenewedIs
<1> QED
  BY <1>1 DEF Carries

LEMMA CarryIInv ==
    ASSUME IInv, NEW p \in Process, NEW j \in Job, J(p) = j, Quiet,
           task[p].at \in {"authorize", "promote", "record", "commit", "resolve"},
           Owns(p, j), Pending(j) \/ (RolledBack(j) /\ journal[j].known),
           UNCHANGED <<artifact, facts>>, faults' \in 0..MaxFaults,
           Carries(p, j), Files(j), Ends(j),
           Turns(p, j, {"promote", "record", "commit", "resolve", "settle", "mark"}),
           j \in final' => j \in final \/ Pending(j),
           j \in stage' => j \in stage \/ Pending(j),
           phase[p] \in Recovering => task'[p].at \in {"idle", "settle", "mark"},
           task'[p].at # "idle" => Writing(p, j)' /\ Repairing(p, j)'
    PROVE  IInv' /\ AllDecided
<1> USE DEF Carries, Turns, Ends, Files
<1>1. task[p].at # "idle" /\ task[p].at # "claimed"
  OBVIOUS
<1>2. Shapes'
  BY DEF IInv, Shapes, Quiet
<1>3. /\ WellFormed(journal[j]) /\ Unwritten(j) /\ Written(j) /\ Filed(j)
      /\ journal[j] \in RowType /\ jobs[j] \in JobStates
  BY DEF IInv, Rows, Shapes
<1>4. /\ HasRow(j) /\ HasRow(j)' /\ ~Pinned(j) /\ ~Pinned(j)' /\ ~Broken(j) /\ ~Broken(j)'
      /\ Pending(j)' = Pending(j) /\ RolledBack(j)' = RolledBack(j)
      /\ journal[j].state # "allocating" /\ journal'[j].state # "allocating"
      /\ jobs[j] \in Begun
  BY <1>3 DEF HasRow, Pending, RolledBack, Broken, Pinned, WellFormed, Written, Begun
<1>5. Overlapped' <=> Overlapped
  BY DEF Overlapped, Quiet
<1>6. Advances(p, j)
  BY DEF Advances, SameData, Active, Idle, Inspecting, Undoing
<1>7. Decided(j)
  BY <1>3, <1>4 DEF Decided, Begun, Active
<1>8. Keeps(p, j)
  BY <1>4, <1>5, <1>7, HolderKeeps DEF Active
<1>9. WellFormed(journal[j])'
  BY <1>3, <1>4, Numbers DEF WellFormed, Pending
<1>10. Unwritten(j)' /\ Written(j)'
  BY <1>3, <1>4 DEF Unwritten, Written, Quiet, Begun, Active
<1>11. Filed(j)'
  <2>1. j \notin artifact /\ j \notin facts /\ (Pending(j) => ~RolledBack(j))
    BY <1>3, <1>4 DEF Filed, WellFormed, Pending, RolledBack
  <2>2. j \in final' => Pending(j)'
    BY <1>3, <1>4 DEF Filed
  <2>3. j \in stage' /\ RolledBack(j)' => Overlapped' /\ jobs'[j] \notin Active
    BY <1>3, <1>4, <1>5, <2>1 DEF Filed, Active
  <2> QED
    BY <1>4, <2>1, <2>2, <2>3 DEF Filed
<1>12. task'[p].at # "idle" => Before(p, j)'
  BY DEF Before, Starting, At, Idle
<1> QED
  BY <1>1, <1>2, <1>6, <1>8, <1>9, <1>10, <1>11, <1>12, StepIInv

LEMMA HeldCarries ==
    ASSUME Shapes, NEW p \in Process, NEW j \in Job, Owns(p, j),
           journal' \in {journal, Renewed(p, j, journal[j].state)}
    PROVE  Carries(p, j) /\ journal'[j].state = journal[j].state
<1>1. journal \in [Job -> RowType] /\ journal[j].owner = p
  BY DEF Shapes, Owns
<1>2. CASE journal' = journal
  BY <1>1, <1>2 DEF Carries
<1>3. CASE journal' = Renewed(p, j, journal[j].state)
  <2>1. journal[j].state \in Unresolved \union {"none", "completed"}
    BY <1>1 DEF RowType
  <2> QED
    BY <1>3, <2>1, RenewalCarries
<1> QED
  BY <1>2, <1>3

\* A writer that writes or removes its stage meets nobody who counts on it.
LEMMA WriterAlone ==
    ASSUME IInv, NEW p \in Process, NEW j \in Job, J(p) = j, task[p].at \in {"create", "prepare"},
           NEW q \in Process, q # p, task[q].at # "idle", J(q) = j
    PROVE  /\ Owns(q, j) => task[q].at \in {"read", "look", "interrupted", "mark"}
           /\ task[q].at \notin {"create", "prepare", "allocate"}
<1>1. task[p].at # "idle" /\ Ticket(p, j) /\ Writing(p, j) /\ At(p, task[p].at)
  BY AtWork DEF Working, Undoing, IInv, Tasks, At
<1>2. phase[q] \notin Recovering => FALSE
  <2>1. phase[q] \notin Recovering => Ticket(q, j)
    BY AtWork
  <2> QED
    BY <1>1, <2>1 DEF Ticket
<1>3. task[q].at \in {"mark"} \union Undoing \union Inspecting
  BY <1>2 DEF IInv, Places, Placed
<1>4. ASSUME Owns(q, j), task[q].at \in Undoing \union {"verify"}
      PROVE  FALSE
  <2>1. Lost(p, j)
    BY <1>1, <1>4 DEF Writing, Mine, Owns
  <2>2. Repairing(q, j) /\ At(q, task[q].at) /\ WellFormed(journal[j])
    BY AtWork DEF IInv, Tasks, At, Rows
  <2> QED
    BY <1>4, <2>1, <2>2 DEF Lost, Repairing, Pending, RolledBack, Broken, Pinned, WellFormed
<1> QED
  BY <1>3, <1>4 DEF Inspecting, Undoing

\* A step that leaves the row as it is.
LEMMA StayIInv ==
    ASSUME IInv, NEW p \in Process, NEW j \in Job, J(p) = j, task[p].at # "idle", Quiet,
           task[p].at \notin Starting, UNCHANGED <<journal, artifact, facts, final>>,
           faults' \in 0..MaxFaults, HasRow(j), Ends(j), Files(j),
           \/ j \in stage' <=> j \in stage
           \/ /\ task[p].at \in {"create", "prepare"} /\ (Lost(p, j) \/ Mine(p, j))
              /\ j \in stage' => j \in stage \/ task[p].at = "create",
           Turns(p, j, Working \union Inspecting), task'[p].at \notin Starting,
           phase[p] \in Recovering =>
               task'[p].at \in {"idle", "mark"} \union Undoing \union Inspecting,
           phase[p] \notin Recovering => task'[p].at \notin Inspecting,
           task'[p].at # "idle" => Writing(p, j)' /\ Repairing(p, j)'
    PROVE  IInv' /\ AllDecided
<1> USE DEF Turns, Files, Ends
<1>1. task[p].at # "claimed" /\ task'[p].at # "claimed" /\ task[p].at # "allocate"
  BY DEF Starting
<1>2. Shapes'
  BY DEF IInv, Shapes, Quiet
<1>3. Overlapped' <=> Overlapped
  BY DEF Overlapped, Quiet
<1>4. Advances(p, j)
  <2>1. task'[p] = Idle \/ (task'[p].at # "idle" /\ task'[p].job = j)
    BY DEF Working, Inspecting
  <2> QED
    BY <1>1, <2>1 DEF Advances, SameData, Active
<1>5. /\ HasRow(j)' = HasRow(j) /\ Pending(j)' = Pending(j) /\ Pinned(j)' = Pinned(j)
      /\ RolledBack(j)' = RolledBack(j) /\ Broken(j)' = Broken(j)
      /\ WellFormed(journal[j]) /\ Unwritten(j) /\ Written(j) /\ Filed(j)
  BY DEF IInv, Rows, HasRow, Pending, Pinned, RolledBack, Broken
<1>6. \A q \in Process \ {p} : task[q].at # "idle" /\ J(q) = j => Spares(q, j)
  <2> TAKE q \in Process \ {p}
  <2> SUFFICES ASSUME task[q].at # "idle", J(q) = j  PROVE Spares(q, j)
    OBVIOUS
  <2>1. (Lost(q, j) <=> Lost(q, j)') /\ (Mine(q, j) <=> Mine(q, j)')
    BY <1>3, <1>5 DEF Lost, Mine, Owns
  <2>2. ASSUME Owns(q, j)
        PROVE  \/ (j \in stage' <=> j \in stage) /\ (j \in final' <=> j \in final)
               \/ task[q].at \in {"read", "look", "interrupted", "mark"}
    BY <2>2, WriterAlone
  <2> QED
    BY <2>1, <2>2 DEF Spares, SameRow, Owns
<1>7. Keeps(p, j)
  BY <1>5, <1>6 DEF Keeps, Decided, Active
<1>8. WellFormed(journal[j])' /\ Unwritten(j)' /\ Written(j)'
  BY <1>5 DEF WellFormed, Unwritten, Written, Quiet, Active, Pinned, Targets
<1>9. Filed(j)'
  <2>1. Lost(p, j) => Overlapped /\ (RolledBack(j) => jobs[j] \notin Active) /\ ~Pinned(j)
    BY <1>5 DEF Lost, Pinned, RolledBack, Broken, WellFormed, Written
  <2>2. Mine(p, j) => ~Pinned(j) /\ ~RolledBack(j)
    BY <1>5 DEF Mine, Pinned, RolledBack, WellFormed
  <2>3. jobs[j] \notin Active => jobs'[j] \notin Active
    BY DEF Active
  <2> QED
    BY <1>3, <1>5, <2>1, <2>2, <2>3 DEF Filed
<1>10. task'[p].at # "idle" => Before(p, j)'
  BY DEF Before, Starting, At, Idle
<1> QED
  BY <1>1, <1>2, <1>4, <1>7, <1>8, <1>9, <1>10, StepIInv

\* A step that closes the row without a commit, and has no more to do.
LEMMA CloseIInv ==
    ASSUME IInv, NEW p \in Process, NEW j \in Job, J(p) = j, task[p].at # "idle", Quiet,
           task[p].at \notin Starting, Turns(p, j, {}),
           NEW r \in {"rolled_back", "inconsistent"}, journal' = Closed(j, r), HasRow(j),
           journal[j].state = "completed" => r = "inconsistent" \/ RolledBack(j),
           jobs' \in [Job -> JobStates], \A k \in Job \ {j} : jobs'[k] = jobs[k],
           jobs'[j] \in {"needs_human", "cancelled"}, jobs[j] = "cancelled" => jobs'[j] = "cancelled",
           UNCHANGED <<artifact, facts>>, faults' \in 0..MaxFaults, Files(j),
           r = "rolled_back" => j \notin final' /\ (j \in stage' => Overlapped),
           j \in stage' => j \in stage \/ task[p].at = "create" \/ Pending(j),
           \A q \in Process \ {p} : task[q].at # "idle" /\ J(q) = j /\ Mine(q, j) => Overlapped
    PROVE  IInv' /\ AllDecided
<1> USE DEF Turns, Files
<1>1. task[p].at # "claimed" /\ task'[p].at = "idle" /\ task'[p] = Idle
  BY DEF Starting, Idle
<1>2. /\ journal' \in [Job -> RowType] /\ \A k \in Job \ {j} : journal'[k] = journal[k]
      /\ journal'[j].state = "completed" /\ journal'[j].resolution = r
      /\ journal'[j].owner = Nobody /\ ~journal'[j].live
      /\ journal'[j].target = journal[j].target /\ journal'[j].known = journal[j].known
  BY ClosedIs DEF IInv
<1>3. Shapes'
  BY <1>2 DEF IInv, Shapes, Quiet
<1>4. /\ WellFormed(journal[j]) /\ Unwritten(j) /\ Written(j) /\ Filed(j)
      /\ journal[j] \in RowType /\ jobs[j] \in JobStates
  BY DEF IInv, Rows, Shapes
<1>5. Overlapped' <=> Overlapped
  BY DEF Overlapped, Quiet
<1>6. /\ HasRow(j)' /\ ~Pinned(j)' /\ ~Pending(j)' /\ jobs'[j] \notin Active
      /\ RolledBack(j)' = (r = "rolled_back") /\ Broken(j)' = (r = "inconsistent")
  BY <1>2 DEF HasRow, Pinned, Pending, RolledBack, Broken, Active
<1>7. Advances(p, j)
  BY <1>1, <1>2, <1>6 DEF Advances, SameData, Inspecting
<1>8. Decided(j)
  <2>1. journal[j].state = "completed" =>
            r = "inconsistent" \/ journal[j].resolution = r
    BY <1>4, <1>6 DEF RolledBack
  <2>2. jobs[j] \in {"succeeded", "failed", "cancelled"} /\ jobs'[j] # jobs[j] => Pinned(j)
    BY <1>4 DEF Written
  <2>3. Pinned(j) => r = "inconsistent"
    BY DEF Pinned, RolledBack
  <2> QED
    BY <1>2, <2>1, <2>2, <2>3 DEF Decided
<1>9. \A q \in Process \ {p} : task[q].at # "idle" /\ J(q) = j => Spares(q, j)
  <2> TAKE q \in Process \ {p}
  <2> SUFFICES ASSUME task[q].at # "idle", J(q) = j  PROVE Spares(q, j)
    OBVIOUS
  <2>1. ~Owns(q, j)'
    BY <1>2, Numbers DEF Owns
  <2>3. journal[j].state = "allocating" => ~journal'[j].known
    BY <1>2, <1>4 DEF Written, HasRow
  <2>4. Mine(q, j) => Lost(q, j)'
    BY <1>5, <1>6, <2>3 DEF Lost, Mine
  <2>5. Lost(q, j) => Lost(q, j)'
    <3>1. (RolledBack(j)' \/ Broken(j)') /\ (~journal[j].known => ~journal'[j].known)
      BY <1>2, <1>6
    <3> QED
      BY <1>5, <3>1 DEF Lost
  <2> QED
    BY <2>1, <2>4, <2>5 DEF Spares
<1>10. Keeps(p, j)
  BY <1>1, <1>2, <1>6, <1>8, <1>9 DEF Keeps
<1>11. WellFormed(journal[j])' /\ Unwritten(j)' /\ Written(j)'
  BY <1>2, <1>4, <1>6 DEF WellFormed, Unwritten, Written, Quiet, Pending, RolledBack, Broken
<1>12. Filed(j)'
  <2>1. Pinned(j) \/ Broken(j) => r = "inconsistent"
    BY <1>4 DEF Pinned, Broken, RolledBack, WellFormed
  <2>2. j \in artifact \/ j \in facts => Pinned(j) \/ Broken(j)
    BY <1>4 DEF Filed
  <2> QED
    BY <1>5, <1>6, <2>1, <2>2 DEF Filed
<1> QED
  BY <1>1, <1>3, <1>7, <1>10, <1>11, <1>12, StepIInv

\* A step that hands its row, which may be another's by now, to its undoing.
LEMMA HandsOver ==
    ASSUME IInv, NEW p \in Process, NEW j \in Job, J(p) = j,
           task[p].at \in {"authorize", "promote", "commit"}, Quiet,
           UNCHANGED <<journal, artifact, facts, files>>, jobs' \in {jobs, Cancelled(j)},
           faults' \in 0..MaxFaults, HasRow(j), Owns(p, j) => Pending(j),
           phase[p] \notin Recovering, Go(p, "resolve")
    PROVE  IInv' /\ AllDecided
<1>1. Shapes /\ task[p].at # "idle" /\ task[p].at \notin Starting
  BY DEF IInv, Starting
<1>2. Turns(p, j, {"resolve"}) /\ task'[p].at = "resolve"
  BY <1>1, GoIs DEF Turns, Working
<1>3. Ends(j) /\ Files(j)
  BY <1>1, JobIs DEF Ends, Files, files, Shapes
<1>4. Writing(p, j)' /\ Repairing(p, j)'
  <2>1. HasRow(j)' /\ (Owns(p, j)' => Pending(j)')
    BY DEF HasRow, Owns, Pending
  <2> QED
    BY <1>2, <2>1, StandsUndoing DEF Undoing
<1>5. /\ Turns(p, j, Working \union Inspecting) /\ task'[p].at \notin Starting
      /\ task'[p].at \notin Inspecting
  BY <1>2 DEF Turns, Working, Starting, Inspecting
<1>6. final' = final /\ stage' = stage
  BY DEF files
<1> QED
  BY <1>1, <1>3, <1>4, <1>5, <1>6, StayIInv

\* _authorize: the lease is renewed, or the row is handed to its undoing.
LEMMA AuthorizeIInv ==
    ASSUME IInv, NEW p \in Process, Authorize(p)
    PROVE  IInv' /\ AllDecided
<1>1. /\ task[p].at = "authorize" /\ Alive(p) /\ task[p].at # "idle"
      /\ UNCHANGED <<jobs, artifact, facts, files>> /\ Quiet
  BY Quietly DEF Authorize, At
<1>2. PICK j \in Job : J(p) = j
  BY <1>1, AtWork
<1>3. /\ Shapes /\ HasRow(j) /\ phase[p] \notin Recovering /\ WellFormed(journal[j])
      /\ journal[j] \in RowType
      /\ Owns(p, j) => journal[j].state = "prepared" /\ j \in stage /\ j \notin final
  BY <1>1, <1>2, Finds, AtWork DEF Writing, Staged, Working, Undoing
<1>4. faults' \in 0..MaxFaults
  BY Faults DEF Authorize
<1>5. CASE Owns(p, j) /\ journal' = Renewed(p, j, journal[j].state) /\ Go(p, "promote")
  <2>1. Turns(p, j, {"promote"}) /\ task'[p].at = "promote"
    BY <1>2, <1>3, <1>5, GoIs DEF Turns, Working
  <2>2. Carries(p, j) /\ journal'[j].state = "prepared"
    BY <1>3, <1>5, HeldCarries
  <2>3. Writing(p, j)' /\ Repairing(p, j)'
    <3>1. (journal[j].state = "prepared")' /\ j \in stage' /\ j \notin final'
      BY <1>1, <1>3, <1>5, <2>2 DEF files
    <3> QED
      BY <2>1, <3>1, StandsStaged DEF Staged
  <2>4. Pending(j) /\ Ends(j) /\ Files(j)
    BY <1>1, <1>3, <1>5 DEF Pending, Ends, Files, files, Shapes
  <2> QED
    BY <1>1, <1>2, <1>3, <1>4, <1>5, <2>1, <2>2, <2>3, <2>4, CarryIInv DEF Turns, files
<1>6. CASE UNCHANGED journal /\ Go(p, "resolve")
  <2>1. Owns(p, j) => Pending(j)
    BY <1>3 DEF Pending
  <2> QED
    BY <1>1, <1>2, <1>3, <1>4, <1>6, <2>1, HandsOver
<1> QED
  BY <1>2, <1>5, <1>6 DEF Authorize
-----------------------------------------------------------------------------
\* The rename, or the end of the job by the fence.
LEMMA PromoteIInv ==
    ASSUME IInv, NEW p \in Process, Promote(p)
    PROVE  IInv' /\ AllDecided
<1>1. /\ task[p].at = "promote" /\ Alive(p) /\ task[p].at # "idle"
      /\ UNCHANGED <<artifact, facts>>
  BY DEF Promote, At
<1>2. PICK j \in Job : J(p) = j
  BY <1>1, AtWork
<1>3. /\ Shapes /\ HasRow(j) /\ phase[p] \notin Recovering
      /\ Owns(p, j) => journal[j].state = "prepared" /\ j \in stage /\ j \notin final
  BY <1>1, <1>2, Finds, AtWork DEF Writing, Staged, Working, Undoing
<1>4. faults' \in 0..MaxFaults /\ Quiet
  BY <1>2, Faults DEF Promote, Apart, NoDrop, Drop, CancelRunning, Quiet, IInv, Shapes
<1>5. CASE /\ Owns(p, j) /\ journal' = Renewed(p, j, journal[j].state) /\ MoveToFinal(j)
           /\ Go(p, "record") /\ UNCHANGED jobs
  <2>1. Turns(p, j, {"record"}) /\ task'[p].at = "record"
    BY <1>2, <1>3, <1>5, GoIs DEF Turns, Working
  <2>2. Carries(p, j) /\ journal'[j].state = "prepared"
    BY <1>3, <1>5, HeldCarries
  <2>3. Writing(p, j)' /\ Repairing(p, j)'
    <3>1. j \in final' /\ j \notin stage'
      BY <1>5 DEF MoveToFinal
    <3> QED
      BY <2>1, <2>2, <3>1, StandsRecord
  <2>4. Pending(j) /\ Ends(j) /\ Files(j)
    BY <1>1, <1>3, <1>5 DEF Pending, Ends, Files, MoveToFinal, Shapes
  <2> QED
    BY <1>1, <1>2, <1>3, <1>4, <1>5, <2>1, <2>2, <2>3, <2>4, CarryIInv DEF Turns, MoveToFinal
<1>6. CASE UNCHANGED <<journal, files>> /\ Go(p, "resolve") /\ jobs' \in {jobs, Cancelled(j)}
  <2>1. Owns(p, j) => Pending(j)
    BY <1>3 DEF Pending
  <2> QED
    BY <1>1, <1>2, <1>3, <1>4, <1>6, <2>1, HandsOver
<1> QED
  BY <1>2, <1>5, <1>6 DEF Promote, CancelRunning

\* The row becomes promoted; an outcome that cannot be read leaves it either way.
LEMMA RecordIInv ==
    ASSUME IInv, NEW p \in Process, Record(p)
    PROVE  IInv' /\ AllDecided
<1>1. /\ task[p].at = "record" /\ Alive(p) /\ task[p].at # "idle" /\ task[p].at \notin Starting
      /\ UNCHANGED <<jobs, artifact, facts, files>> /\ Quiet
  BY Quietly DEF Record, At, Starting
<1>2. PICK j \in Job : J(p) = j
  BY <1>1, AtWork
<1>3. /\ Shapes /\ HasRow(j) /\ phase[p] \notin Recovering
      /\ Owns(p, j) => journal[j].state = "prepared" /\ j \in final /\ j \notin stage
  BY <1>1, <1>2, Finds, AtWork DEF Writing, Renamed, Staged, Working, Undoing
<1>4. faults' \in 0..MaxFaults /\ Ends(j) /\ Files(j)
  BY <1>1, <1>3, Faults DEF Record, Ends, Files, files, Shapes
<1>5. CASE Owns(p, j) /\ journal' = Renewed(p, j, "promoted") /\ (Go(p, "commit") \/ Leave(p))
  <2>1. Turns(p, j, {"commit"})
    BY <1>2, <1>3, <1>5, GoIs, LeaveIs DEF Turns, Working
  <2>2. Carries(p, j) /\ journal'[j].state = "promoted"
    <3>1. "promoted" \in Unresolved \union {"none", "completed"}
      BY DEF Unresolved
    <3> QED
      BY <1>3, <1>5, <3>1, RenewalCarries
  <2>3. task'[p].at # "idle" => Writing(p, j)' /\ Repairing(p, j)'
    <3>1. j \in final' /\ j \notin stage'
      BY <1>1, <1>3, <1>5 DEF files
    <3> QED
      BY <2>1, <2>2, <3>1, StandsCommit DEF Turns, Idle
  <2>4. Pending(j)
    BY <1>3, <1>5 DEF Pending
  <2> QED
    BY <1>1, <1>2, <1>3, <1>4, <1>5, <2>1, <2>2, <2>3, <2>4, CarryIInv DEF Turns, files
<1>6. CASE UNCHANGED journal /\ Leave(p)
  <2>1. Turns(p, j, {}) /\ task'[p].at = "idle"
    BY <1>3, <1>6, LeaveIs DEF Turns
  <2> QED
    BY <1>1, <1>2, <1>3, <1>4, <1>6, <2>1, StayIInv DEF Turns, Inspecting, Starting, files
<1> QED
  BY <1>2, <1>5, <1>6 DEF Record

\* The transaction that publishes: the job, the row, the artifact and the facts.
LEMMA CommittedIInv ==
    ASSUME IInv, NEW p \in Process, NEW j \in Job, J(p) = j, task[p].at = "commit",
           jobs[j] = "running", Committed(j), Owns(p, j), Leave(p), NoFault, Quiet, UNCHANGED files
    PROVE  IInv' /\ AllDecided
<1>1. /\ Shapes /\ Owns(p, j) /\ journal[j].state = "promoted" /\ j \in final /\ j \notin stage
      /\ WellFormed(journal[j]) /\ Unwritten(j) /\ Written(j) /\ Filed(j)
      /\ journal[j] \in RowType /\ jobs[j] \in JobStates
  <2>1. At(p, "commit")
    BY AtWork DEF At
  <2> QED
    BY <2>1, Finds DEF Writing, Renamed
<1>2. /\ journal' \in [Job -> RowType] /\ \A k \in Job \ {j} : journal'[k] = journal[k]
      /\ journal'[j].state = "completed" /\ journal'[j].resolution = "committed"
      /\ journal'[j].owner = Nobody /\ ~journal'[j].live
      /\ journal'[j].target = journal[j].target /\ journal'[j].known = journal[j].known
  BY <1>1, ClosedIs DEF Committed
<1>3. journal[j].target \in Targets /\ HasRow(j) /\ Pending(j) /\ journal[j].known
  BY <1>1 DEF Written, HasRow, Pending, WellFormed
<1>4. /\ jobs' \in [Job -> JobStates] /\ \A k \in Job \ {j} : jobs'[k] = jobs[k]
      /\ jobs'[j] = journal[j].target /\ jobs'[j] \notin Active
  BY <1>1, <1>3 DEF Committed, Shapes, Targets, JobStates, Active
<1>5. /\ artifact' = artifact \union {j} /\ facts' \subseteq Job
      /\ \A k \in Job \ {j} : k \in facts' <=> k \in facts
      /\ journal[j].target = "succeeded" => j \in facts'
  BY <1>1 DEF Committed, PersistFacts, Shapes
<1>6. /\ task' \in [Process -> TaskType] /\ task'[p] = Idle /\ task'[p].at = "idle"
      /\ \A q \in Process \ {p} : task'[q] = task[q]
  BY <1>1, LeaveIs
<1>7. Shapes'
  BY <1>1, <1>2, <1>4, <1>5, <1>6 DEF Shapes, files, Quiet, NoFault
<1>8. Advances(p, j)
  BY <1>2, <1>4, <1>5, <1>6 DEF Advances, SameData, files, Inspecting
<1>9. HasRow(j)' /\ Pinned(j)' /\ ~RolledBack(j) /\ ~Broken(j) /\ ~Pinned(j)
  BY <1>1, <1>2 DEF HasRow, Pinned, RolledBack, Broken, WellFormed
<1>10. Decided(j)
  BY <1>1, <1>9 DEF Decided
<1>11. Overlapped' <=> Overlapped
  BY DEF Overlapped, Quiet
<1>12. Keeps(p, j)
  <2>1. journal[j].state \notin {"allocating", "completed"} /\ j \in stage' => j \in stage
    BY <1>1 DEF files
  <2> QED
    BY <1>1, <1>2, <1>3, <1>4, <1>9, <1>10, <1>11, <2>1, HolderKeeps
<1>13. WellFormed(journal[j])' /\ Unwritten(j)' /\ Written(j)' /\ Filed(j)'
  BY <1>1, <1>2, <1>3, <1>4, <1>5, <1>9
  DEF WellFormed, Unwritten, Written, Filed, Quiet, files, Pinned, Pending, RolledBack, Broken
<1> QED
  BY <1>6, <1>7, <1>8, <1>12, <1>13, StepIInv
-----------------------------------------------------------------------------
LEMMA CommitIInv ==
    ASSUME IInv, NEW p \in Process, Commit(p)
    PROVE  IInv' /\ AllDecided
<1>1. task[p].at = "commit" /\ Alive(p) /\ task[p].at # "idle" /\ UNCHANGED files
  BY DEF Commit, At
<1>2. PICK j \in Job : J(p) = j
  BY <1>1, AtWork
<1>3. /\ Shapes /\ HasRow(j) /\ phase[p] \notin Recovering
      /\ Owns(p, j) => journal[j].state = "promoted"
  BY <1>1, <1>2, Finds, AtWork DEF Writing, Renamed, Working, Undoing, At
<1>4. faults' \in 0..MaxFaults /\ Quiet
  BY <1>2, Faults DEF Commit, Apart, NoDrop, Drop, CancelRunning, Quiet, IInv, Shapes
<1>5. CASE jobs[j] = "running" /\ Owns(p, j) /\ Committed(j) /\ Leave(p) /\ NoFault
  BY <1>1, <1>2, <1>4, <1>5, CommittedIInv
<1>6. CASE /\ jobs' \in {jobs, Cancelled(j)} /\ UNCHANGED <<journal, artifact, facts>>
           /\ Go(p, "resolve")
  <2>1. Owns(p, j) => Pending(j)
    BY <1>3 DEF Pending
  <2> QED
    BY <1>1, <1>2, <1>3, <1>4, <1>6, <2>1, HandsOver
<1>7. CASE UNCHANGED rows /\ Leave(p)
  <2>1. Turns(p, j, {}) /\ task'[p].at = "idle"
    BY <1>3, <1>7, LeaveIs DEF Turns
  <2>2. Ends(j) /\ Files(j) /\ task[p].at \notin Starting
    BY <1>1, <1>3, <1>7 DEF Ends, Files, files, rows, Shapes, Starting
  <2> QED
    BY <1>1, <1>2, <1>3, <1>4, <1>7, <2>1, <2>2, StayIInv DEF Turns, Inspecting, Starting, files, rows
<1> QED
  BY <1>2, <1>5, <1>6, <1>7 DEF Commit, CancelRunning, NoDrop, rows

\* The files of a collection that was not committed are taken back.
LEMMA ResolveIInv ==
    ASSUME IInv, NEW p \in Process, Resolve(p)
    PROVE  IInv' /\ AllDecided
<1>1. /\ task[p].at = "resolve" /\ Alive(p) /\ task[p].at # "idle" /\ task[p].at \notin Starting
      /\ UNCHANGED <<jobs, artifact, facts>> /\ Quiet
  BY Quietly DEF Resolve, At, Starting
<1>2. PICK j \in Job : J(p) = j
  BY <1>1, AtWork
<1>3. /\ Shapes /\ HasRow(j) /\ WellFormed(journal[j]) /\ Filed(j)
      /\ Owns(p, j) => Pending(j) \/ (RolledBack(j) /\ journal[j].known)
  BY <1>1, <1>2, Finds DEF Repairing, Writing, Undoing
<1>4. faults' \in 0..MaxFaults /\ Ends(j)
  BY <1>1, <1>3, Faults DEF Resolve, Ends, Shapes
<1>5. CASE UNCHANGED <<journal, files>> /\ Leave(p)
  <2>1. Turns(p, j, {}) /\ task'[p].at = "idle" /\ Files(j)
    BY <1>3, <1>5, LeaveIs DEF Turns, Files, files, Shapes
  <2> QED
    BY <1>1, <1>2, <1>3, <1>4, <1>5, <2>1, StayIInv DEF Turns, Inspecting, Starting, files
<1>6. ASSUME Owns(p, j), journal' = Renewed(p, j, journal[j].state), NEW done \in BOOLEAN,
             DemoteAndDiscard(j, done), Go(p, IF done THEN "settle" ELSE "mark")
      PROVE  IInv' /\ AllDecided
  <2>1. Carries(p, j) /\ journal'[j].state = journal[j].state
    BY <1>3, <1>6, HeldCarries
  <2>2. ~Pinned(j) /\ ~Broken(j)
    BY <1>3, <1>6 DEF Pinned, Broken, Pending, RolledBack, WellFormed
  <2>3. /\ Turns(p, j, {"settle", "mark"}) /\ task'[p].at = (IF done THEN "settle" ELSE "mark")
    BY <1>2, <1>3, <1>6, GoIs DEF Turns, Working
  <2>4. Files(j) /\ (j \in final' => j \in final) /\ (j \in stage' => j \in stage \/ j \in final)
    BY <1>3, <1>6 DEF Files, files, DemoteAndDiscard, DiscardStage, Shapes
  <2>5. j \in final => Pending(j)
    BY <1>3, <2>2 DEF Filed
  <2>6. Writing(p, j)' /\ Repairing(p, j)'
    <3>1. done => j \notin stage' /\ j \notin final'
      BY <1>6 DEF DemoteAndDiscard, DiscardStage, files
    <3>2. (Pending(j)' \/ (RolledBack(j) /\ journal[j].known)') /\ HasRow(j)'
      BY <1>3, <1>6, <2>1 DEF Carries, Pending, RolledBack, HasRow
    <3> QED
      BY <2>3, <3>1, <3>2, StandsUndoing, StandsMark DEF Undoing
  <2>7. /\ Turns(p, j, {"promote", "record", "commit", "resolve", "settle", "mark"})
        /\ task'[p].at \in {"idle", "settle", "mark"}
    BY <2>3 DEF Turns
  <2> QED
    BY <1>1, <1>2, <1>3, <1>4, <1>6, <2>1, <2>4, <2>5, <2>6, <2>7, CarryIInv
<1> QED
  BY <1>2, <1>5, <1>6 DEF Resolve

\* The row is closed after its files, or left to a person.
LEMMA SettleIInv ==
    ASSUME IInv, NEW p \in Process, Settle(p)
    PROVE  IInv' /\ AllDecided
<1>1. /\ task[p].at = "settle" /\ Alive(p) /\ task[p].at # "idle" /\ task[p].at \notin Starting
      /\ UNCHANGED <<artifact, facts, files>> /\ Quiet
  BY Quietly DEF Settle, At, Starting
<1>2. PICK j \in Job : J(p) = j
  BY <1>1, AtWork
<1>3. /\ Shapes /\ HasRow(j) /\ WellFormed(journal[j]) /\ Written(j) /\ jobs[j] \in JobStates
      /\ Owns(p, j) => /\ Pending(j) \/ (RolledBack(j) /\ journal[j].known)
                       /\ j \notin stage /\ j \notin final
  BY <1>1, <1>2, Finds DEF Repairing, Writing, Undoing, At
<1>4. faults' \in 0..MaxFaults /\ Files(j)
  BY <1>1, <1>3, Faults DEF Settle, Files, files, Shapes
<1>5. CASE Owns(p, j) /\ journal' = Closed(j, "rolled_back") /\ jobs' = Stopped(j) /\ Leave(p)
  <2>1. Turns(p, j, {})
    BY <1>3, <1>5, LeaveIs DEF Turns
  <2>2. /\ jobs' \in [Job -> JobStates] /\ \A k \in Job \ {j} : jobs'[k] = jobs[k]
        /\ jobs'[j] \in {"needs_human", "cancelled"}
        /\ jobs[j] = "cancelled" => jobs'[j] = "cancelled"
    <3>1. ~Pinned(j)
      BY <1>3, <1>5 DEF Pinned, Pending, RolledBack
    <3> QED
      BY <1>3, <1>5, <3>1, JobIs DEF Written, Active
  <2>3. journal[j].state = "completed" => RolledBack(j)
    BY <1>3, <1>5 DEF Pending
  <2>4. \A q \in Process \ {p} : ~Mine(q, j)
    BY <1>5 DEF Mine, Owns
  <2> QED
    BY <1>1, <1>2, <1>3, <1>4, <1>5, <2>1, <2>2, <2>3, <2>4, CloseIInv DEF files
<1>6. CASE /\ UNCHANGED <<jobs, journal>>
           /\ Leave(p) \/ (phase[p] \in Recovering /\ Go(p, "mark"))
  <2>1. Turns(p, j, {"mark"}) /\ Ends(j)
    BY <1>2, <1>3, <1>6, GoIs, LeaveIs DEF Turns, Working, Ends, Shapes
  <2>2. task'[p].at # "idle" => Writing(p, j)' /\ Repairing(p, j)'
    <3>1. HasRow(j)'
      BY <1>3, <1>6 DEF HasRow
    <3> QED
      BY <2>1, <3>1, StandsMark DEF Turns, Idle
  <2> QED
    BY <1>1, <1>2, <1>3, <1>4, <1>6, <2>1, <2>2, StayIInv
    DEF Turns, Idle, Working, Inspecting, Starting, files
<1> QED
  BY <1>2, <1>5, <1>6 DEF Settle

\* A row is claimed, from whoever has it, and nothing else becomes of it.
LEMMA TakesKeep ==
    ASSUME IInv, NEW p \in Process, NEW j \in Job, HasRow(j),
           UNCHANGED <<jobs, artifact, facts, files>>, Overlapped' <=> Overlapped,
           journal' = Renewed(p, j, journal[j].state),
           \A q \in Process \ {p} : task[q].at # "idle" => Overlapped
    PROVE  /\ journal' \in [Job -> RowType] /\ \A k \in Job \ {j} : journal'[k] = journal[k]
           /\ journal'[j].owner = p /\ SameRow(j) /\ journal'[j].live
           /\ \A k \in Job : /\ HasRow(k)' = HasRow(k) /\ Pinned(k)' = Pinned(k)
                             /\ Pending(k)' = Pending(k)
                             /\ RolledBack(k)' = RolledBack(k) /\ Broken(k)' = Broken(k)
           /\ \A k \in Job : Keeps(p, k)
           /\ \A k \in Job : UNCHANGED admitted =>
                  WellFormed(journal[k])' /\ Unwritten(k)' /\ Written(k)' /\ Filed(k)'
<1>1. /\ journal' \in [Job -> RowType] /\ \A k \in Job \ {j} : journal'[k] = journal[k]
      /\ journal'[j].owner = p /\ journal'[j].live /\ SameRow(j)
  <2>1. Shapes /\ journal[j].state \in Unresolved \union {"none", "completed"}
    BY DEF IInv, Shapes, RowType
  <2> QED
    BY <2>1, RenewedIs DEF SameRow
<1>2. \A k \in Job : /\ HasRow(k)' = HasRow(k) /\ Pinned(k)' = Pinned(k)
                     /\ Pending(k)' = Pending(k)
                     /\ RolledBack(k)' = RolledBack(k) /\ Broken(k)' = Broken(k)
  BY <1>1 DEF HasRow, Pinned, Pending, RolledBack, Broken, SameRow
<1>3. Keeps(p, j)
  <2>1. ASSUME NEW q \in Process \ {p}, task[q].at # "idle", J(q) = j  PROVE Spares(q, j)
    <3>1. ~Owns(q, j)'
      BY <1>1 DEF Owns
    <3>2. Mine(q, j) => ~journal[j].known
      BY DEF Mine, IInv, Rows, Written, HasRow
    <3>3. (Mine(q, j) => Lost(q, j)') /\ (Lost(q, j) => Lost(q, j)')
      BY <1>1, <1>2, <2>1, <3>1, <3>2 DEF Lost, Mine, SameRow
    <3> QED
      BY <3>1, <3>3 DEF Spares
  <2> QED
    BY <1>1, <1>2, <2>1 DEF Keeps, Decided, SameRow, files
<1>4. ASSUME NEW k \in Job \ {j}  PROVE Keeps(p, k)
  BY <1>1, SameKeeps DEF SameData, files
<1>5. ASSUME NEW k \in Job, UNCHANGED admitted
      PROVE  WellFormed(journal[k])' /\ Unwritten(k)' /\ Written(k)' /\ Filed(k)'
  <2>1. WellFormed(journal[k]) /\ Unwritten(k) /\ Written(k) /\ Filed(k)
    BY DEF IInv, Rows
  <2>2. CASE k = j
    <3>1. WellFormed(journal[j])'
      BY <1>1, <2>1, <2>2, Numbers DEF WellFormed, SameRow
    <3>2. Unwritten(j)' /\ Written(j)' /\ Filed(j)'
      BY <1>1, <1>2, <1>5, <2>1, <2>2 DEF Unwritten, Written, Filed, SameRow, files
    <3> QED
      BY <2>2, <3>1, <3>2
  <2>3. CASE k # j
    BY <1>1, <1>2, <1>5, <2>1, <2>3 DEF WellFormed, Unwritten, Written, Filed, files
  <2> QED
    BY <2>2, <2>3
<1> QED
  BY <1>1, <1>2, <1>3, <1>4, <1>5

LEMMA TakesIInv ==
    ASSUME IInv, NEW p \in Process, NEW j \in Job, J(p) = j, task[p].at = "mark", HasRow(j),
           UNCHANGED <<jobs, artifact, facts, files>>, Quiet, faults' \in 0..MaxFaults,
           journal' = Renewed(p, j, journal[j].state),
           \A q \in Process \ {p} : task[q].at # "idle" => Overlapped,
           task' \in [Process -> TaskType], \A q \in Process \ {p} : task'[q] = task[q],
           task'[p] = Idle \/ (task'[p].at = "mark" /\ task'[p].job = j)
    PROVE  IInv' /\ AllDecided
<1>1. Overlapped' <=> Overlapped
  BY DEF Overlapped, Quiet
<1>2. /\ journal' \in [Job -> RowType] /\ \A k \in Job \ {j} : journal'[k] = journal[k]
      /\ HasRow(j)' /\ Keeps(p, j)
      /\ WellFormed(journal[j])' /\ Unwritten(j)' /\ Written(j)' /\ Filed(j)'
  BY <1>1, TakesKeep DEF Quiet
<1>3. Shapes'
  BY <1>2 DEF IInv, Shapes, Quiet, files
<1>4. Advances(p, j)
  BY <1>2 DEF Advances, SameData, files, Inspecting, Idle, Accepting
<1>5. task'[p].at # "idle" => Before(p, j)' /\ Writing(p, j)' /\ Repairing(p, j)'
  BY <1>2, StandsMark DEF Before, Starting, At, Idle
<1> QED
  BY <1>2, <1>3, <1>4, <1>5, StepIInv

\* The row is marked whoever holds it; a claim that was committed is one.
LEMMA MarkIInv ==
    ASSUME IInv, NEW p \in Process, Mark(p)
    PROVE  IInv' /\ AllDecided
<1>1. /\ task[p].at = "mark" /\ Alive(p) /\ task[p].at # "idle" /\ task[p].at \notin Starting
      /\ UNCHANGED <<artifact, facts, files>> /\ Quiet
  BY Quietly DEF Mark, At, Starting
<1>2. PICK j \in Job : J(p) = j
  BY <1>1, AtWork
<1>3. /\ Shapes /\ HasRow(j) /\ jobs[j] \in JobStates /\ faults' \in 0..MaxFaults
      /\ task[p] \in TaskType /\ task[p].job = j
  BY <1>1, <1>2, Finds, Faults DEF Repairing, Mark, Shapes, J
<1>4. Files(j)
  BY <1>1, <1>3 DEF Files, files, Shapes
<1>5. ASSUME NEW q \in Process \ {p}, task[q].at # "idle"  PROVE Overlapped
  <2>1. Alive(q)
    BY <1>5, AtWork
  <2> QED
    BY <1>1, <2>1, TwoOverlap
<1>6. CASE /\ journal' = Closed(j, "inconsistent") /\ Leave(p)
           /\ jobs' = [jobs EXCEPT ![j] = IF @ = "cancelled" THEN @ ELSE "needs_human"]
  <2>1. Turns(p, j, {}) /\ task'[p].at = "idle"
    BY <1>3, <1>6, LeaveIs DEF Turns
  <2>2. /\ jobs' \in [Job -> JobStates] /\ \A k \in Job \ {j} : jobs'[k] = jobs[k]
        /\ jobs'[j] \in {"needs_human", "cancelled"}
        /\ jobs[j] = "cancelled" => jobs'[j] = "cancelled"
    BY <1>3, <1>6 DEF Shapes, JobStates
  <2> QED
    BY <1>1, <1>2, <1>3, <1>4, <1>5, <1>6, <2>1, <2>2, CloseIInv DEF files
<1>7. CASE UNCHANGED <<jobs, journal>> /\ (Leave(p) \/ UNCHANGED task)
  <2>1. Turns(p, j, {"mark"}) /\ Ends(j)
    BY <1>1, <1>3, <1>7, LeaveIs DEF Turns, Ends, Shapes
  <2>2. task'[p].at # "idle" => Writing(p, j)' /\ Repairing(p, j)'
    <3>1. HasRow(j)'
      BY <1>3, <1>7 DEF HasRow
    <3> QED
      BY <2>1, <3>1, StandsMark DEF Turns, Idle
  <2> QED
    BY <1>1, <1>2, <1>3, <1>4, <1>7, <2>1, <2>2, StayIInv
    DEF Turns, Idle, Working, Inspecting, Starting, files
<1>8. CASE /\ Claimable(p, j) /\ UNCHANGED jobs /\ journal' = Renewed(p, j, journal[j].state)
           /\ (Leave(p) \/ UNCHANGED task)
  <2>1. /\ \A q \in Process \ {p} : task'[q] = task[q]
        /\ task' \in [Process -> TaskType]
        /\ task'[p] = Idle \/ (task'[p].at = "mark" /\ task'[p].job = j)
    BY <1>1, <1>3, <1>8, LeaveIs DEF Shapes
  <2> QED
    BY <1>1, <1>2, <1>3, <1>5, <1>8, <2>1, TakesIInv
<1> QED
  BY <1>2, <1>6, <1>7, <1>8 DEF Mark
-----------------------------------------------------------------------------
\* The journal row of a collection is inserted; a lost acknowledgement may leave
\* none, one, or one that is closed again.
LEMMA AllocateIInv ==
    ASSUME IInv, NEW p \in Process, Allocate(p)
    PROVE  IInv' /\ AllDecided
<1>1. /\ task[p].at = "allocate" /\ Alive(p) /\ task[p].at # "idle" /\ At(p, "allocate")
      /\ UNCHANGED <<artifact, facts, files>> /\ Quiet
  BY Quietly DEF Allocate, At
<1>2. PICK j \in Job : J(p) = j
  BY <1>1, AtWork
<1>3. /\ Shapes /\ ~HasRow(j) /\ task[p].target \in Targets /\ jobs[j] \in Begun
      /\ WellFormed(journal[j]) /\ Unwritten(j) /\ journal[j] = NoRow
      /\ phase[p] \notin Recovering /\ admitted[j].at = "ended" /\ Ticket(p, j)
  <2>1. task[p].at \in Working \ ({"mark"} \union Undoing)
    BY <1>1 DEF Working, Undoing
  <2>2. Before(p, j) /\ Unwritten(j) /\ WellFormed(journal[j]) /\ Shapes
    BY <1>1, <1>2, Finds
  <2>3. phase[p] \notin Recovering /\ admitted[j].at = "ended" /\ Ticket(p, j)
    BY <1>1, <1>2, <2>1, AtWork
  <2> QED
    BY <1>1, <2>2, <2>3 DEF Before, Starting, Begun, Unwritten
<1>4. /\ j \notin artifact /\ j \notin facts /\ j \notin stage /\ j \notin final
      /\ faults' \in 0..MaxFaults
  BY <1>3, Faults DEF Unwritten, Allocate
<1>5. \/ journal' = journal
      \/ /\ journal' \in [Job -> RowType] /\ \A k \in Job \ {j} : journal'[k] = journal[k]
         /\ journal'[j].target = task[p].target /\ ~journal'[j].known
         /\ \/ /\ journal'[j].state = "allocating" /\ journal'[j].resolution = "none"
               /\ journal'[j].owner = p /\ journal'[j].live
            \/ /\ journal'[j].state = "completed" /\ journal'[j].resolution = "rolled_back"
               /\ journal'[j].owner = Nobody /\ ~journal'[j].live /\ jobs' = Stopped(j)
               /\ Leave(p)
  <2>1. ASSUME journal' = Allocation(p)
        PROVE  /\ journal' \in [Job -> RowType] /\ \A k \in Job \ {j} : journal'[k] = journal[k]
               /\ journal'[j].target = task[p].target /\ ~journal'[j].known
               /\ journal'[j].state = "allocating" /\ journal'[j].resolution = "none"
               /\ journal'[j].owner = p /\ journal'[j].live
    <3> DEFINE n == [state |-> "allocating", resolution |-> "none", owner |-> p, live |-> TRUE,
                     target |-> task[p].target, known |-> FALSE]
    <3>1. /\ n \in RowType /\ n.state = "allocating" /\ n.resolution = "none"
          /\ n.owner = p /\ n.live /\ n.target = task[p].target /\ ~n.known
      BY <1>3 DEF RowType, Unresolved
    <3>2. journal' = [journal EXCEPT ![j] = n]
      BY <2>1, <1>2 DEF Allocation
    <3> HIDE DEF n
    <3> QED
      BY <1>3, <3>1, <3>2, RowIs
  <2>2. ASSUME journal' = [Allocation(p) EXCEPT ![J(p)] = [@ EXCEPT
                  !.state = "completed", !.resolution = "rolled_back",
                  !.owner = Nobody, !.live = FALSE]]
        PROVE  /\ journal' \in [Job -> RowType] /\ \A k \in Job \ {j} : journal'[k] = journal[k]
               /\ journal'[j].target = task[p].target /\ ~journal'[j].known
               /\ journal'[j].state = "completed" /\ journal'[j].resolution = "rolled_back"
               /\ journal'[j].owner = Nobody /\ ~journal'[j].live
    <3> DEFINE m == [state |-> "allocating", resolution |-> "none", owner |-> p, live |-> TRUE,
                     target |-> task[p].target, known |-> FALSE]
    <3> DEFINE n == [m EXCEPT !.state = "completed", !.resolution = "rolled_back",
                              !.owner = Nobody, !.live = FALSE]
    <3>1. /\ m \in RowType /\ m.target = task[p].target /\ ~m.known
      BY <1>3 DEF RowType, Unresolved
    <3>2. Allocation(p) = [journal EXCEPT ![j] = m]
      BY <1>2 DEF Allocation
    <3> HIDE DEF m
    <3>3. /\ n \in RowType /\ n.state = "completed" /\ n.resolution = "rolled_back"
          /\ n.owner = Nobody /\ ~n.live /\ n.target = task[p].target /\ ~n.known
      BY <3>1 DEF RowType
    <3>4. Allocation(p)[j] = m /\ DOMAIN Allocation(p) = Job
          /\ \A k \in Job \ {j} : Allocation(p)[k] = journal[k]
      BY <1>3, <3>2 DEF Shapes
    <3>5. journal' = [k \in Job |-> IF k = j THEN n ELSE journal[k]]
      BY <2>2, <1>2, <3>4
    <3> HIDE DEF n
    <3>6. journal' = [journal EXCEPT ![j] = n]
      BY <1>3, <3>5 DEF Shapes
    <3> QED
      BY <1>3, <3>3, <3>6, RowIs
  <2> QED
    BY <2>1, <2>2, <1>2 DEF Allocate, SettleAllocation
<1>6. /\ jobs' \in [Job -> JobStates] /\ \A k \in Job \ {j} : jobs'[k] = jobs[k]
      /\ jobs'[j] = jobs[j] \/ (jobs[j] \in Active /\ jobs'[j] = "needs_human")
      /\ jobs'[j] \in Begun /\ (jobs' = Stopped(j) => jobs'[j] \notin Active)
  BY <1>2, <1>3, JobIs DEF Allocate, SettleAllocation, Active, Begun, Shapes
<1>7. Leave(p) \/ (Go(p, "create") /\ journal' = Allocation(p))
  BY DEF Allocate
<1>8. /\ task' \in [Process -> TaskType] /\ \A q \in Process \ {p} : task'[q] = task[q]
      /\ task'[p] = Idle \/ (task'[p].at = "create" /\ task'[p].job = j)
  BY <1>2, <1>3, <1>7, GoIs, LeaveIs DEF Working
<1>9. task'[p].at # "idle" => (journal[j].state = "allocating")' /\ Owns(p, j)'
  <2>1. Leave(p) => task'[p].at = "idle"
    BY <1>3, LeaveIs
  <2>2. ASSUME Go(p, "create"), journal' = Allocation(p)
        PROVE  (journal[j].state = "allocating")' /\ Owns(p, j)'
    BY <1>2, <1>3, <2>2 DEF Allocation, Owns, Shapes
  <2> QED
    BY <1>7, <2>1, <2>2
<1>10. Shapes'
  BY <1>1, <1>3, <1>4, <1>5, <1>6, <1>8 DEF Shapes, files, Quiet
<1>11. Advances(p, j)
  BY <1>1, <1>3, <1>5, <1>6, <1>8 DEF Advances, SameData, files, Active, Inspecting, Idle
<1>12. HasRow(j)' => journal' # journal
  BY <1>3 DEF HasRow
<1>13. Decided(j)
  BY <1>3, <1>6 DEF Decided, NoRow, Active
<1>14. \A q \in Process \ {p} : ~Owns(q, j)' /\ ~Mine(q, j) /\ ~Lost(q, j)
  BY <1>3, <1>5, Numbers DEF Owns, Mine, Lost, NoRow, RolledBack, Broken
<1>15. Keeps(p, j)
  <2>1. \A q \in Process \ {p} : Spares(q, j)
    BY <1>14 DEF Spares
  <2>2. ~Pending(j) /\ j \notin stage'
    BY <1>1, <1>3, <1>4 DEF Pending, HasRow, files
  <2>3. jobs'[j] \in Active => jobs'[j] = jobs[j]
    BY <1>6 DEF Active
  <2> QED
    BY <1>1, <1>2, <1>3, <1>6, <1>13, <2>1, <2>2, <2>3 DEF Keeps
<1>16. WellFormed(journal[j])' /\ Unwritten(j)' /\ Written(j)' /\ Filed(j)'
  <2>1. CASE journal' = journal
    BY <1>1, <1>3, <1>4, <1>6, <2>1
    DEF WellFormed, Unwritten, Written, Filed, HasRow, files, Pinned, NoRow, RolledBack, Begun
  <2>2. CASE journal' # journal
    BY <1>1, <1>3, <1>4, <1>5, <1>6, <2>2, Numbers
    DEF WellFormed, Unwritten, Written, Filed, HasRow, files, Pinned, Begun, Quiet
  <2> QED
    BY <2>1, <2>2
<1>17. task'[p].at # "idle" => Before(p, j)' /\ Writing(p, j)' /\ Repairing(p, j)'
  <2>1. task'[p].at # "idle" => task'[p].at = "create" /\ Mine(p, j)' /\ j \notin stage'
    BY <1>1, <1>4, <1>8, <1>9 DEF Mine, files, Idle
  <2> QED
    BY <2>1, StandsWriting DEF Before, Starting, At
<1> QED
  BY <1>1, <1>2, <1>10, <1>11, <1>15, <1>16, <1>17, StepIInv
-----------------------------------------------------------------------------
\* What the writer of a stage finds, and what the failure of its writing leaves.
LEMMA WriterFinds ==
    ASSUME IInv, NEW p \in Process, NEW j \in Job, J(p) = j, task[p].at \in {"create", "prepare"}
    PROVE  /\ Shapes /\ HasRow(j) /\ Alive(p) /\ phase[p] \notin Recovering /\ ~Pinned(j)
           /\ Mine(p, j) \/ Lost(p, j)
           /\ task[p].at = "create" => j \notin stage
           /\ task[p].at = "prepare" => (Mine(p, j) /\ j \in stage) \/ Lost(p, j)
           /\ journal[j].state \in {"allocating", "completed"}
           /\ journal[j].state = "completed" => Lost(p, j) /\ jobs[j] \notin Active
           /\ journal[j].state = "allocating" => j \notin final
           /\ jobs[j] \in Begun /\ jobs[j] \in JobStates
<1>1. /\ task[p].at # "idle" /\ Alive(p) /\ phase[p] \notin Recovering
  BY AtWork DEF Working, Undoing
<1>2. /\ Shapes /\ Writing(p, j) /\ WellFormed(journal[j]) /\ Written(j) /\ Filed(j)
  BY <1>1, Finds
<1>3. Mine(p, j) \/ Lost(p, j)
  BY <1>1, <1>2 DEF Writing, At
<1>4. /\ journal[j].state \in {"allocating", "completed"} /\ HasRow(j)
      /\ journal[j].state = "completed" => Lost(p, j) /\ jobs[j] \notin Active
      /\ ~Pinned(j)
  BY <1>2, <1>3 DEF Mine, Lost, RolledBack, Broken, WellFormed, HasRow, Pinned, Written
<1>5. journal[j].state = "allocating" => j \notin final
  BY <1>2 DEF Filed, Pending, Pinned, Broken, WellFormed
<1>6. /\ task[p].at = "create" => j \notin stage
      /\ task[p].at = "prepare" => (Mine(p, j) /\ j \in stage) \/ Lost(p, j)
  BY <1>1, <1>2 DEF Writing, At
<1>7. jobs[j] \in Begun /\ jobs[j] \in JobStates
  BY <1>1, <1>2, <1>4, Finds DEF Written, Begun
<1> QED
  BY <1>1, <1>2, <1>3, <1>4, <1>5, <1>6, <1>7

LEMMA StageFailedIInv ==
    ASSUME IInv, NEW p \in Process, NEW j \in Job, J(p) = j, task[p].at \in {"create", "prepare"},
           Quiet, Leave(p), UNCHANGED <<artifact, facts, final>>, faults' \in 0..MaxFaults,
           NEW deleted \in BOOLEAN, StageFailed(j, deleted), Files(j),
           j \in stage' => j \in stage \/ task[p].at = "create",
           deleted /\ journal[j].state = "allocating" => j \notin stage'
    PROVE  IInv' /\ AllDecided
<1>1. /\ Shapes /\ HasRow(j) /\ Alive(p) /\ phase[p] \notin Recovering /\ ~Pinned(j)
      /\ journal[j].state \in {"allocating", "completed"}
      /\ journal[j].state = "completed" => Lost(p, j) /\ jobs[j] \notin Active
      /\ journal[j].state = "allocating" => j \notin final
      /\ jobs[j] \in Begun /\ jobs[j] \in JobStates /\ (Mine(p, j) \/ Lost(p, j))
  BY WriterFinds
<1>2. Turns(p, j, {}) /\ task'[p].at = "idle" /\ task[p].at # "idle" /\ task[p].at \notin Starting
  BY <1>1, LeaveIs DEF Turns, Starting
<1>3. CASE journal[j].state = "completed"
  <2>1. journal' = journal /\ jobs' = Stopped(j)
    BY <1>3 DEF StageFailed
  <2>2. Ends(j)
    BY <1>1, <2>1, JobIs DEF Ends
  <2> QED
    BY <1>1, <1>2, <1>3, <2>1, <2>2, StayIInv DEF Turns, Inspecting, Starting
<1>4. CASE journal[j].state = "allocating"
  <2>1. PICK r \in {"rolled_back", "inconsistent"} :
            /\ journal' = Closed(j, r) /\ jobs' = Stopped(j) /\ (r = "rolled_back" => deleted)
    BY <1>4 DEF StageFailed
  <2>2. /\ jobs' \in [Job -> JobStates] /\ \A k \in Job \ {j} : jobs'[k] = jobs[k]
        /\ jobs'[j] \in {"needs_human", "cancelled"}
        /\ jobs[j] = "cancelled" => jobs'[j] = "cancelled"
    BY <1>1, <2>1, JobIs DEF Active, Begun
  <2>3. ASSUME NEW q \in Process \ {p}, task[q].at # "idle"
        PROVE  Overlapped
    <3>1. Alive(q)
      BY <2>3, AtWork
    <3> QED
      BY <1>1, <3>1, TwoOverlap
  <2>4. r = "rolled_back" => j \notin final' /\ (j \in stage' => Overlapped)
    BY <1>1, <1>4, <2>1
  <2> QED
    BY <1>1, <1>2, <1>4, <2>1, <2>2, <2>3, <2>4, CloseIInv
<1> QED
  BY <1>1, <1>3, <1>4

LEMMA CreateStageIInv ==
    ASSUME IInv, NEW p \in Process, CreateStage(p)
    PROVE  IInv' /\ AllDecided
<1>1. /\ task[p].at = "create" /\ task[p].at # "idle" /\ task[p].at \notin Starting
      /\ UNCHANGED <<artifact, facts, final>> /\ Quiet
  BY Quietly DEF CreateStage, At, Starting, Create, files
<1>2. PICK j \in Job : J(p) = j
  BY <1>1, AtWork
<1>3. /\ Shapes /\ HasRow(j) /\ phase[p] \notin Recovering /\ j \notin stage
      /\ Mine(p, j) \/ Lost(p, j)
  BY <1>1, <1>2, WriterFinds
<1>4. faults' \in 0..MaxFaults
  BY Faults DEF CreateStage
<1>5. Create(j) \/ UNCHANGED files
  BY <1>2 DEF CreateStage
<1>6. Files(j) /\ (UNCHANGED jobs => Ends(j))
  BY <1>3, <1>5 DEF Create, Files, Ends, files, Shapes
<1>7. CASE UNCHANGED <<jobs, journal>> /\ ((Create(j) /\ Go(p, "prepare")) \/ Leave(p))
  <2>1. Turns(p, j, {"prepare"})
    BY <1>2, <1>3, <1>7, GoIs, LeaveIs DEF Turns, Working
  <2>2. task'[p].at # "idle" => Writing(p, j)' /\ Repairing(p, j)'
    <3>1. Leave(p) => task'[p].at = "idle"
      BY <1>3, LeaveIs
    <3>2. Create(j) => j \in stage'
      BY DEF Create
    <3>3. Overlapped' = Overlapped
      BY <1>1 DEF Overlapped, Quiet
    <3>4. (Mine(p, j) => Mine(p, j)') /\ (Lost(p, j) => Lost(p, j)')
      BY <1>7, <3>3 DEF Mine, Owns, Lost, RolledBack, Broken
    <3>5. task'[p].at # "idle" => task'[p].at = "prepare" /\ j \in stage'
      BY <1>7, <2>1, <3>1, <3>2 DEF Turns, Idle
    <3> QED
      BY <1>3, <3>4, <3>5, StandsWriting
  <2>3. task'[p].at \notin Starting /\ Turns(p, j, Working \union Inspecting) /\ task'[p].at \notin Inspecting
    BY <2>1 DEF Turns, Working, Inspecting, Starting, Idle
  <2> QED
    BY <1>1, <1>2, <1>3, <1>4, <1>6, <1>7, <2>2, <2>3, StayIInv
<1>8. CASE StageFailed(j, TRUE) /\ UNCHANGED files /\ Leave(p)
  BY <1>1, <1>2, <1>3, <1>4, <1>6, <1>8, StageFailedIInv DEF files
<1>9. CASE StageFailed(j, FALSE) /\ Leave(p)
  BY <1>1, <1>2, <1>3, <1>4, <1>6, <1>9, StageFailedIInv
<1> QED
  BY <1>2, <1>5, <1>7, <1>8, <1>9 DEF CreateStage

\* The row names the file from here on.
LEMMA PreparedIInv ==
    ASSUME IInv, NEW p \in Process, NEW j \in Job, J(p) = j, task[p].at = "prepare",
           Quiet, UNCHANGED <<jobs, artifact, facts, files>>, faults' \in 0..MaxFaults,
           Mine(p, j), journal' = [Renewed(p, j, "prepared") EXCEPT ![j].known = TRUE],
           Go(p, "authorize") \/ Leave(p)
    PROVE  IInv' /\ AllDecided
<1>1. /\ Shapes /\ HasRow(j) /\ phase[p] \notin Recovering /\ ~Pinned(j) /\ task[p].at # "idle"
      /\ j \notin final /\ j \in stage /\ jobs[j] \in Begun /\ journal[j].state = "allocating"
  BY WriterFinds DEF Mine, Lost, Owns, RolledBack, Broken, IInv, Rows, WellFormed
<1>2. WellFormed(journal[j]) /\ Written(j) /\ Filed(j) /\ journal[j].resolution = "none"
  BY <1>1 DEF IInv, Rows, WellFormed
<1>3. /\ journal' \in [Job -> RowType] /\ \A k \in Job \ {j} : journal'[k] = journal[k]
      /\ journal'[j].state = "prepared" /\ journal'[j].resolution = "none"
      /\ journal'[j].owner = p /\ journal'[j].live /\ journal'[j].known
      /\ journal'[j].target = journal[j].target
  <2> DEFINE m == Renewed(p, j, "prepared")
             n == [m[j] EXCEPT !.known = TRUE]
  <2>1. /\ m \in [Job -> RowType] /\ m[j].state = "prepared" /\ m[j].owner = p /\ m[j].live
        /\ m[j].resolution = "none" /\ m[j].target = journal[j].target
        /\ \A k \in Job \ {j} : m[k] = journal[k]
    <3>1. "prepared" \in Unresolved \union {"none", "completed"}
      BY DEF Unresolved
    <3> QED
      BY <1>1, <1>2, <3>1, RenewedIs
  <2> HIDE DEF m
  <2>2. /\ n \in RowType /\ n.state = "prepared" /\ n.owner = p /\ n.live
        /\ n.resolution = "none" /\ n.target = journal[j].target /\ n.known
    BY <2>1 DEF RowType
  <2>3. journal' = [m EXCEPT ![j] = n]
    BY DEF m
  <2> HIDE DEF n
  <2>4. /\ journal' \in [Job -> RowType] /\ journal'[j] = n
        /\ \A k \in Job \ {j} : journal'[k] = m[k]
    <3>1. m \in [Job -> RowType] /\ n \in RowType /\ journal' = [m EXCEPT ![j] = n]
      BY <2>1, <2>2, <2>3
    <3> QED
      BY ONLY <3>1, j \in Job
  <2>5. /\ journal'[j].state = n.state /\ journal'[j].resolution = n.resolution
        /\ journal'[j].owner = n.owner /\ (journal'[j].live <=> n.live)
        /\ (journal'[j].known <=> n.known) /\ journal'[j].target = n.target
    BY ONLY <2>4
  <2>6. /\ n.state = "prepared" /\ n.owner = p /\ n.live
        /\ n.resolution = "none" /\ n.target = journal[j].target /\ n.known
    BY <2>2
  <2>7. \A k \in Job \ {j} : m[k] = journal[k]
    BY <2>1
  <2> QED
    BY ONLY <2>4, <2>5, <2>6, <2>7
<1>4. /\ task' \in [Process -> TaskType] /\ \A q \in Process \ {p} : task'[q] = task[q]
      /\ task'[p] = Idle \/ (task'[p].at = "authorize" /\ task'[p].job = j)
  BY <1>1, GoIs, LeaveIs DEF Working
<1>5. Shapes'
  BY <1>1, <1>3, <1>4 DEF Shapes, files, Quiet
<1>6. Advances(p, j)
  BY <1>1, <1>3, <1>4 DEF Advances, SameData, files, Inspecting, Idle
<1>7. \A q \in Process \ {p} : task[q].at # "idle" /\ J(q) = j => Spares(q, j)
  <2> TAKE q \in Process \ {p}
  <2> SUFFICES ASSUME task[q].at # "idle", J(q) = j  PROVE Spares(q, j)
    OBVIOUS
  <2>1. ~Owns(q, j)'
    BY <1>3 DEF Owns
  <2>2. task[q].at \notin {"create", "prepare"}
    BY WriterAlone
  <2> QED
    BY <2>1, <2>2 DEF Spares
<1>8. Keeps(p, j)
  BY <1>1, <1>2, <1>3, <1>7 DEF Keeps, Decided, HasRow, Pending, files
<1>9. WellFormed(journal[j])' /\ Unwritten(j)' /\ Written(j)' /\ Filed(j)'
  <2>1. j \notin artifact /\ j \notin facts
    BY <1>1, <1>2 DEF Filed, Pinned, Broken
  <2> QED
    BY <1>1, <1>2, <1>3, <2>1, Numbers
    DEF WellFormed, Unwritten, Written, Filed, HasRow, files, Pinned, Pending, RolledBack, Begun, Quiet
<1>10. task'[p].at # "idle" => Before(p, j)' /\ Writing(p, j)' /\ Repairing(p, j)'
  <2>1. Owns(p, j)' /\ j \in stage' /\ j \notin final'
    BY <1>1, <1>3 DEF Owns, files
  <2>2. task'[p].at # "idle" => task'[p].at = "authorize"
    BY <1>4 DEF Idle
  <2> QED
    BY <1>3, <2>1, <2>2, StandsStaged DEF Staged, Before, Starting, At
<1> QED
  BY <1>1, <1>5, <1>6, <1>8, <1>9, <1>10, StepIInv

LEMMA PrepareIInv ==
    ASSUME IInv, NEW p \in Process, Prepare(p)
    PROVE  IInv' /\ AllDecided
<1>1. /\ task[p].at = "prepare" /\ task[p].at # "idle" /\ task[p].at \notin Starting
      /\ UNCHANGED <<artifact, facts, final>> /\ Quiet
  BY Quietly DEF Prepare, At, Starting, DiscardStage, files
<1>2. PICK j \in Job : J(p) = j
  BY <1>1, AtWork
<1> DEFINE mine == journal[j].state = "allocating" /\ Owns(p, j) /\ journal[j].live
           prepared == [Renewed(p, j, "prepared") EXCEPT ![j].known = TRUE]
<1>3. /\ Shapes /\ HasRow(j) /\ phase[p] \notin Recovering
      /\ (mine => Mine(p, j)) /\ (Mine(p, j) \/ Lost(p, j))
  BY <1>1, <1>2, WriterFinds DEF Mine
<1>4. faults' \in 0..MaxFaults
  BY Faults DEF Prepare
<1>5. ASSUME NEW deleted \in BOOLEAN, DiscardStage(j, deleted)
      PROVE  Files(j) /\ (j \in stage' => j \in stage) /\ (deleted => j \notin stage')
  BY <1>3, <1>5 DEF DiscardStage, Files, Shapes
<1>6. CASE mine /\ journal' = prepared /\ UNCHANGED <<jobs, files>> /\ (Go(p, "authorize") \/ Leave(p))
  BY <1>1, <1>2, <1>3, <1>4, <1>6, PreparedIInv
<1>7. CASE /\ UNCHANGED <<jobs, journal>> /\ Leave(p)
           /\ UNCHANGED files \/ \E deleted \in BOOLEAN : DiscardStage(j, deleted)
  <2>1. Turns(p, j, {}) /\ task'[p].at = "idle"
    BY <1>3, <1>7, LeaveIs DEF Turns
  <2>2. Files(j) /\ (j \in stage' => j \in stage) /\ Ends(j)
    BY <1>3, <1>5, <1>7 DEF Files, Ends, files, Shapes
  <2> QED
    BY <1>1, <1>2, <1>3, <1>4, <1>7, <2>1, <2>2, StayIInv DEF Turns, Inspecting, Starting, files
<1>8. CASE \E deleted \in BOOLEAN : DiscardStage(j, deleted) /\ StageFailed(j, deleted) /\ Leave(p)
  BY <1>1, <1>2, <1>4, <1>5, <1>8, StageFailedIInv
<1> QED
  BY <1>2, <1>6, <1>7, <1>8 DEF Prepare
-----------------------------------------------------------------------------
\* The passes of a start: what a row says decides where its repair goes on.
LEMMA InspectIInv ==
    ASSUME IInv, NEW p \in Process, ReadRow(p) \/ LookForStage(p)
    PROVE  IInv' /\ AllDecided
<1>1. /\ task[p].at \in {"read", "look"} /\ task[p].at # "idle" /\ task[p].at \notin Starting
      /\ UNCHANGED <<rows, files>> /\ Quiet
  BY Quietly DEF ReadRow, LookForStage, At, Starting
<1>2. PICK j \in Job : J(p) = j
  BY <1>1, AtWork
<1>3. /\ Shapes /\ HasRow(j) /\ phase[p] \in Recovering
      /\ WellFormed(journal[j]) /\ Filed(j) /\ journal[j] \in RowType
  BY <1>1, <1>2, Finds DEF Repairing, Inspecting, IInv, Places, Placed
<1>4. faults' \in 0..MaxFaults /\ Ends(j) /\ Files(j)
  BY <1>1, <1>3, Faults DEF ReadRow, LookForStage, Ends, Files, rows, files, Shapes
<1>5. ASSUME NEW place \in Undoing \union {"mark"} \union Inspecting, Go(p, place),
             task'[p].at = place => (Writing(p, j) /\ Repairing(p, j))'
      PROVE  IInv' /\ AllDecided
  <2>1. place \in Working \union Inspecting /\ place \notin Starting
    BY DEF Undoing, Working, Inspecting, Starting
  <2>2. Turns(p, j, Working \union Inspecting) /\ task'[p].at = place
    BY <1>2, <1>3, <1>5, <2>1, GoIs DEF Turns
  <2> QED
    BY <1>1, <1>2, <1>3, <1>4, <1>5, <2>1, <2>2, StayIInv DEF rows, files
<1>6. /\ HasRow(j)' /\ (Pinned(j) => Pinned(j)') /\ (Pending(j) => Pending(j)')
      /\ (RolledBack(j) /\ journal[j].known => (RolledBack(j) /\ journal[j].known)')
      /\ journal' = journal /\ stage' = stage
  BY <1>1, <1>3 DEF rows, files, HasRow, Pinned, Pending, RolledBack
<1>7. CASE Leave(p)
  <2>1. Turns(p, j, {}) /\ task'[p].at = "idle"
    BY <1>3, <1>7, LeaveIs DEF Turns
  <2> QED
    BY <1>1, <1>2, <1>3, <1>4, <2>1, StayIInv DEF Turns, Inspecting, Starting, rows, files
<1>8. ASSUME NEW place \in {"mark", "look"}, Go(p, place)  PROVE IInv' /\ AllDecided
  BY <1>5, <1>6, <1>8, StandsMark DEF Inspecting
<1>9. CASE LookForStage(p)
  <2>1. CASE Go(p, "interrupted") /\ j \notin stage
    <3>1. task'[p].at = "interrupted" => (Writing(p, j) /\ Repairing(p, j))'
      BY <2>1, <1>6 DEF Writing, Repairing, Staged, Renamed, Undoing, At
    <3> QED
      BY <2>1, <3>1, <1>5 DEF Inspecting
  <2> QED
    BY <1>2, <1>8, <1>9, <2>1 DEF LookForStage
<1>10. CASE ReadRow(p)
  <2> DEFINE published == j \in artifact /\ jobs[j] = journal[j].target
             place == IF journal[j].state = "allocating" THEN "look"
                      ELSE IF ~journal[j].known THEN "mark"
                      ELSE IF published THEN "verify"
                      ELSE IF Pinned(j) \/ j \in artifact THEN "mark"
                      ELSE "resolve"
  <2>1. CASE Leave(p) \/ Go(p, "mark")
    BY <2>1, <1>7, <1>8
  <2>2. CASE Go(p, place) /\ ~Broken(j)
    <3>1. CASE Go(p, "verify") /\ j \in artifact /\ journal[j].known
      <4>1. Pinned(j) /\ j \notin stage
        BY <1>3, <2>2, <3>1 DEF Filed
      <4>2. task'[p].at = "verify" => (Writing(p, j) /\ Repairing(p, j))'
        BY <3>1, <4>1, <1>6, StandsVerify
      <4> QED
        BY <3>1, <4>2, <1>5 DEF Inspecting
    <3>2. CASE Go(p, "resolve") /\ ~Pinned(j) /\ journal[j].known /\ journal[j].state # "allocating"
      <4>1. Pending(j) \/ RolledBack(j)
        BY <1>3, <2>2, <3>2
        DEF Pending, RolledBack, Broken, Pinned, WellFormed, HasRow, RowType, Unresolved
      <4>2. (Pending(j) \/ (RolledBack(j) /\ journal[j].known))'
        BY <1>6, <3>2, <4>1
      <4>3. task'[p].at = "resolve" => (Writing(p, j) /\ Repairing(p, j))'
        BY <1>6, <4>2, StandsUndoing DEF Undoing
      <4> QED
        BY <3>2, <4>3, <1>5 DEF Undoing
    <3> QED
      BY <2>2, <3>1, <3>2, <1>8
  <2> QED
    BY <1>2, <1>10, <2>1, <2>2 DEF ReadRow, Broken
<1> QED
  BY <1>9, <1>10

\* An allocation that is still the pass's is closed without a file.
LEMMA CloseAllocationIInv ==
    ASSUME IInv, NEW p \in Process, CloseAllocation(p)
    PROVE  IInv' /\ AllDecided
<1>1. /\ task[p].at = "interrupted" /\ task[p].at # "idle" /\ task[p].at \notin Starting
      /\ task[p].at \notin {"create", "prepare"} /\ At(p, "interrupted")
      /\ UNCHANGED <<artifact, facts, files>> /\ Quiet
  BY Quietly DEF CloseAllocation, At, Starting
<1>2. PICK j \in Job : J(p) = j
  BY <1>1, AtWork
<1>3. /\ Shapes /\ Repairing(p, j) /\ HasRow(j) /\ jobs[j] \in JobStates
      /\ WellFormed(journal[j]) /\ Filed(j) /\ Written(j)
  BY <1>1, <1>2, Finds DEF Repairing, Inspecting
<1>4. faults' \in 0..MaxFaults /\ Files(j)
  BY <1>1, <1>3, Faults DEF CloseAllocation, Files, files, Shapes
<1>5. CASE /\ Mine(p, j) /\ Leave(p)
           /\ journal' = Closed(j, "rolled_back") /\ jobs' = Stopped(j)
  <2>1. Turns(p, j, {})
    BY <1>3, <1>5, LeaveIs DEF Turns
  <2>2. /\ jobs' \in [Job -> JobStates] /\ \A k \in Job \ {j} : jobs'[k] = jobs[k]
        /\ jobs'[j] \in {"needs_human", "cancelled"}
        /\ jobs[j] = "cancelled" => jobs'[j] = "cancelled"
    BY <1>3, <1>5, JobIs DEF Active, Written, Pinned, Mine
  <2>3. j \notin final /\ (j \in stage => Overlapped)
    BY <1>1, <1>3, <1>5 DEF Mine, Repairing, Filed, Pending, Pinned, Broken, WellFormed
  <2>4. (\A q \in Process \ {p} : ~Mine(q, j)) /\ journal[j].state # "completed"
    BY <1>5 DEF Mine, Owns
  <2> QED
    BY <1>1, <1>2, <1>3, <1>4, <1>5, <2>1, <2>2, <2>3, <2>4, CloseIInv DEF files
<1>6. CASE UNCHANGED <<jobs, journal>> /\ (Leave(p) \/ Go(p, "mark"))
  <2>1. Turns(p, j, {"mark"}) /\ Ends(j)
    BY <1>2, <1>3, <1>6, GoIs, LeaveIs DEF Turns, Working, Ends, Shapes
  <2>2. task'[p].at # "idle" => Writing(p, j)' /\ Repairing(p, j)'
    <3>1. HasRow(j)'
      BY <1>3, <1>6 DEF HasRow
    <3> QED
      BY <2>1, <3>1, StandsMark DEF Turns, Idle
  <2> QED
    BY <1>1, <1>2, <1>3, <1>4, <1>6, <2>1, <2>2, StayIInv
    DEF Turns, Idle, Working, Inspecting, Starting, files
<1> QED
  BY <1>2, <1>5, <1>6 DEF CloseAllocation, Mine

\* A committed row is released when its bytes are found, or marked.
LEMMA VerifyIInv ==
    ASSUME IInv, NEW p \in Process, Verify(p)
    PROVE  IInv' /\ AllDecided
<1>1. /\ task[p].at = "verify" /\ task[p].at # "idle" /\ task[p].at \notin Starting
      /\ task[p].at \notin {"create", "prepare"}
      /\ UNCHANGED <<jobs, artifact, facts>> /\ Quiet /\ At(p, "verify")
  BY Quietly DEF Verify, At, Starting
<1>2. PICK j \in Job : J(p) = j
  BY <1>1, AtWork
<1>3. /\ Shapes /\ HasRow(j) /\ phase[p] \in Recovering /\ j \notin stage
      /\ WellFormed(journal[j]) /\ Written(j) /\ Filed(j)
      /\ jobs[j] \in JobStates /\ (Owns(p, j) => Pinned(j) /\ j \in final)
  <2>1. /\ Repairing(p, j) /\ phase[p] \in Recovering /\ Shapes
        /\ WellFormed(journal[j]) /\ Written(j) /\ Filed(j) /\ jobs[j] \in JobStates
    BY <1>1, <1>2, Finds DEF Inspecting, IInv, Places, Placed
  <2> QED
    BY <1>1, <2>1 DEF Repairing, Filed, Pinned, HasRow, Inspecting
<1>4. faults' \in 0..MaxFaults
  BY Faults DEF Verify
<1>5. CASE Owns(p, j) /\ journal' = Closed(j, "committed") /\ Leave(p) /\ UNCHANGED files
  <2>1. /\ journal' \in [Job -> RowType] /\ \A k \in Job \ {j} : journal'[k] = journal[k]
        /\ journal'[j].state = "completed" /\ journal'[j].resolution = "committed"
        /\ journal'[j].owner = Nobody /\ ~journal'[j].live
        /\ journal'[j].target = journal[j].target /\ journal'[j].known = journal[j].known
    BY <1>3, <1>5, ClosedIs
  <2>2. /\ task' \in [Process -> TaskType] /\ task'[p] = Idle /\ task'[p].at = "idle"
        /\ \A q \in Process \ {p} : task'[q] = task[q]
    BY <1>3, <1>5, LeaveIs
  <2>3. Shapes'
    BY <1>1, <1>3, <1>4, <1>5, <2>1, <2>2 DEF Shapes, files, Quiet
  <2>4. Advances(p, j)
    BY <1>1, <1>3, <1>5, <2>1, <2>2 DEF Advances, SameData, files, Inspecting
  <2>5. /\ Pinned(j) /\ HasRow(j)' /\ Pinned(j)' /\ ~RolledBack(j) /\ ~Broken(j) /\ ~Pending(j)
        /\ journal[j].state # "allocating" /\ Overlapped' = Overlapped
    BY <1>1, <1>3, <1>5, <2>1 DEF HasRow, Pinned, RolledBack, Broken, Pending, Overlapped, Quiet
  <2>6. Decided(j)
    BY <1>1, <2>1, <2>5 DEF Decided, Pinned
  <2>7. Keeps(p, j)
    BY <1>1, <1>3, <1>5, <2>1, <2>5, <2>6, HolderKeeps DEF files
  <2>8. WellFormed(journal[j])' /\ Unwritten(j)' /\ Written(j)' /\ Filed(j)'
    BY <1>1, <1>3, <1>5, <2>1, <2>5
    DEF WellFormed, Unwritten, Written, Filed, Quiet, files, Pinned, RolledBack
  <2> QED
    BY <1>1, <1>2, <2>2, <2>3, <2>4, <2>7, <2>8, StepIInv
<1>6. CASE UNCHANGED <<journal, files>> /\ (Go(p, "mark") \/ Leave(p))
  <2>1. Turns(p, j, {"mark"})
    BY <1>2, <1>3, <1>6, GoIs, LeaveIs DEF Turns, Working
  <2>2. task'[p].at # "idle" => Writing(p, j)' /\ Repairing(p, j)'
    <3>1. HasRow(j)'
      BY <1>3, <1>6 DEF HasRow
    <3> QED
      BY <2>1, <3>1, StandsMark DEF Turns, Idle
  <2>3. Ends(j) /\ Files(j)
    BY <1>1, <1>3, <1>6 DEF Ends, Files, files, Shapes
  <2> QED
    BY <1>1, <1>2, <1>3, <1>4, <1>6, <2>1, <2>2, <2>3, StayIInv
    DEF Turns, Idle, Working, Inspecting, Starting, files
<1> QED
  BY <1>2, <1>3, <1>5, <1>6 DEF Verify, RecoverPromote, Promotable
-----------------------------------------------------------------------------
\* What becomes of a job while no task touches its row: it ends, waits for a
\* person, or has no row yet and comes into the table, fails, or is about to.
Moves(k) ==
    \/ jobs'[k] = jobs[k]
    \/ jobs[k] \in Active /\ jobs'[k] \in {"needs_human", "cancelled"}
    \/ jobs[k] = "needs_human" /\ jobs'[k] = "cancelled" /\ ~Pinned(k)
    \/ /\ ~HasRow(k) /\ jobs[k] = "absent" /\ jobs'[k] = "queued"
       /\ \E r \in Process : Alive(r) /\ admitted[k].by = r
    \/ /\ ~HasRow(k) /\ jobs[k] \in {"queued", "needs_human"} /\ admitted[k].at # "ended"
       /\ \/ jobs'[k] = "failed"
          \/ jobs'[k] = "running" /\ \E r \in Process : Alive(r) /\ admitted[k].by = r

LEMMA MovesKeep ==
    ASSUME IInv, NEW k \in Job, UNCHANGED <<journal, artifact, facts, files>>,
           Overlapped => Overlapped', Moves(k)
    PROVE  Keeps(Nobody, k)
<1>1. /\ jobs'[k] \in Active => jobs'[k] = jobs[k]
                             \/ \E r \in Process : Alive(r) /\ admitted[k].by = r /\ ~HasRow(k)
      /\ admitted[k].at = "ended" /\ jobs[k] \in Begun => jobs'[k] \in Begun
      /\ jobs[k] \in {"succeeded", "failed", "cancelled"} => jobs'[k] = jobs[k]
  BY DEF Moves, Active, Begun
<1> QED
  BY <1>1, RowStays

LEMMA QuietIInv ==
    ASSUME IInv, UNCHANGED <<journal, artifact, facts, files, task>>, Shapes',
           \A k \in Job : Moves(k), \A k \in Job : HasRow(k) => admitted'[k].at = "ended",
           \A q \in Process : Alive(q) => Alive(q)', Overlapped => Overlapped',
           Places', Admissions', Deaths', Closings', Recoveries'
    PROVE  IInv' /\ AllDecided
<1>1. \A k \in Job : Keeps(Nobody, k)
  BY MovesKeep
<1>2. Rows'
  <2>1. ASSUME NEW k \in Job
        PROVE  WellFormed(journal[k])' /\ Unwritten(k)' /\ Written(k)' /\ Filed(k)'
    <3>1. /\ WellFormed(journal[k]) /\ Unwritten(k) /\ Written(k) /\ Filed(k) /\ Moves(k)
          /\ HasRow(k) => admitted'[k].at = "ended"
      BY DEF IInv, Rows
    <3>2. /\ HasRow(k)' = HasRow(k) /\ Pinned(k)' = Pinned(k) /\ Pending(k)' = Pending(k)
          /\ RolledBack(k)' = RolledBack(k) /\ Broken(k)' = Broken(k)
      BY DEF HasRow, Pinned, Pending, RolledBack, Broken
    <3>3. Unwritten(k)'
      BY <3>1, <3>2 DEF Unwritten, files, Moves
    <3>4. Pinned(k) => jobs'[k] = jobs[k]
      BY <3>1 DEF Moves, Written, Pinned, HasRow, Targets, Active
    <3>5. HasRow(k) /\ ~Pinned(k) => /\ jobs'[k] \in {"running", "needs_human", "cancelled"}
                                     /\ jobs'[k] \in Active => jobs'[k] = jobs[k]
      BY <3>1 DEF Moves, Written, Active
    <3>6. Written(k)'
      BY <3>1, <3>2, <3>4, <3>5 DEF Written
    <3>7. RolledBack(k) => HasRow(k) /\ ~Pinned(k)
      BY <3>1 DEF RolledBack, HasRow, Pinned, WellFormed
    <3>8. Filed(k)'
      BY <3>1, <3>2, <3>5, <3>7 DEF Filed, files
    <3> QED
      BY <3>1, <3>3, <3>6, <3>8 DEF WellFormed
  <2> QED
    BY <2>1 DEF Rows
<1>3. Tasks'
  <2>1. ASSUME NEW q \in Process
        PROVE  (Before(q, J(q)) /\ Writing(q, J(q)) /\ Repairing(q, J(q)))'
    <3>1. q # Nobody /\ task'[q] = task[q] /\ (Alive(q) => Alive(q)')
      BY Numbers
    <3> QED
      BY <1>1, <3>1, OthersStand
  <2> QED
    BY <2>1 DEF Tasks
<1> QED
  BY <1>1, <1>2, <1>3 DEF IInv, AllDecided, Keeps

\* The bookkeeping of processes and admissions when only jobs change.
LEMMA JobsMoveIInv ==
    ASSUME IInv, UNCHANGED <<journal, artifact, facts, files, task, phase, admitted, queue, earlier>>,
           jobs' \in [Job -> JobStates], todo' \in [Process -> SUBSET Job],
           doomed' \in [Process -> {<< >>} \union (Job \X Active)],
           faults' \in 0..MaxFaults, dropped' \subseteq Job, Closings',
           \A k \in Job : jobs[k] = "absent" => jobs'[k] = "absent",
           \A k \in Job : Moves(k),
           \A q \in Process : phase[q] \in {"pass1", "pass2"} => todo'[q] \subseteq todo[q]
    PROVE  IInv' /\ AllDecided
<1>1. Shapes' /\ (Overlapped => Overlapped')
  BY DEF IInv, Shapes, Overlapped, files
<1>2. \A q \in Process : Alive(q) => Alive(q)'
  BY DEF Alive
<1>3. Places'
  BY DEF IInv, Places, Placed, HasRow, Alive, J
<1>4. Admissions'
  BY DEF IInv, Admissions, Waiting, Ticket, HasRow, J
<1>5. Deaths'
  BY DEF IInv, Deaths
<1>6. \A k \in Job : Keeps(Nobody, k)
  BY <1>1, MovesKeep
<1>7. Recoveries'
  BY <1>5, <1>6, RecoveriesStand DEF IInv, Admissions
<1>8. \A k \in Job : HasRow(k) => admitted'[k].at = "ended"
  BY DEF IInv, Rows, Written
<1> QED
  BY <1>1, <1>2, <1>3, <1>4, <1>5, <1>7, <1>8, QuietIInv
-----------------------------------------------------------------------------
LEMMA OperatorCancelIInv ==
    ASSUME IInv, NEW j \in Job, OperatorCancel(j)
    PROVE  IInv' /\ AllDecided
<1>1. /\ UNCHANGED <<journal, artifact, facts, files, task, phase, admitted, queue, earlier>>
      /\ UNCHANGED <<todo, doomed, dropped, faults>> /\ Shapes
  BY DEF OperatorCancel, procs, IInv
<1>2. /\ jobs' \in [Job -> JobStates] /\ \A k \in Job \ {j} : jobs'[k] = jobs[k]
      /\ jobs'[j] = "cancelled" /\ jobs[j] \in Active \union {"needs_human"} /\ ~Pinned(j)
  BY <1>1 DEF OperatorCancel, Shapes, JobStates
<1>3. \A k \in Job : Moves(k) /\ (jobs[k] = "absent" => jobs'[k] = "absent")
                     /\ (jobs'[k] \in Active => jobs'[k] = jobs[k])
  BY <1>2 DEF Moves, Active
<1>4. Closings'
  BY <1>1, <1>3 DEF IInv, Closings, Covered, J
<1> QED
  BY <1>1, <1>2, <1>3, <1>4, JobsMoveIInv DEF Shapes

\* close() reads a job and cancels it if it still is what was read.
LEMMA CloseReadIInv ==
    ASSUME IInv, NEW p \in Process, NEW j \in Job, CloseRead(p, j)
    PROVE  IInv' /\ AllDecided
<1>1. /\ UNCHANGED <<journal, artifact, facts, files, task, phase, admitted, queue, earlier>>
      /\ UNCHANGED jobs /\ phase[p] = "draining" /\ doomed[p] = << >> /\ Shapes
      /\ todo' = [todo EXCEPT ![p] = @ \ {j}]
      /\ \/ doomed' = [doomed EXCEPT ![p] = IF jobs[j] \in Active THEN <<j, jobs[j]>> ELSE << >>]
         \/ UNCHANGED doomed /\ j \in dropped'
  BY DEF CloseRead, CloseOnly, Drop, IInv
<1>2. /\ todo' \in [Process -> SUBSET Job] /\ doomed' \in [Process -> {<< >>} \union (Job \X Active)]
      /\ \A q \in Process \ {p} : todo'[q] = todo[q] /\ doomed'[q] = doomed[q]
      /\ \A k \in Job \ {j} : k \in todo'[p] <=> k \in todo[p]
  <2>1. todo \in [Process -> SUBSET Job] /\ doomed \in [Process -> {<< >>} \union (Job \X Active)]
    BY <1>1 DEF Shapes
  <2>2. /\ todo' \in [Process -> SUBSET Job] /\ todo'[p] = todo[p] \ {j}
        /\ \A q \in Process \ {p} : todo'[q] = todo[q]
    BY <1>1, <2>1
  <2>3. PICK d \in {<< >>} \union (Job \X Active) : doomed' = doomed \/ doomed' = [doomed EXCEPT ![p] = d]
    BY <1>1
  <2>4. /\ doomed' \in [Process -> {<< >>} \union (Job \X Active)]
        /\ \A q \in Process \ {p} : doomed'[q] = doomed[q]
    BY <2>1, <2>3
  <2> QED
    BY <2>2, <2>4
<1>3. \A k \in Job : Moves(k)
  BY <1>1 DEF Moves
<1>4. faults' \in 0..MaxFaults /\ dropped \subseteq dropped' /\ dropped' \subseteq Job
  BY Drops DEF CloseRead
<1>5. Closings'
  <2>1. ASSUME NEW q \in Process, NEW k \in Job  PROVE Covered(q, k)'
    <3>1. Covered(q, k)
      BY DEF IInv, Closings
    <3>2. CASE q = p /\ k = j
      BY <1>1, <1>4, <3>1, <3>2 DEF Covered, Shapes
    <3>3. CASE q = p /\ k # j
      <4>1. doomed[q] # <<k, jobs[k]>> /\ (k \in todo'[q] <=> k \in todo[q])
        BY <1>1, <1>2, <3>3
      <4> QED
        BY <1>1, <1>4, <3>1, <3>3, <4>1 DEF Covered, J
    <3>4. CASE q # p
      BY <1>1, <1>2, <1>4, <3>1, <3>4 DEF Covered, J
    <3> QED
      BY <3>2, <3>3, <3>4
  <2> QED
    BY <2>1 DEF Closings
<1> QED
  BY <1>1, <1>2, <1>3, <1>4, <1>5, JobsMoveIInv DEF Shapes

LEMMA CloseCancelIInv ==
    ASSUME IInv, NEW p \in Process, CloseCancel(p)
    PROVE  IInv' /\ AllDecided
<1>1. /\ UNCHANGED <<journal, artifact, facts, files, task, phase, admitted, queue, earlier>>
      /\ UNCHANGED todo /\ phase[p] = "draining" /\ doomed[p] \in Job \X Active
      /\ Shapes /\ doomed' = [doomed EXCEPT ![p] = << >>]
  BY DEF CloseCancel, CloseOnly, IInv, Shapes
<1>2. PICK j \in Job, s \in Active : doomed[p] = <<j, s>>
  BY <1>1
<1>3. /\ \/ jobs' = IF jobs[j] = s THEN [jobs EXCEPT ![j] = "cancelled"] ELSE jobs
         \/ jobs' = jobs /\ j \in dropped'
      /\ faults' \in 0..MaxFaults /\ dropped \subseteq dropped' /\ dropped' \subseteq Job
  BY <1>2, Drops DEF CloseCancel, Drop
<1>4. /\ jobs' \in [Job -> JobStates] /\ doomed' \in [Process -> {<< >>} \union (Job \X Active)]
      /\ \A k \in Job \ {j} : jobs'[k] = jobs[k]
      /\ jobs'[j] = jobs[j] \/ (jobs[j] \in Active /\ jobs'[j] = "cancelled")
      /\ jobs'[j] \in Active => jobs[j] # s \/ j \in dropped'
  BY <1>1, <1>3 DEF Shapes, JobStates, Active
<1>5. \A k \in Job : Moves(k) /\ (jobs[k] = "absent" => jobs'[k] = "absent")
                     /\ (jobs'[k] \in Active => jobs'[k] = jobs[k])
  BY <1>4 DEF Moves, Active
<1>6. Closings'
  <2>1. ASSUME NEW q \in Process, NEW k \in Job  PROVE Covered(q, k)'
    <3>1. Covered(q, k)
      BY DEF IInv, Closings
    <3>2. q = p /\ jobs'[k] \in Active => doomed[q] # <<k, jobs[k]>> \/ k \in dropped'
      BY <1>2, <1>4
    <3>3. q # p => doomed'[q] = doomed[q]
      BY <1>1 DEF Shapes
    <3> QED
      BY <1>1, <1>3, <1>5, <3>1, <3>2, <3>3 DEF Covered, J
  <2> QED
    BY <2>1 DEF Closings
<1> QED
  BY <1>1, <1>3, <1>4, <1>5, <1>6, JobsMoveIInv DEF Shapes

\* A lease lapses, under a process that works as well: what the row says stays.
LEMMA LeaseLapsesIInv ==
    ASSUME IInv, NEW j \in Job, LeaseLapses(j)
    PROVE  IInv' /\ AllDecided
<1>1. /\ UNCHANGED <<jobs, artifact, facts, files, procs, faults>> /\ Shapes
      /\ journal[j].live
      /\ journal' = [journal EXCEPT ![j].live = FALSE]
      /\ WellFormed(journal[j]) /\ Unwritten(j) /\ Written(j) /\ Filed(j)
  BY DEF LeaseLapses, IInv, Rows
<1>2. /\ journal' \in [Job -> RowType] /\ \A k \in Job \ {j} : journal'[k] = journal[k]
      /\ ~journal'[j].live /\ journal'[j].state = journal[j].state
      /\ journal'[j].resolution = journal[j].resolution /\ journal'[j].owner = journal[j].owner
      /\ journal'[j].target = journal[j].target /\ journal'[j].known = journal[j].known
  <2> DEFINE n == [journal[j] EXCEPT !.live = FALSE]
  <2>1. journal[j] \in RowType
    BY <1>1 DEF Shapes
  <2>2. /\ n \in RowType /\ ~n.live /\ n.state = journal[j].state
        /\ n.resolution = journal[j].resolution /\ n.owner = journal[j].owner
        /\ n.target = journal[j].target /\ n.known = journal[j].known
    BY <2>1 DEF RowType
  <2>3. journal' = [journal EXCEPT ![j] = n]
    BY <1>1 DEF Shapes
  <2> HIDE DEF n
  <2>4. /\ journal' \in [Job -> RowType] /\ journal'[j] = n
        /\ \A k \in Job \ {j} : journal'[k] = journal[k]
    <3>1. Shapes /\ n \in RowType /\ journal' = [journal EXCEPT ![j] = n] /\ j \in Job
      BY <1>1, <2>2, <2>3
    <3> QED
      BY ONLY <3>1, RowIs
  <2> QED
    BY ONLY <2>2, <2>4
<1>3. \A k \in Job : /\ HasRow(k)' = HasRow(k) /\ Pinned(k)' = Pinned(k) /\ Pending(k)' = Pending(k)
                     /\ RolledBack(k)' = RolledBack(k) /\ Broken(k)' = Broken(k)
  BY <1>2 DEF HasRow, Pinned, Pending, RolledBack, Broken
<1>4. Shapes' /\ Overlapped' = Overlapped
  BY <1>1, <1>2 DEF Shapes, Overlapped, procs, files
<1>5. \A k \in Job : Keeps(Nobody, k)
  <2>1. ASSUME NEW k \in Job \ {j}  PROVE Keeps(Nobody, k)
    BY <1>1, <1>2, <1>4, SameKeeps DEF SameData, files
  <2>2. Decided(j)
    BY <1>1, <1>2 DEF Decided
  <2>3. ASSUME NEW q \in Process, task[q].at # "idle", J(q) = j  PROVE Spares(q, j)
    <3>1. Owns(q, j)' = Owns(q, j) /\ SameRow(j)
      BY <1>2 DEF Owns, SameRow
    <3>2. Lost(q, j)' = Lost(q, j) /\ Mine(q, j)' = Mine(q, j)
      BY <1>2, <1>3, <1>4, <3>1 DEF Lost, Mine
    <3> QED
      BY <1>1, <3>1, <3>2 DEF Spares, files
  <2>4. Keeps(Nobody, j)
    BY <1>1, <1>3, <2>2, <2>3 DEF Keeps, files
  <2> QED
    BY <2>1, <2>4
<1>6. Rows'
  <2>1. ASSUME NEW k \in Job \ {j}
        PROVE  WellFormed(journal[k])' /\ Unwritten(k)' /\ Written(k)' /\ Filed(k)'
    <3>1. WellFormed(journal[k]) /\ Unwritten(k) /\ Written(k) /\ Filed(k)
      BY DEF IInv, Rows
    <3> QED
      BY <1>1, <1>2, <1>3, <1>4, <3>1 DEF WellFormed, Unwritten, Written, Filed, files, procs
  <2>2. HasRow(j)
    BY <1>1 DEF Unwritten, NoRow
  <2>3. WellFormed(journal[j])' /\ Unwritten(j)' /\ Written(j)' /\ Filed(j)'
    BY <1>1, <1>2, <1>3, <1>4, <2>2 DEF WellFormed, Unwritten, Written, Filed, files, procs
  <2> QED
    BY <2>1, <2>3 DEF Rows
<1>7. Tasks'
  <2>1. ASSUME NEW q \in Process
        PROVE  (Before(q, J(q)) /\ Writing(q, J(q)) /\ Repairing(q, J(q)))'
    <3>1. q # Nobody /\ task'[q] = task[q] /\ (Alive(q) => Alive(q)')
      BY <1>1, Numbers DEF procs, Alive
    <3> QED
      BY <1>4, <1>5, <3>1, OthersStand
  <2> QED
    BY <2>1 DEF Tasks
<1>8. Places'
  <2>1. ASSUME NEW q \in Process  PROVE Placed(q)'
    <3>1. Placed(q) /\ todo[q] \subseteq Job
      BY <1>1 DEF IInv, Places, Shapes
    <3> QED
      BY <1>1, <1>3, <3>1 DEF Placed, procs, Alive, J
  <2> QED
    BY <2>1 DEF Places
<1>9. Admissions'
  <2>1. ASSUME NEW q \in Process  PROVE Waiting(q)'
    <3>1. Waiting(q) /\ queue[q] \in Seq(Job)
      BY <1>1 DEF IInv, Admissions, Shapes
    <3>2. \A i \in 1..Len(queue[q]) : queue[q][i] \in Job
      BY <3>1
    <3> QED
      BY <1>1, <1>3, <3>1, <3>2 DEF Waiting, procs, Ticket, J
  <2> QED
    BY <1>1, <2>1 DEF IInv, Admissions, procs, Ticket, J
<1>10. Deaths' /\ Closings'
  BY <1>1 DEF IInv, Deaths, Closings, Covered, procs, J
<1>11. Recoveries'
  BY <1>1, <1>5, <1>10, RecoveriesStand DEF procs
<1> QED
  BY <1>4, <1>5, <1>6, <1>7, <1>8, <1>9, <1>10, <1>11 DEF IInv, AllDecided, Keeps
-----------------------------------------------------------------------------
\* A queue that grows by a new member, and one that loses its head.
LEMMA AppendOnce ==
    ASSUME NEW s \in Seq(Job), NEW j \in Job, NEW G, j \in G,
           \A i \in 1..Len(s) : s[i] \in G /\ s[i] # j,
           \A i, k \in 1..Len(s) : i # k => s[i] # s[k]
    PROVE  /\ \A i \in 1..Len(Append(s, j)) : Append(s, j)[i] \in G
           /\ \A i, k \in 1..Len(Append(s, j)) : i # k => Append(s, j)[i] # Append(s, j)[k]
<1>1. /\ Len(Append(s, j)) = Len(s) + 1 /\ Len(s) \in Nat
      /\ \A i \in 1..Len(s) : Append(s, j)[i] = s[i]
      /\ Append(s, j)[Len(s) + 1] = j
  OBVIOUS
<1>2. \A i \in 1..Len(Append(s, j)) : i \in 1..Len(s) \/ i = Len(s) + 1
  BY <1>1
<1> QED
  BY <1>1, <1>2

LEMMA TailOnce ==
    ASSUME NEW s \in Seq(Job), s # << >>, NEW G,
           \A i \in 1..Len(s) : s[i] \in G,
           \A i, k \in 1..Len(s) : i # k => s[i] # s[k]
    PROVE  /\ Head(s) \in G /\ Head(s) \in Job /\ Tail(s) \in Seq(Job)
           /\ \A i \in 1..Len(Tail(s)) : Tail(s)[i] \in G /\ Tail(s)[i] # Head(s)
           /\ \A i, k \in 1..Len(Tail(s)) : i # k => Tail(s)[i] # Tail(s)[k]
<1>1. /\ Len(s) \in Nat \ {0} /\ Len(Tail(s)) = Len(s) - 1 /\ Head(s) = s[1]
      /\ \A i \in 1..Len(Tail(s)) : Tail(s)[i] = s[i + 1]
      /\ Tail(s) \in Seq(Job)
  OBVIOUS
<1>2. \A i \in 1..Len(Tail(s)) : i + 1 \in 1..Len(s) /\ i + 1 # 1
  BY <1>1
<1>3. 1 \in 1..Len(s) /\ s[1] \in Job
  BY <1>1
<1>4. \A i, k \in 1..Len(Tail(s)) : i # k => i + 1 # k + 1
  OBVIOUS
<1> QED
  BY <1>1, <1>2, <1>3, <1>4

\* Admission: the rows and the tasks see nothing of it.
LEMMA AdmissionIInv ==
    ASSUME IInv, NEW p \in Process, NEW j \in Job, NEW n \in TicketType, AdmissionOnly,
           Alive(p), phase[p] \notin Recovering,
           admitted[j].at # "ended", admitted' = [admitted EXCEPT ![j] = n], n.by = p,
           n.at # "none", admitted[j].by \in {p, Nobody},
           Accepting(p) \/ admitted[j].by = p,
           n.at = "admitted" => jobs'[j] = "absent",
           jobs' \in [Job -> JobStates], \A k \in Job \ {j} : jobs'[k] = jobs[k], Moves(j),
           jobs'[j] \in Active => \/ n.at = "created"
                                  \/ phase[p] \notin {"draining", "waiting", "closed"}
                                  \/ jobs'[j] = jobs[j] /\ admitted[j].by = p
                                        /\ admitted[j].at \notin {"admitted", "created"}
                                  \/ j \in dropped',
           faults' \in 0..MaxFaults, dropped \subseteq dropped', dropped' \subseteq Job,
           \/ queue' = queue
           \/ /\ queue' = [queue EXCEPT ![p] = Append(@, j)] /\ n.at = "ended"
              /\ phase[p] \notin {"waiting", "closed"}
    PROVE  IInv' /\ AllDecided
<1> USE DEF AdmissionOnly
<1>1. /\ Shapes /\ ~HasRow(j) /\ p # Nobody
      /\ \A q \in Process : task[q].at # "idle" => J(q) # j
      /\ \A q \in Process : ~Ticket(q, j)
  <2>1. Shapes /\ ~HasRow(j) /\ p # Nobody
    BY Numbers DEF IInv, Rows, Written
  <2>2. \A q \in Process : task[q].at # "idle" => J(q) # j
    BY AtWork
  <2>3. \A q \in Process : ~Ticket(q, j)
    BY DEF Ticket
  <2> QED
    BY <2>1, <2>2, <2>3
<1>2. /\ admitted' \in [Job -> TicketType] /\ admitted'[j] = n
      /\ \A k \in Job \ {j} : admitted'[k] = admitted[k]
  <2>1. admitted \in [Job -> TicketType] /\ n \in TicketType
    BY <1>1 DEF Shapes
  <2> QED
    BY ONLY <2>1, admitted' = [admitted EXCEPT ![j] = n], j \in Job
<1>3. queue' \in [Process -> Seq(Job)] /\ \A q \in Process \ {p} : queue'[q] = queue[q]
  <2>1. queue \in [Process -> Seq(Job)] /\ queue[p] \in Seq(Job) /\ Append(queue[p], j) \in Seq(Job)
    BY <1>1 DEF Shapes
  <2>2. CASE queue' = [queue EXCEPT ![p] = Append(@, j)]
    BY ONLY <2>1, <2>2, p \in Process
  <2> QED
    BY <2>1, <2>2
<1>4. Shapes' /\ (Overlapped => Overlapped')
  BY <1>1, <1>2, <1>3 DEF Shapes, files, Overlapped
<1>5. \A k \in Job : Moves(k)
  BY DEF Moves
<1>6. \A k \in Job : HasRow(k) => admitted'[k].at = "ended"
  BY <1>1, <1>2 DEF IInv, Rows, Written
<1>7. \A q \in Process : Alive(q) => Alive(q)'
  BY DEF Alive
<1>8. Places'
  <2>1. ASSUME NEW q \in Process  PROVE Placed(q)'
    <3>1. Placed(q) /\ todo[q] \subseteq Job
      BY <1>1 DEF IInv, Places, Shapes
    <3>2. q = p => queue'[q] = queue[q] \/ phase[q] \notin Recovering \union
                       {"unborn", "dead", "waiting", "closed"}
      BY DEF Alive
    <3> QED
      BY <1>3, <3>1, <3>2 DEF Placed, HasRow, Alive, J
  <2> QED
    BY <2>1 DEF Places
<1>9. \A q \in Process, k \in Job : Ticket(q, k) => Ticket(q, k)'
  BY <1>1, <1>2 DEF Ticket
<1>10. \A q \in Process : Waiting(q)'
  <2>1. ASSUME NEW q \in Process
        PROVE  /\ Waiting(q) /\ queue[q] \in Seq(Job)
               /\ \A i \in 1..Len(queue[q]) : queue[q][i] \in Job /\ queue[q][i] # j
    <3>1. Waiting(q) /\ queue[q] \in Seq(Job)
      BY <1>1 DEF IInv, Admissions, Shapes
    <3> QED
      BY <1>1, <3>1 DEF Waiting
  <2>2. ASSUME NEW q \in Process, queue'[q] = queue[q]  PROVE Waiting(q)'
    BY <1>9, <2>1, <2>2 DEF Waiting, HasRow, J
  <2>3. ASSUME queue' = [queue EXCEPT ![p] = Append(@, j)], n.at = "ended"  PROVE Waiting(p)'
    <3> DEFINE G == {k \in Job : /\ Ticket(p, k)' /\ ~HasRow(k)'
                                 /\ task'[p].at # "idle" => k # J(p)'}
    <3>1. queue'[p] = Append(queue[p], j)
      BY <2>3, <1>1 DEF Shapes
    <3>2. j \in G
      <4>1. n = [by |-> p, at |-> "ended"]
        BY <2>3 DEF TicketType
      <4>2. Ticket(p, j)'
        BY <1>2, <4>1 DEF Ticket
      <4>3. ~HasRow(j)'
        BY <1>1 DEF HasRow
      <4>4. task'[p].at # "idle" => j # J(p)'
        BY <1>1 DEF J
      <4> QED
        BY <4>2, <4>3, <4>4
    <3>3. ASSUME NEW k \in Job, Ticket(p, k), ~HasRow(k), task[p].at # "idle" => k # J(p)
          PROVE  k \in G
      <4>1. Ticket(p, k)'
        BY <1>9, <3>3
      <4>2. ~HasRow(k)'
        BY <3>3 DEF HasRow
      <4>3. task'[p].at # "idle" => k # J(p)'
        BY <3>3 DEF J
      <4> QED
        BY <4>1, <4>2, <4>3
    <3>4. \A i \in 1..Len(queue[p]) : queue[p][i] \in G /\ queue[p][i] # j
      BY <2>1, <3>3 DEF Waiting
    <3>5. \A i, k \in 1..Len(queue[p]) : i # k => queue[p][i] # queue[p][k]
      BY <2>1 DEF Waiting
    <3>6. /\ \A i \in 1..Len(queue'[p]) : queue'[p][i] \in G
          /\ \A i, k \in 1..Len(queue'[p]) : i # k => queue'[p][i] # queue'[p][k]
      <4> HIDE DEF G
      <4>1. queue[p] \in Seq(Job)
        BY <2>1
      <4> QED
        BY ONLY <3>1, <3>2, <3>4, <3>5, <4>1, j \in Job, AppendOnce
    <3> QED
      BY <3>6 DEF Waiting
  <2> QED
    BY <1>3, <2>2, <2>3
<1>11. Admissions'
  <2>1. ASSUME NEW k \in Job
        PROVE  /\ admitted'[k].at = "none" => admitted'[k].by = Nobody
               /\ admitted'[k].at # "none" =>
                     /\ admitted'[k].by \in Process
                     /\ phase'[admitted'[k].by] \notin {"unborn"} \union Recovering
               /\ admitted'[k].at \in {"none", "admitted"} => jobs'[k] = "absent"
    BY <1>2 DEF IInv, Admissions, Alive
  <2>2. ASSUME NEW q \in Process, task'[q].at \in Working, phase'[q] \notin Recovering
        PROVE  Ticket(q, J(q))'
    <3>1. Ticket(q, J(q)) /\ task[q].at # "idle"
      BY <2>2 DEF IInv, Admissions, Working
    <3>2. J(q) \in Job /\ J(q)' = J(q)
      BY <3>1, AtWork DEF J
    <3> QED
      BY <1>9, <3>1, <3>2
  <2> QED
    BY <1>10, <2>1, <2>2 DEF Admissions
<1>12. Deaths'
  BY DEF IInv, Deaths
<1>13. Closings'
  <2>1. ASSUME NEW q \in Process, NEW k \in Job \ {j}  PROVE Covered(q, k)'
    <3>1. Covered(q, k) /\ jobs'[k] = jobs[k] /\ admitted'[k] = admitted[k]
      BY <1>2 DEF IInv, Closings
    <3> QED
      BY <3>1 DEF Covered, J
  <2>2. ASSUME NEW q \in Process  PROVE Covered(q, j)'
    <3>1. Covered(q, j) /\ ~(J(q) = j /\ task[q].at = "claimed") /\ (q = p => phase[p] # "closed")
      BY <1>1 DEF IInv, Closings, Covered, Accepting
    <3>2. q # p => admitted'[j].by # q
      BY <1>2
    <3> QED
      BY <1>2, <3>1, <3>2 DEF Covered, J
  <2> QED
    BY <2>1, <2>2 DEF Closings
<1>14. Recoveries'
  <2>1. \A k \in Job : Keeps(Nobody, k)
    BY <1>4, <1>5, MovesKeep
  <2>2. \A k \in Job : \/ admitted'[k].by = admitted[k].by
                       \/ admitted'[k].by \in Process /\ phase'[admitted'[k].by] # "dead"
    BY <1>2 DEF Alive
  <2> QED
    BY <1>12, <2>1, <2>2, RecoveriesStand
<1> QED
  BY <1>4, <1>5, <1>6, <1>7, <1>8, <1>11, <1>12, <1>13, <1>14, QuietIInv

LEMMA SubmitIInv ==
    ASSUME IInv, NEW p \in Process, Submit(p)
    PROVE  IInv' /\ AllDecided
<1>1. PICK j \in Job : Admit(p, j) \/ CreateJob(p, j) \/ ConfirmAdmission(p, j) \/ Enqueue(p, j)
  BY DEF Submit
<1>2. Shapes /\ AdmissionOnly /\ admitted[j] \in TicketType
  BY <1>1 DEF IInv, Shapes, Admit, CreateJob, ConfirmAdmission, Enqueue
<1>3. admitted[j].at # "ended" => ~HasRow(j) /\ Unwritten(j) /\ Covered(p, j)
  BY DEF IInv, Rows, Written, Closings
<1>4. ASSUME NEW place \in {"admitted", "created", "confirmed"}, Admission(p, j, place)
      PROVE  /\ Alive(p) /\ phase[p] \notin Recovering /\ admitted[j].at = place /\ admitted[j].by = p
             /\ ~(J(p) = j /\ task[p].at = "claimed") /\ ~HasRow(j) /\ Covered(p, j)
             /\ place = "admitted" => jobs[j] = "absent"
  <2>1. admitted[j].at = place /\ admitted[j].by = p /\ Alive(p)
    BY <1>4 DEF Admission
  <2>2. task[p].at = "claimed" => J(p) # j
    BY <2>1, AtWork
  <2> QED
    BY <2>1, <2>2, <1>3 DEF IInv, Admissions
<1>5. faults' \in 0..MaxFaults /\ dropped \subseteq dropped' /\ dropped' \subseteq Job
  BY <1>1, Drops DEF Admit, CreateJob, ConfirmAdmission, CancelRunning, Enqueue
<1>6. CASE Admit(p, j)
  <2> DEFINE n == [by |-> p, at |-> "admitted"]
  <2>1. n \in TicketType /\ n.by = p /\ n.at = "admitted"
    BY DEF TicketType
  <2>2. /\ admitted' = [admitted EXCEPT ![j] = n] /\ jobs' = jobs /\ queue' = queue
        /\ Alive(p) /\ phase[p] \notin Recovering /\ admitted[j].at = "none" /\ Accepting(p)
    BY <1>6 DEF Admit, Accepting, Alive, Recovering
  <2>3. admitted[j].by = Nobody /\ jobs[j] = "absent"
    BY <2>2 DEF IInv, Admissions
  <2> HIDE DEF n
  <2> QED
    BY <1>2, <1>5, <2>1, <2>2, <2>3, AdmissionIInv DEF Moves, Shapes, Active
<1>7. ASSUME NEW place \in {"created", "confirmed", "ended"},
             NEW before \in {"admitted", "created", "confirmed"}, Admission(p, j, before),
             admitted' = [admitted EXCEPT ![j].at = place],
             jobs' \in [Job -> JobStates], \A k \in Job \ {j} : jobs'[k] = jobs[k], Moves(j),
             jobs'[j] \in Active => \/ place = "created"
                                    \/ Accepting(p)
                                    \/ jobs'[j] = jobs[j] /\ before = "confirmed"
                                    \/ j \in dropped',
             \/ queue' = queue
             \/ /\ queue' = [queue EXCEPT ![p] = Append(@, j)] /\ place = "ended"
                /\ phase[p] \notin {"waiting", "closed"}
      PROVE  IInv' /\ AllDecided
  <2> DEFINE n == [admitted[j] EXCEPT !.at = place]
  <2>1. n \in TicketType /\ n.by = admitted[j].by /\ n.at = place
    BY <1>2 DEF TicketType
  <2>2. admitted' = [admitted EXCEPT ![j] = n]
    BY <1>7
  <2> HIDE DEF n
  <2> QED
    BY <1>2, <1>4, <1>5, <1>7, <2>1, <2>2, AdmissionIInv DEF Accepting
<1>8. CASE CreateJob(p, j)
  <2>1. PICK place \in {"created", "ended"} :
            /\ admitted' = [admitted EXCEPT ![j].at = place] /\ (place = "ended" => j \in dropped')
    BY <1>8 DEF CreateJob, Drop
  <2>2. /\ Admission(p, j, "admitted") /\ queue' = queue
        /\ jobs' \in [Job -> JobStates] /\ \A k \in Job \ {j} : jobs'[k] = jobs[k]
        /\ jobs'[j] \in {jobs[j], "queued"}
    BY <1>2, <1>8 DEF CreateJob, Shapes, JobStates, Active
  <2>3. Moves(j)
    BY <1>4, <2>2 DEF Moves
  <2> QED
    BY <1>7, <2>1, <2>2, <2>3
<1>9. CASE ConfirmAdmission(p, j)
  <2>1. PICK place \in {"confirmed", "ended"} : admitted' = [admitted EXCEPT ![j].at = place]
    BY <1>9 DEF ConfirmAdmission
  <2>2. /\ Admission(p, j, "created") /\ queue' = queue
        /\ jobs' \in [Job -> JobStates] /\ \A k \in Job \ {j} : jobs'[k] = jobs[k]
        /\ jobs'[j] = jobs[j] \/ (jobs[j] \in Active /\ jobs'[j] = "cancelled")
        /\ jobs'[j] \in Active => Accepting(p) \/ j \in dropped'
    BY <1>2, <1>9, JobIs DEF ConfirmAdmission, CancelRunning, Drop, Shapes, Active
  <2>3. Moves(j)
    BY <2>2 DEF Moves
  <2> QED
    BY <1>7, <2>1, <2>2, <2>3
<1>10. CASE Enqueue(p, j)
  <2>1. Admission(p, j, "confirmed") /\ admitted' = [admitted EXCEPT ![j].at = "ended"]
    BY <1>10 DEF Enqueue
  <2>2. CASE queue' = [queue EXCEPT ![p] = Append(@, j)] /\ UNCHANGED jobs
               /\ phase[p] \notin {"waiting", "closed"}
    BY <1>2, <1>7, <2>1, <2>2 DEF Moves, Shapes
  <2>3. CASE /\ queue' = queue
             /\ \/ jobs' = [jobs EXCEPT ![j] = "failed"] /\ jobs[j] \in {"queued", "needs_human"}
                \/ jobs' = jobs
                \/ /\ jobs' = [jobs EXCEPT ![j] = "running"] /\ j \in dropped'
                   /\ jobs[j] \in {"queued", "needs_human"}
    <3>1. /\ jobs' \in [Job -> JobStates] /\ \A k \in Job \ {j} : jobs'[k] = jobs[k]
          /\ \/ jobs'[j] = jobs[j]
             \/ jobs[j] \in {"queued", "needs_human"} /\ jobs'[j] = "failed"
             \/ jobs[j] \in {"queued", "needs_human"} /\ jobs'[j] = "running" /\ j \in dropped'
      <4>1. jobs \in [Job -> JobStates] /\ j \in Job
        BY <1>2 DEF Shapes
      <4>2. ASSUME NEW s \in {"failed", "running"}, jobs' = [jobs EXCEPT ![j] = s]
            PROVE  jobs' \in [Job -> JobStates] /\ jobs'[j] = s
                   /\ \A k \in Job \ {j} : jobs'[k] = jobs[k]
        BY <4>1, <4>2 DEF JobStates, Active
      <4>3. CASE jobs' = jobs
        BY <4>1, <4>3
      <4> QED
        BY <2>3, <4>2, <4>3
    <3>2. Moves(j) /\ (jobs'[j] \in Active => jobs'[j] = jobs[j] \/ j \in dropped')
      BY <1>4, <2>1, <3>1 DEF Moves, Active
    <3> QED
      BY <1>7, <2>1, <2>3, <3>1, <3>2
  <2> QED
    BY <1>10, <2>2, <2>3 DEF Enqueue, Drop
<1> QED
  BY <1>1, <1>6, <1>8, <1>9, <1>10
-----------------------------------------------------------------------------
\* A step of a process to another phase, which may stop jobs that are active.
Halts == \A k \in Job : \/ jobs'[k] = jobs[k]
                        \/ jobs[k] \in Active /\ jobs'[k] = "needs_human"

LEMMA PhaseIInv ==
    ASSUME IInv, NEW p \in Process, NEW ph \in Phases, phase' = [phase EXCEPT ![p] = ph],
           ph \notin {"unborn", "dead"}, phase[p] # "dead",
           UNCHANGED <<journal, artifact, facts, files, task, admitted, doomed, dropped, faults>>,
           queue' \in {queue, [queue EXCEPT ![p] = << >>]},
           todo' \in [Process -> SUBSET Job], \A q \in Process \ {p} : todo'[q] = todo[q],
           earlier' \in [Process -> SUBSET Process],
           \A q \in Process \ {p} : earlier'[q] = earlier[q],
           \A q \in earlier'[p] : phase[q] = "dead", Overlapped => Overlapped',
           jobs' \in [Job -> JobStates], Halts, Placed(p)',
           ph \in Recovering => phase[p] \in {"unborn"} \union Recovering,
           phase[p] \in Recovering => task[p].at = "idle",
           \A k \in Job : Covered(p, k)' /\ Recovered(p, k)'
    PROVE  IInv' /\ AllDecided
<1> USE DEF Halts
<1>1. /\ Shapes /\ phase'[p] = ph /\ phase' \in [Process -> Phases]
      /\ \A q \in Process \ {p} : phase'[q] = phase[q]
      /\ queue' \in [Process -> Seq(Job)]
      /\ \A q \in Process : queue'[q] = queue[q] \/ (q = p /\ queue'[q] = << >>)
  <2>1. Shapes /\ phase \in [Process -> Phases] /\ queue \in [Process -> Seq(Job)]
    BY DEF IInv, Shapes
  <2>2. phase'[p] = ph /\ phase' \in [Process -> Phases] /\ \A q \in Process \ {p} : phase'[q] = phase[q]
    BY <2>1
  <2>3. CASE queue' = [queue EXCEPT ![p] = << >>]
    <3>1. << >> \in Seq(Job)
      OBVIOUS
    <3>2. queue' \in [Process -> Seq(Job)] /\ queue'[p] = << >>
          /\ \A q \in Process \ {p} : queue'[q] = queue[q]
      BY ONLY <2>1, <2>3, <3>1, p \in Process
    <3> QED
      BY <2>1, <2>2, <3>2
  <2> QED
    BY <2>1, <2>2, <2>3
<1>2. Shapes'
  BY <1>1 DEF Shapes, files
<1>3. \A k \in Job : Moves(k) /\ (jobs'[k] \in Active => jobs'[k] = jobs[k])
  BY DEF Moves, Active
<1>4. \A q \in Process : Alive(q) => Alive(q)'
  BY <1>1 DEF Alive
<1>5. Places'
  <2>1. ASSUME NEW q \in Process \ {p}  PROVE Placed(q)'
    <3>1. Placed(q) /\ todo[q] \subseteq Job
      BY <1>1 DEF IInv, Places, Shapes
    <3> QED
      BY <1>1, <3>1 DEF Placed, HasRow, Alive, J
  <2> QED
    BY <2>1 DEF Places
<1>6. Admissions'
  <2>1. ASSUME NEW k \in Job
        PROVE  /\ admitted'[k].at = "none" => admitted'[k].by = Nobody
               /\ admitted'[k].at # "none" =>
                     /\ admitted'[k].by \in Process
                     /\ phase'[admitted'[k].by] \notin {"unborn"} \union Recovering
               /\ admitted'[k].at \in {"none", "admitted"} => jobs'[k] = "absent"
    BY <1>1 DEF IInv, Admissions, Active
  <2>2. ASSUME NEW q \in Process, task'[q].at \in Working, phase'[q] \notin Recovering
        PROVE  Ticket(q, J(q))'
    <3>1. phase[q] \notin Recovering
      BY <1>1, <2>2 DEF Working
    <3> QED
      BY <2>2, <3>1 DEF IInv, Admissions, Ticket, J
  <2>3. ASSUME NEW q \in Process  PROVE Waiting(q)'
    <3>1. Waiting(q) /\ queue[q] \in Seq(Job)
      BY <1>1 DEF IInv, Admissions, Shapes
    <3>2. CASE queue'[q] = queue[q]
      BY <3>1, <3>2 DEF Waiting, Ticket, HasRow, J
    <3>3. CASE queue'[q] = << >>
      BY <3>3 DEF Waiting
    <3> QED
      BY <1>1, <3>2, <3>3
  <2> QED
    BY <2>1, <2>2, <2>3 DEF Admissions
<1>7. Deaths'
  <2>1. ASSUME NEW q \in Process, NEW r \in earlier'[q]  PROVE phase'[r] = "dead"
    <3>1. r \in Process
      OBVIOUS
    <3>2. phase[r] = "dead"
      BY DEF IInv, Deaths
    <3> QED
      BY <1>1, <3>1, <3>2
  <2> QED
    BY <2>1 DEF Deaths
<1>8. Closings'
  <2>1. ASSUME NEW q \in Process \ {p}, NEW k \in Job  PROVE Covered(q, k)'
    <3>1. Covered(q, k)
      BY DEF IInv, Closings
    <3> QED
      BY <1>1, <1>3, <3>1 DEF Covered, J
  <2> QED
    BY <2>1 DEF Closings
<1>9. Recoveries'
  <2>1. ASSUME NEW q \in Process \ {p}, NEW k \in Job  PROVE Recovered(q, k)'
    <3>1. Recovered(q, k)
      BY DEF IInv, Recoveries
    <3> QED
      BY <1>1, <1>3, <3>1 DEF Recovered, Pending
  <2> QED
    BY <2>1 DEF Recoveries
<1>10. \A k \in Job : HasRow(k) => admitted'[k].at = "ended"
  BY DEF IInv, Rows, Written
<1> QED
  BY <1>2, <1>3, <1>4, <1>5, <1>6, <1>7, <1>8, <1>9, <1>10, QuietIInv

\* The fence and the steps of close() after it.
LEMMA ClosingIInv ==
    ASSUME IInv, NEW p \in Process,
           Fence(p) \/ CloseList(p) \/ CloseWorker(p) \/ CloseReturn(p)
    PROVE  IInv' /\ AllDecided
<1>1. PICK ph \in {"fenced", "draining", "waiting", "closed"} :
          phase' = [phase EXCEPT ![p] = ph]
  BY DEF Fence, CloseList, CloseWorker, CloseReturn
<1>2. /\ UNCHANGED <<journal, artifact, facts, files, task, admitted, doomed, jobs, earlier>>
      /\ UNCHANGED <<dropped, faults>>
      /\ queue' \in {queue, [queue EXCEPT ![p] = << >>]}
      /\ phase[p] \in {"up", "fenced", "draining", "waiting"} /\ Shapes /\ Placed(p)
  BY DEF Fence, CloseList, CloseWorker, CloseReturn, CloseOnly, NoDrop, NoFault, Accepting,
         IInv, Places
<1>3. todo' \in [Process -> SUBSET Job] /\ \A q \in Process \ {p} : todo'[q] = todo[q]
  <2>1. todo \in [Process -> SUBSET Job]
    BY <1>2 DEF Shapes
  <2>2. PICK s \in SUBSET Job : todo' = todo \/ todo' = [todo EXCEPT ![p] = s]
    <3>1. todo' = todo \/ todo' = [todo EXCEPT ![p] = {j \in Job : jobs[j] \in Active}]
      BY DEF Fence, CloseList, CloseWorker, CloseReturn
    <3> QED
      BY <3>1
  <2> QED
    BY ONLY <2>1, <2>2, p \in Process
<1>4. phase'[p] = ph /\ \A q \in Process \ {p} : phase'[q] = phase[q]
  BY <1>1, <1>2 DEF Shapes
<1>5. /\ ph \in {"waiting", "closed"} => queue'[p] = << >>
      /\ ph = "closed" => task[p] = Idle
  <2>1. CASE Fence(p) \/ CloseList(p)
    <3>1. phase' = [phase EXCEPT ![p] = "fenced"] \/ phase' = [phase EXCEPT ![p] = "draining"]
      BY <2>1 DEF Fence, CloseList
    <3> QED
      BY <1>2, <1>4, <3>1 DEF Shapes
  <2>2. CASE CloseWorker(p)
    BY <1>2, <1>4, <2>2 DEF CloseWorker, Shapes
  <2>3. CASE CloseReturn(p)
    <3>1. phase[p] = "waiting" /\ queue' = queue
      BY <2>3 DEF CloseReturn
    <3>2. queue[p] = << >>
      BY <1>2, <3>1 DEF Placed
    <3> QED
      BY <2>3, <1>4, <3>1, <3>2 DEF CloseReturn
  <2> QED
    BY <2>1, <2>2, <2>3
<1>6. Placed(p)'
  BY <1>2, <1>4, <1>5 DEF Placed, Alive, J, Recovering
<1>7. ASSUME NEW k \in Job  PROVE Covered(p, k)'
  <2>1. Covered(p, k)
    BY DEF IInv, Closings
  <2>2. CASE Fence(p)
    BY <1>2, <1>4, <2>2 DEF Fence, Covered, Shapes
  <2>3. CASE CloseList(p)
    <3>1. phase'[p] = "draining" /\ todo'[p] = {j \in Job : jobs[j] \in Active}
      BY <1>2, <2>3 DEF CloseList, Shapes
    <3> QED
      BY <1>2, <3>1 DEF Covered
  <2>4. CASE CloseWorker(p)
    <3>1. phase[p] = "draining" /\ doomed[p] = << >> /\ todo[p] = {} /\ phase'[p] = "waiting"
      BY <1>2, <2>4 DEF CloseWorker, Shapes
    <3>2. doomed[p] # <<k, jobs[k]>>
      BY <3>1
    <3> QED
      BY <1>2, <2>1, <3>1, <3>2 DEF Covered, J
  <2>5. CASE CloseReturn(p)
    <3>1. /\ phase[p] = "waiting" /\ task[p] = Idle /\ (admitted[k].by = p => admitted[k].at = "ended")
      BY <2>5 DEF CloseReturn
    <3> QED
      BY <1>2, <2>1, <3>1 DEF Covered, Idle
  <2> QED
    BY <2>2, <2>3, <2>4, <2>5
<1>8. ASSUME NEW k \in Job  PROVE Recovered(p, k)'
  BY <1>2 DEF IInv, Recoveries, Recovered, Pending
<1>9. Overlapped => Overlapped'
  BY <1>1, <1>2, <1>4 DEF Overlapped
<1>10. earlier' \in [Process -> SUBSET Process] /\ \A q \in earlier'[p] : phase[q] = "dead"
  BY <1>2 DEF Shapes, IInv, Deaths
<1>11. ph \in Phases /\ ph \notin Recovering /\ phase[p] \notin Recovering
  BY <1>2 DEF Phases, Recovering
<1> QED
  BY <1>1, <1>2, <1>3, <1>6, <1>7, <1>8, <1>9, <1>10, <1>11, PhaseIInv DEF Shapes, Halts

\* A start, its recovery and the ends of its passes.
LEMMA ListedHaveRows == ASSUME IInv  PROVE \A j \in Listed : j \in Job /\ HasRow(j)
BY DEF Listed, HasRow, Pinned, Unresolved

LEMMA StartIInv ==
    ASSUME IInv, NEW p \in Process, Start(p)
    PROVE  IInv' /\ AllDecided
<1>1. /\ phase[p] = "unborn" /\ phase' = [phase EXCEPT ![p] = "pass1"]
      /\ todo' = [todo EXCEPT ![p] = Listed]
      /\ earlier' = [earlier EXCEPT ![p] = {q \in Process : phase[q] = "dead"}]
      /\ UNCHANGED <<rows, files, admitted, queue, task, doomed, dropped, faults>>
      /\ Shapes /\ Placed(p)
  BY DEF Start, IInv, Places
<1>2. /\ phase'[p] = "pass1" /\ \A q \in Process \ {p} : phase'[q] = phase[q]
      /\ todo' \in [Process -> SUBSET Job] /\ todo'[p] = Listed
      /\ \A q \in Process \ {p} : todo'[q] = todo[q] /\ earlier'[q] = earlier[q]
      /\ earlier' \in [Process -> SUBSET Process]
      /\ earlier'[p] = {q \in Process : phase[q] = "dead"}
  BY <1>1, ListedHaveRows DEF Shapes
<1>3. Placed(p)'
  <2>1. task[p] = Idle /\ queue[p] = << >>
    BY <1>1 DEF Placed, Alive
  <2> QED
    BY <1>1, <1>2, <2>1, ListedHaveRows DEF Placed, Idle, Recovering, Inspecting, HasRow, J, rows
<1>4. \A k \in Job : Covered(p, k)' /\ Recovered(p, k)'
  BY <1>2 DEF Covered, Recovered
<1>5. Overlapped => Overlapped'
  <2> SUFFICES ASSUME NEW q \in Process, phase[q] # "unborn", earlier[q] # 1..(q - 1)
               PROVE  Overlapped'
    BY DEF Overlapped
  <2> QED
    BY <1>1, <1>2 DEF Overlapped
<1> QED
  BY <1>1, <1>2, <1>3, <1>4, <1>5, PhaseIInv DEF Shapes, Halts, Phases, Recovering, rows

LEMMA RecoverIInv ==
    ASSUME IInv, NEW p \in Process, Recover(p)
    PROVE  IInv' /\ AllDecided
<1>1. /\ phase[p] = "recover" /\ phase' = [phase EXCEPT ![p] = "pass2"]
      /\ todo' = [todo EXCEPT ![p] = Listed]
      /\ UNCHANGED <<journal, artifact, facts, files, admitted, queue, task, doomed, earlier>>
      /\ UNCHANGED <<dropped, faults>> /\ Shapes /\ Placed(p)
  BY DEF Recover, IInv, Places
<1>2. /\ phase'[p] = "pass2" /\ \A q \in Process \ {p} : phase'[q] = phase[q]
      /\ todo' \in [Process -> SUBSET Job] /\ todo'[p] = Listed
      /\ \A q \in Process \ {p} : todo'[q] = todo[q]
  BY <1>1, ListedHaveRows DEF Shapes
<1>3. /\ jobs' \in [Job -> JobStates] /\ Halts
      /\ \A k \in Job : jobs'[k] \in Active => Pending(k)
  BY <1>1 DEF Recover, Shapes, Halts, JobStates, Pending, Active
<1>4. Placed(p)'
  <2>1. task[p] = Idle /\ queue[p] = << >>
    BY <1>1 DEF Placed, Recovering
  <2> QED
    BY <1>1, <1>2, <2>1, ListedHaveRows DEF Placed, Idle, Recovering, Inspecting, HasRow, J
<1>5. \A k \in Job : Covered(p, k)' /\ Recovered(p, k)'
  BY <1>1, <1>2, <1>3 DEF Covered, Recovered, Pending
<1>6. Overlapped => Overlapped'
  BY <1>1, <1>2 DEF Overlapped
<1>7. earlier' \in [Process -> SUBSET Process] /\ \A q \in earlier'[p] : phase[q] = "dead"
  BY <1>1 DEF Shapes, IInv, Deaths
<1>8. task[p].at = "idle"
  BY <1>1 DEF Placed, Idle
<1> QED
  BY <1>1, <1>2, <1>3, <1>4, <1>5, <1>6, <1>7, <1>8, PhaseIInv DEF Phases, Recovering

LEMMA EndPassIInv ==
    ASSUME IInv, NEW p \in Process, EndPass(p)
    PROVE  IInv' /\ AllDecided
<1>1. /\ phase[p] \in {"pass1", "pass2"} /\ task[p].at = "idle"
      /\ UNCHANGED <<journal, artifact, facts, files, admitted, queue, task, todo, doomed, earlier>>
      /\ UNCHANGED <<dropped, faults>> /\ Shapes /\ Placed(p)
  BY DEF EndPass, InPass, At, IInv, Places
<1>2. PICK ph \in {"recover", "up"} : /\ phase' = [phase EXCEPT ![p] = ph]
                                      /\ ph = "up" => phase[p] = "pass2"
  BY <1>1 DEF EndPass
<1>3. phase'[p] = ph /\ \A q \in Process \ {p} : phase'[q] = phase[q]
  BY <1>1, <1>2 DEF Shapes
<1>4. jobs' \in [Job -> JobStates] /\ Halts
  <2>1. CASE UNCHANGED jobs
    BY <1>1, <2>1 DEF Shapes, Halts
  <2>2. CASE \E expired \in SUBSET {j \in Job : jobs[j] = "running"} :
                 jobs' = [j \in Job |-> IF j \in expired THEN "needs_human" ELSE jobs[j]]
    BY <1>1, <2>2 DEF Shapes, Halts, JobStates, Active
  <2> QED
    BY <2>1, <2>2 DEF EndPass
<1>5. Placed(p)'
  BY <1>1, <1>3 DEF Placed, Idle, Recovering, Inspecting, HasRow, J, Alive
<1>6. \A k \in Job : Covered(p, k)' /\ Recovered(p, k)'
  <2>1. ASSUME NEW k \in Job  PROVE Covered(p, k)' /\ Recovered(p, k)'
    <3>1. Recovered(p, k)
      BY DEF IInv, Recoveries
    <3>2. jobs'[k] \in Active => jobs[k] \in Active
      BY <1>4 DEF Halts
    <3> QED
      BY <1>1, <1>2, <1>3, <3>1, <3>2 DEF Covered, Recovered, Pending
  <2> QED
    BY <2>1
<1>7. Overlapped => Overlapped'
  BY <1>1, <1>2, <1>3 DEF Overlapped
<1>8. earlier' \in [Process -> SUBSET Process] /\ \A q \in earlier'[p] : phase[q] = "dead"
  BY <1>1 DEF Shapes, IInv, Deaths
<1> QED
  BY <1>1, <1>2, <1>3, <1>4, <1>5, <1>6, <1>7, <1>8, PhaseIInv DEF Phases, Recovering, Shapes
-----------------------------------------------------------------------------
\* A step that gives or takes p its task and leaves the data alone.
LEMMA TasksStand ==
    ASSUME IInv, NEW p \in Process, \A k \in Job : Keeps(p, k), Overlapped => Overlapped',
           \A q \in Process \ {p} : task'[q] = task[q] /\ (Alive(q) => Alive(q)'),
           \/ task'[p].at = "idle"
           \/ (Before(p, J(p)) /\ Writing(p, J(p)) /\ Repairing(p, J(p)))'
    PROVE  Tasks'
<1>1. ASSUME NEW q \in Process \ {p}
      PROVE  (Before(q, J(q)) /\ Writing(q, J(q)) /\ Repairing(q, J(q)))'
  BY <1>1, OthersStand
<1>2. task'[p].at = "idle" => (Before(p, J(p)) /\ Writing(p, J(p)) /\ Repairing(p, J(p)))'
  BY IdleStands
<1> QED
  BY <1>1, <1>2 DEF Tasks

LEMMA RowsStand ==
    ASSUME IInv, UNCHANGED <<rows, files, admitted>>, Overlapped' <=> Overlapped
    PROVE  Rows'
<1>1. ASSUME NEW k \in Job
      PROVE  WellFormed(journal[k])' /\ Unwritten(k)' /\ Written(k)' /\ Filed(k)'
  <2>1. WellFormed(journal[k]) /\ Unwritten(k) /\ Written(k) /\ Filed(k)
    BY DEF IInv, Rows
  <2>2. /\ HasRow(k)' = HasRow(k) /\ Pinned(k)' = Pinned(k) /\ Pending(k)' = Pending(k)
        /\ RolledBack(k)' = RolledBack(k) /\ Broken(k)' = Broken(k)
    BY DEF HasRow, Pinned, Pending, RolledBack, Broken, rows
  <2> QED
    BY <2>1, <2>2 DEF WellFormed, Unwritten, Written, Filed, rows, files
<1> QED
  BY <1>1 DEF Rows

LEMMA TakeIInv ==
    ASSUME IInv, NEW p \in Process, Take(p)
    PROVE  IInv' /\ AllDecided
<1>1. /\ task[p].at = "idle" /\ Alive(p) /\ phase[p] \notin Recovering /\ queue[p] # << >>
      /\ queue' = [queue EXCEPT ![p] = Tail(@)]
      /\ UNCHANGED <<rows, files, phase, admitted, todo, doomed, earlier, dropped, faults>>
      /\ Shapes /\ Placed(p) /\ Waiting(p) /\ queue[p] \in Seq(Job)
  BY DEF Take, At, IInv, Places, Admissions, Shapes
<1>2. PICK j : j = Head(queue[p])
  OBVIOUS
<1>3. \A i \in 1..Len(queue[p]) : queue[p][i] \in {k \in Job : Ticket(p, k) /\ ~HasRow(k)}
  BY <1>1 DEF Waiting
<1>4. \A i, k \in 1..Len(queue[p]) : i # k => queue[p][i] # queue[p][k]
  BY <1>1 DEF Waiting
<1>5. /\ j \in Job /\ Ticket(p, j) /\ ~HasRow(j) /\ Tail(queue[p]) \in Seq(Job)
      /\ \A i \in 1..Len(Tail(queue[p])) :
             /\ Tail(queue[p])[i] \in {k \in Job : Ticket(p, k) /\ ~HasRow(k)}
             /\ Tail(queue[p])[i] # j
      /\ \A i, k \in 1..Len(Tail(queue[p])) : i # k => Tail(queue[p])[i] # Tail(queue[p])[k]
  <2>1. queue[p] \in Seq(Job) /\ queue[p] # << >>
    BY <1>1
  <2> QED
    BY ONLY <2>1, <1>2, <1>3, <1>4, TailOnce
<1>6. /\ task' \in [Process -> TaskType] /\ \A q \in Process \ {p} : task'[q] = task[q]
      /\ task'[p].at = "taken" /\ task'[p].job = j /\ J(p)' = j
  <2> DEFINE n == [Idle EXCEPT !.at = "taken", !.job = j]
  <2>1. n \in TaskType /\ n.at = "taken" /\ n.job = j
    BY <1>5 DEF Idle, TaskType, Working
  <2>2. task' = [task EXCEPT ![p] = n] /\ task \in [Process -> TaskType]
    BY <1>1, <1>2 DEF Take, Shapes
  <2> HIDE DEF n
  <2> QED
    BY <2>1, <2>2 DEF J
<1>7. /\ queue' \in [Process -> Seq(Job)] /\ queue'[p] = Tail(queue[p])
      /\ \A q \in Process \ {p} : queue'[q] = queue[q]
  <2>1. queue \in [Process -> Seq(Job)]
    BY <1>1 DEF Shapes
  <2> QED
    BY ONLY <1>1, <1>5, <2>1, p \in Process
<1>8. Shapes' /\ (Overlapped' <=> Overlapped)
  BY <1>1, <1>6, <1>7 DEF Shapes, Overlapped, rows, files
<1>9. \A k \in Job : Keeps(p, k)
  BY <1>1, <1>8, SameKeeps DEF SameData, rows, files
<1>10. Tasks'
  <2>1. Before(p, j)' /\ Writing(p, j)' /\ Repairing(p, j)'
    BY <1>1, <1>5, <1>6
    DEF Before, Writing, Repairing, Starting, Staged, Renamed, Undoing, Inspecting, At, HasRow, rows
  <2>2. \A q \in Process : Alive(q) => Alive(q)'
    BY <1>1 DEF Alive
  <2>3. (Before(p, J(p)) /\ Writing(p, J(p)) /\ Repairing(p, J(p)))'
    BY <1>6, <2>1
  <2> QED
    BY <1>6, <1>8, <1>9, <2>2, <2>3, TasksStand
<1>11. Places'
  <2>1. ASSUME NEW q \in Process \ {p}  PROVE Placed(q)'
    <3>1. Placed(q) /\ todo[q] \subseteq Job
      BY <1>1 DEF IInv, Places, Shapes
    <3> QED
      BY <1>1, <1>6, <1>7, <3>1 DEF Placed, HasRow, Alive, J, rows
  <2>2. Placed(p)'
    BY <1>1, <1>5, <1>6 DEF Placed, Alive, Inspecting, Recovering
  <2> QED
    BY <2>1, <2>2 DEF Places
<1>12. Admissions'
  <2>1. ASSUME NEW q \in Process \ {p}  PROVE Waiting(q)'
    <3>1. Waiting(q) /\ queue'[q] = queue[q] /\ task'[q] = task[q]
      BY <1>6, <1>7 DEF IInv, Admissions
    <3> QED
      BY <1>1, <3>1 DEF Waiting, Ticket, HasRow, J, rows
  <2>2. Waiting(p)'
    <3>1. ASSUME NEW i \in 1..Len(queue'[p])
          PROVE  /\ Ticket(p, queue'[p][i]) /\ ~HasRow(queue'[p][i]) /\ queue'[p][i] # J(p)'
      BY <1>5, <1>6, <1>7
    <3>2. \A i, k \in 1..Len(queue'[p]) : i # k => queue'[p][i] # queue'[p][k]
      BY <1>5, <1>7
    <3> QED
      BY <1>1, <3>1, <3>2 DEF Waiting, Ticket, HasRow, J, rows
  <2>3. ASSUME NEW q \in Process, task'[q].at \in Working, phase'[q] \notin Recovering
        PROVE  Ticket(q, J(q))'
    <3>1. CASE q = p
      BY <1>1, <1>5, <1>6, <3>1 DEF Ticket
    <3>2. CASE q # p
      BY <1>1, <1>6, <2>3, <3>2 DEF IInv, Admissions, Ticket, J
    <3> QED
      BY <3>1, <3>2
  <2> QED
    BY <1>1, <2>1, <2>2, <2>3 DEF IInv, Admissions, rows
<1>13. Deaths' /\ Rows'
  BY <1>1, <1>8, RowsStand DEF IInv, Deaths
<1>14. Closings'
  <2>1. ASSUME NEW q \in Process, NEW k \in Job  PROVE Covered(q, k)'
    <3>1. Covered(q, k) /\ (task[q].at = "claimed" => task'[q] = task[q])
      BY <1>1, <1>6 DEF IInv, Closings
    <3> QED
      BY <1>1, <3>1 DEF Covered, J, rows
  <2> QED
    BY <2>1 DEF Closings
<1>15. Recoveries'
  BY <1>1, <1>9, <1>13, RecoveriesStand
<1> QED
  BY <1>8, <1>9, <1>10, <1>11, <1>12, <1>13, <1>14, <1>15 DEF IInv, AllDecided, Keeps

\* A process ends: what its task knew is forgotten, what it held keeps its lease.
LEMMA DieIInv ==
    ASSUME IInv, NEW p \in Process, Die(p)
    PROVE  IInv' /\ AllDecided
<1>1. /\ phase' = [phase EXCEPT ![p] = "dead"] /\ queue' = [queue EXCEPT ![p] = << >>]
      /\ task' = [task EXCEPT ![p] = Idle] /\ todo' = [todo EXCEPT ![p] = {}]
      /\ doomed' = [doomed EXCEPT ![p] = << >>] /\ Alive(p)
      /\ UNCHANGED <<rows, files, admitted, earlier, dropped, faults>> /\ Shapes
  BY DEF Die, IInv
<1>2. /\ phase'[p] = "dead" /\ queue'[p] = << >> /\ task'[p] = Idle
      /\ \A q \in Process \ {p} : /\ phase'[q] = phase[q] /\ queue'[q] = queue[q]
                                  /\ task'[q] = task[q] /\ todo'[q] = todo[q]
                                  /\ doomed'[q] = doomed[q]
  BY <1>1 DEF Shapes
<1>3. Shapes'
  <2>1. << >> \in Seq(Job) /\ Idle \in TaskType /\ "dead" \in Phases
    BY DEF Idle, TaskType, Phases
  <2>2. queue' \in [Process -> Seq(Job)]
    <3>1. queue \in [Process -> Seq(Job)]
      BY <1>1 DEF Shapes
    <3> QED
      BY ONLY <1>1, <2>1, <3>1, p \in Process
  <2>3. /\ task' \in [Process -> TaskType] /\ phase' \in [Process -> Phases]
        /\ todo' \in [Process -> SUBSET Job]
        /\ doomed' \in [Process -> {<< >>} \union (Job \X Active)]
    BY <1>1, <2>1 DEF Shapes
  <2> QED
    BY <1>1, <2>2, <2>3 DEF Shapes, rows, files
<1>4. Overlapped' <=> Overlapped
  BY <1>1, <1>2 DEF Overlapped, Alive
<1>5. \A k \in Job : Keeps(p, k)
  BY <1>1, <1>4, SameKeeps DEF SameData, rows, files
<1>6. Tasks'
  BY <1>2, <1>4, <1>5, TasksStand DEF Idle, Alive
<1>7. Places'
  <2>1. ASSUME NEW q \in Process \ {p}  PROVE Placed(q)'
    <3>1. Placed(q) /\ todo[q] \subseteq Job
      BY <1>1 DEF IInv, Places, Shapes
    <3> QED
      BY <1>1, <1>2, <3>1 DEF Placed, HasRow, Alive, J, rows
  <2>2. Placed(p)'
    BY <1>2 DEF Placed, Idle, Recovering, Inspecting
  <2> QED
    BY <2>1, <2>2 DEF Places
<1>8. Admissions'
  <2>1. ASSUME NEW q \in Process  PROVE Waiting(q)'
    <3>1. CASE q = p
      BY <1>2, <3>1 DEF Waiting
    <3>2. CASE q # p
      <4>1. Waiting(q)
        BY DEF IInv, Admissions
      <4> QED
        BY <1>1, <1>2, <3>2, <4>1 DEF Waiting, Ticket, HasRow, J, rows
    <3> QED
      BY <3>1, <3>2
  <2>2. ASSUME NEW q \in Process, task'[q].at \in Working, phase'[q] \notin Recovering
        PROVE  Ticket(q, J(q))'
    <3>1. q # p
      BY <1>2, <2>2 DEF Idle, Working
    <3> QED
      BY <1>1, <1>2, <2>2, <3>1 DEF IInv, Admissions, Ticket, J
  <2>3. ASSUME NEW k \in Job
        PROVE  /\ admitted'[k].at = "none" => admitted'[k].by = Nobody
               /\ admitted'[k].at # "none" =>
                     /\ admitted'[k].by \in Process
                     /\ phase'[admitted'[k].by] \notin {"unborn"} \union Recovering
               /\ admitted'[k].at \in {"none", "admitted"} => jobs'[k] = "absent"
    BY <1>1, <1>2 DEF IInv, Admissions, rows, Recovering
  <2> QED
    BY <2>1, <2>2, <2>3 DEF Admissions
<1>9. Deaths' /\ Rows'
  <2>1. Deaths'
    BY <1>1, <1>2 DEF IInv, Deaths, Shapes
  <2> QED
    BY <1>1, <1>4, <2>1, RowsStand
<1>10. Closings'
  <2>1. ASSUME NEW q \in Process, NEW k \in Job  PROVE Covered(q, k)'
    <3>1. Covered(q, k)
      BY DEF IInv, Closings
    <3>2. CASE q = p
      BY <1>2, <3>2 DEF Covered
    <3>3. CASE q # p
      BY <1>1, <1>2, <3>1, <3>3 DEF Covered, J, rows
    <3> QED
      BY <3>2, <3>3
  <2> QED
    BY <2>1 DEF Closings
<1>11. Recoveries'
  <2>1. \A q \in Process : phase[q] \in {"unborn", "dead", "pass1", "recover"}
            => phase'[q] \in {"unborn", "dead", "pass1", "recover"}
    BY <1>2
  <2> QED
    BY <1>1, <1>5, <1>9, <2>1, RecoveriesStand
<1> QED
  BY <1>3, <1>5, <1>6, <1>7, <1>8, <1>9, <1>10, <1>11 DEF IInv, AllDecided, Keeps
-----------------------------------------------------------------------------
\* A start claims a row, from a dead holder or one that is late; a claim whose
\* acknowledgement is lost takes it too, and nobody works on it.
LEMMA ClaimRowIInv ==
    ASSUME IInv, NEW p \in Process, NEW j \in Job, ClaimRow(p, j)
    PROVE  IInv' /\ AllDecided
<1>1. /\ phase[p] \in {"pass1", "pass2"} /\ task[p].at = "idle" /\ Alive(p) /\ j \in todo[p]
      /\ todo' = [todo EXCEPT ![p] = @ \ {j}]
      /\ UNCHANGED <<jobs, artifact, facts, files, phase, admitted, queue, doomed, earlier, dropped>>
      /\ Shapes /\ Placed(p) /\ HasRow(j)
  BY DEF ClaimRow, InPass, At, IInv, Places, Placed
<1>2. /\ todo' \in [Process -> SUBSET Job] /\ todo'[p] = todo[p] \ {j}
      /\ \A q \in Process \ {p} : todo'[q] = todo[q]
  BY <1>1 DEF Shapes
<1>3. faults' \in 0..MaxFaults
  BY Faults DEF ClaimRow
<1>4. CASE UNCHANGED <<journal, task>>
  <2>1. Closings'
    BY <1>1, <1>2, <1>4 DEF IInv, Closings, Covered, J
  <2>2. \A k \in Job : Moves(k)
    BY <1>1 DEF Moves
  <2>3. \A q \in Process : todo'[q] \subseteq todo[q]
    BY <1>2
  <2> QED
    BY <1>1, <1>2, <1>3, <1>4, <2>1, <2>2, <2>3, JobsMoveIInv DEF Shapes
<1>5. ASSUME journal' = Renewed(p, j, journal[j].state),
             \/ UNCHANGED task
             \/ task' = [task EXCEPT ![p] = [Idle EXCEPT !.at = "read", !.job = j]]
      PROVE  IInv' /\ AllDecided
  <2>1. Overlapped' <=> Overlapped
    BY <1>1 DEF Overlapped
  <2>2. /\ journal' \in [Job -> RowType] /\ \A k \in Job \ {j} : journal'[k] = journal[k]
        /\ \A k \in Job : /\ HasRow(k)' = HasRow(k) /\ Pinned(k)' = Pinned(k)
                          /\ Pending(k)' = Pending(k)
                          /\ Keeps(p, k)
                          /\ WellFormed(journal[k])' /\ Unwritten(k)' /\ Written(k)' /\ Filed(k)'
    <3>1. ASSUME NEW q \in Process \ {p}, task[q].at # "idle"  PROVE Overlapped
      BY <1>1, <3>1, AtWork, TwoOverlap
    <3> QED
      BY <1>1, <1>5, <2>1, <3>1, TakesKeep
  <2>3. /\ task' \in [Process -> TaskType] /\ \A q \in Process \ {p} : task'[q] = task[q]
        /\ \/ task'[p] = task[p]
           \/ task'[p].at = "read" /\ task'[p].job = j /\ J(p)' = j
    <3> DEFINE n == [Idle EXCEPT !.at = "read", !.job = j]
    <3>1. n \in TaskType /\ n.at = "read" /\ n.job = j
      BY DEF Idle, TaskType, Inspecting
    <3>2. task \in [Process -> TaskType] /\ (UNCHANGED task \/ task' = [task EXCEPT ![p] = n])
      BY <1>1, <1>5 DEF Shapes
    <3> HIDE DEF n
    <3> QED
      BY <3>1, <3>2 DEF J
  <2>4. Shapes'
    BY <1>1, <1>2, <1>3, <2>2, <2>3 DEF Shapes, files
  <2>5. Rows'
    BY <2>2 DEF Rows
  <2>6. Tasks'
    <3>1. task'[p].at # "idle" => (Before(p, J(p)) /\ Writing(p, J(p)) /\ Repairing(p, J(p)))'
      <4>1. task'[p].at # "idle" => task'[p].at = "read" /\ J(p)' = j /\ HasRow(j)'
        BY <1>1, <2>2, <2>3
      <4> QED
        BY <4>1 DEF Before, Writing, Repairing, Starting, Staged, Renamed, Undoing, At
    <3>2. \A q \in Process : Alive(q) => Alive(q)'
      BY <1>1 DEF Alive
    <3> QED
      BY <2>1, <2>2, <2>3, <3>1, <3>2, TasksStand
  <2>7. Places'
    <3>1. ASSUME NEW q \in Process \ {p}  PROVE Placed(q)'
      <4>1. Placed(q) /\ todo[q] \subseteq Job
        BY <1>1 DEF IInv, Places, Shapes
      <4> QED
        BY <1>1, <1>2, <2>2, <2>3, <4>1 DEF Placed, Alive, J
    <3>2. Placed(p)'
      <4>1. \A k \in todo'[p] : k \in Job /\ HasRow(k)
        BY <1>1, <1>2 DEF Placed, Shapes
      <4> QED
        BY <1>1, <2>2, <2>3, <4>1 DEF Placed, Inspecting, Recovering, Alive, J
    <3> QED
      BY <3>1, <3>2 DEF Places
  <2>8. Admissions'
    <3>1. ASSUME NEW q \in Process  PROVE Waiting(q)'
      <4>1. Waiting(q) /\ queue[q] \in Seq(Job) /\ \A i \in 1..Len(queue[q]) : queue[q][i] \in Job
        BY <1>1 DEF IInv, Admissions, Shapes
      <4>2. CASE q = p
        <5>1. queue[p] = << >>
          BY <1>1 DEF Placed, Recovering
        <5> QED
          BY <1>1, <4>2, <5>1 DEF Waiting
      <4>3. CASE q # p
        BY <1>1, <2>2, <2>3, <4>1, <4>3 DEF Waiting, Ticket, J
      <4> QED
        BY <4>2, <4>3
    <3>2. ASSUME NEW q \in Process, task'[q].at \in Working, phase'[q] \notin Recovering
          PROVE  Ticket(q, J(q))'
      <4>1. q # p
        BY <1>1, <3>2 DEF Recovering
      <4> QED
        BY <1>1, <2>3, <3>2, <4>1 DEF IInv, Admissions, Ticket, J
    <3> QED
      BY <1>1, <3>1, <3>2 DEF IInv, Admissions
  <2>9. Deaths'
    BY <1>1 DEF IInv, Deaths
  <2>10. Closings'
    <3>1. ASSUME NEW q \in Process, NEW k \in Job  PROVE Covered(q, k)'
      <4>1. Covered(q, k) /\ (q # p => task'[q] = task[q] /\ todo'[q] = todo[q])
        BY <1>2, <2>3 DEF IInv, Closings
      <4> QED
        BY <1>1, <4>1 DEF Covered, J
    <3> QED
      BY <3>1 DEF Closings
  <2>11. Recoveries'
    BY <1>1, <2>2, <2>9, RecoveriesStand
  <2> QED
    BY <2>2, <2>4, <2>5, <2>6, <2>7, <2>8, <2>9, <2>10, <2>11 DEF IInv, AllDecided, Keeps
<1> QED
  BY <1>4, <1>5 DEF ClaimRow
-----------------------------------------------------------------------------
LEMMA InitIInv == Init => IInv
<1> SUFFICES ASSUME Init  PROVE IInv
  OBVIOUS
<1> USE DEF Init
<1>1. 1 \in Process /\ 0 \in 0..MaxFaults
  BY BoundsAssumption DEF Process
<1>2. Idle \in TaskType /\ NoRow \in RowType
  BY DEF Idle, TaskType, NoRow, RowType
<1>3. Shapes
  <2>1. << >> \in Seq(Job)
    OBVIOUS
  <2> QED
    BY <1>1, <1>2, <2>1 DEF Shapes, TicketType, JobStates, Phases
<1>4. Rows
  BY DEF Rows, WellFormed, Unwritten, Written, Filed, HasRow, Pinned, Pending, RolledBack, Broken, NoRow
<1>5. Tasks
  BY DEF Tasks, Before, Writing, Repairing, Starting, Staged, Renamed, Undoing, Inspecting, At, Idle
<1>6. Places
  BY DEF Places, Placed, Idle, Recovering, Inspecting, Alive
<1>7. Admissions
  BY DEF Admissions, Waiting, Idle, Working
<1>8. Deaths /\ Closings /\ Recoveries
  BY DEF Deaths, Closings, Covered, Recoveries, Recovered, Active
<1> QED
  BY <1>3, <1>4, <1>5, <1>6, <1>7, <1>8 DEF IInv

LEMMA NextIInv == IInv /\ [Next]_vars => IInv' /\ (AllDecided \/ UNCHANGED vars)
<1> SUFFICES ASSUME IInv, [Next]_vars  PROVE IInv' /\ (AllDecided \/ UNCHANGED vars)
  OBVIOUS
<1>1. CASE UNCHANGED vars
  <2>1. Shapes' /\ Overlapped' = Overlapped
    BY <1>1 DEF IInv, Shapes, Overlapped, vars, rows, files, procs
  <2>2. \A k \in Job : Keeps(Nobody, k)
    BY <1>1, <2>1, SameKeeps DEF SameData, vars, rows, files
  <2>3. Closings' /\ Deaths'
    BY <1>1 DEF IInv, Closings, Covered, Deaths, vars, rows, procs, J
  <2>4. \A k \in Job : Moves(k)
    BY <1>1 DEF Moves, vars, rows
  <2> QED
    BY <1>1, <2>3, <2>4, JobsMoveIInv DEF vars, rows, files, procs, IInv, Shapes
<1>2. ASSUME NEW p \in Process, Worker(p)  PROVE IInv' /\ AllDecided
  BY <1>2, TakeIInv, BeginsIInv, AllocateIInv, CreateStageIInv, PrepareIInv, AuthorizeIInv,
     PromoteIInv, RecordIInv, CommitIInv, ResolveIInv, SettleIInv, MarkIInv DEF Worker
<1>3. ASSUME NEW p \in Process, Startup(p)  PROVE IInv' /\ AllDecided
  BY <1>3, StartIInv, InspectIInv, CloseAllocationIInv, VerifyIInv, RecoverIInv, EndPassIInv,
     ClaimRowIInv DEF Startup
<1>4. ASSUME NEW p \in Process, Close(p)  PROVE IInv' /\ AllDecided
  BY <1>4, ClosingIInv, CloseReadIInv, CloseCancelIInv DEF Close
<1>5. ASSUME NEW p \in Process, Submit(p) \/ Die(p)  PROVE IInv' /\ AllDecided
  BY <1>5, SubmitIInv, DieIInv
<1>6. ASSUME NEW j \in Job, OperatorCancel(j) \/ LeaseLapses(j)  PROVE IInv' /\ AllDecided
  BY <1>6, OperatorCancelIInv, LeaseLapsesIInv
<1> QED
  BY <1>1, <1>2, <1>3, <1>4, <1>5, <1>6 DEF Next

LEMMA Inductive == Spec => []IInv
BY InitIInv, NextIInv, PTL DEF Spec

-----------------------------------------------------------------------------
\* Types, and the CHECK constraints of the journal's table.
THEOREM TypesHold == Spec => []TypeOK
<1>1. IInv => TypeOK
  BY DEF IInv, Shapes, Rows, TypeOK, TaskType, RowType
<1> QED
  BY <1>1, Inductive, PTL

\* A committed row means the file under its final name, its artifact and the
\* announced state, and neither success nor facts are there without it.
THEOREM CommitsAreWhole == Spec => []PublishedIsWhole
<1>1. IInv => PublishedIsWhole
  <2> SUFFICES ASSUME IInv, NEW j \in Job
               PROVE  /\ Pinned(j) => /\ jobs[j] = journal[j].target
                                      /\ j \in artifact /\ j \in final /\ j \notin stage
                      /\ jobs[j] = "succeeded" => Readable(j) \/ journal[j].owner # Nobody
                      /\ j \in artifact \union facts =>
                            \/ Pinned(j)
                            \/ /\ journal[j].resolution = "inconsistent"
                               /\ jobs[j] \in {"needs_human", "cancelled"}
    BY DEF PublishedIsWhole
  <2>1. WellFormed(journal[j]) /\ Unwritten(j) /\ Written(j) /\ Filed(j)
    BY DEF IInv, Rows
  <2>2. Pinned(j) => /\ jobs[j] = journal[j].target
                     /\ j \in artifact /\ j \in final /\ j \notin stage
    BY <2>1 DEF Written, Filed, HasRow, Pinned
  <2>3. jobs[j] = "succeeded" => Pinned(j)
    BY <2>1 DEF Unwritten, Written
  <2>4. jobs[j] = "succeeded" /\ journal[j].owner = Nobody => Readable(j)
    BY <2>1, <2>2, <2>3 DEF Readable, Trusted, Filed, WellFormed, Pinned
  <2>5. Broken(j) => jobs[j] \in {"needs_human", "cancelled"}
    BY <2>1 DEF Broken, Written, HasRow, Pinned, WellFormed, Active
  <2> QED
    BY <2>1, <2>2, <2>4, <2>5 DEF Filed, Broken
<1> QED
  BY <1>1, Inductive, PTL

\* No file is without a row that says so or, where processes overlap, a job that
\* has been cancelled or waits for a person.
THEOREM FilesAreTracked == Spec => []BytesAreTracked
<1>1. IInv => BytesAreTracked
  <2> SUFFICES ASSUME IInv  PROVE BytesAreTracked
    OBVIOUS
  <2> DEFINE tracked(j) == \/ journal[j].state \in Unresolved
                           \/ journal[j].resolution \in {"committed", "inconsistent"}
  <2>1. ASSUME NEW j \in Job
        PROVE  /\ j \in final => tracked(j)
               /\ j \in stage => tracked(j) \/ (Overlapped /\ jobs[j] \in {"cancelled", "needs_human"})
    <3>1. /\ WellFormed(journal[j]) /\ Unwritten(j) /\ Written(j) /\ Filed(j)
          /\ journal[j] \in RowType
      BY DEF IInv, Rows, Shapes
    <3>2. j \in final => tracked(j)
      BY <3>1 DEF Filed, Pending, Pinned, Broken, Unresolved
    <3>3. j \in stage => HasRow(j)
      BY <3>1 DEF Unwritten
    <3>4. HasRow(j) /\ ~tracked(j) => RolledBack(j)
      BY <3>1 DEF HasRow, RolledBack, WellFormed, RowType
    <3>5. RolledBack(j) => ~Pinned(j) /\ HasRow(j)
      BY <3>1 DEF RolledBack, Pinned, HasRow, WellFormed
    <3>6. j \in stage /\ RolledBack(j) => Overlapped /\ jobs[j] \in {"cancelled", "needs_human"}
      BY <3>1, <3>5 DEF Filed, Written, Active
    <3> QED
      BY <3>2, <3>3, <3>4, <3>6
  <2> QED
    BY <2>1 DEF BytesAreTracked
<1> QED
  BY <1>1, Inductive, PTL

\* Once a start has recovered, what the dead left active has a row with a file.
THEOREM DeadLeaveRows == Spec => []NoJobIsForgotten
<1>1. IInv => NoJobIsForgotten
  BY DEF IInv, Recoveries, Recovered, NoJobIsForgotten, Accepting, Pending
<1> QED
  BY <1>1, Inductive, PTL

\* A clean stop of close() leaves no active collection of its process, but for one
\* whose end an error has prevented that nobody heard of.
THEOREM StopsAreClean == Spec => []CleanStopIsClean
<1>1. IInv => CleanStopIsClean
  <2> SUFFICES ASSUME IInv, NEW p \in Process, NEW j \in Job, phase[p] = "closed",
                      admitted[j].by = p, jobs[j] \in Active
               PROVE  j \in dropped
    BY DEF CleanStopIsClean
  <2>1. Covered(p, j) /\ task[p] = Idle
    BY DEF IInv, Closings, Places, Placed
  <2> QED
    BY <2>1 DEF Covered, Idle
<1> QED
  BY <1>1, Inductive, PTL

\* What a row has resolved to and a job has ended as is not taken back, but for a
\* commit whose evidence is found broken.
THEOREM DecisionsStand == Spec => DecisionsAreFinal
<1>1. IInv /\ [Next]_vars =>
          [\A j \in Job :
              /\ journal[j].state = "completed" =>
                    /\ journal'[j].state = "completed"
                    /\ journal'[j].resolution \in {journal[j].resolution, "inconsistent"}
              /\ jobs[j] \in {"succeeded", "failed", "cancelled"} /\ jobs'[j] # jobs[j] =>
                    Pinned(j) /\ journal'[j].resolution = "inconsistent"]_vars
  BY NextIInv DEF AllDecided, Decided
<1> QED
  BY Inductive, <1>1, PTL DEF Spec, DecisionsAreFinal
=============================================================================
