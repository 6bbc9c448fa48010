-------------------------- MODULE AsyncWorkersProofs --------------------------
(***************************************************************************)
(* Proofs about AsyncWorkers: that the workers drive the orchestration     *)
(* database as WorkflowEngine allows, that a handle on record is a job of  *)
(* its own attempt and is never replaced, and, when leases outlive the     *)
(* steps of their processes and no task is retried, that no crash leads to *)
(* a second job of an attempt or to a failure that is not the job's.       *)
(***************************************************************************)
EXTENDS AsyncWorkers, TaskProjectionProofs

-----------------------------------------------------------------------------
(* The inductive invariant.                                                *)

\* The calls of run_once before a submission and during one, and those that
\* are made with a job in hand.
Starting == {"task_request", "attempt_state"}
Submitting == {"mark_submitting", "find_job", "sbatch", "write_receipt",
               "record_submission"}
WithHandle == {"write_receipt", "record_submission", "poll",
               "record_target_status", "collect", "finalize", "complete",
               "cancel", "finalize_canceled"}

JobRow == [name : AttemptIds \cup {<<>>},
           state : {"none"} \cup ActiveJob \cup EndedJob]

AsyncTypes ==
    /\ pc \in [Workers -> PCs]
    /\ handle \in [Workers -> Handles \cup {NoHandle}]
    /\ status \in [Workers -> TargetStates]
    /\ job \in [Handles -> JobRow]
    /\ receipt \in [AttemptIds -> Handles \cup {NoHandle}]
    /\ crashes \in Nat /\ errors \in Nat

\* A job that was submitted has a name.
JobsAreNamed == \A h \in Handles : job[h].name = <<>> <=> job[h].state = "none"

\* An attempt that does not exist yet has no handle.
Blank(att) ==
    \A a \in AttemptIds : att[a].state = "none" => att[a].handle = NoHandle

\* The local variables of a worker fit its lease and the jobs.  A lease of an
\* attempt at the target carries the handle on record; one without a handle
\* is that of an attempt that, while the lease is good, has none.
Local(w) ==
    /\ pc[w] = "idle" <=> lease[w] = NoLease
    /\ pc[w] \in {"idle"} \cup Starting =>
          handle[w] = NoHandle /\ status[w] = "unknown"
    /\ handle[w] # NoHandle => job[handle[w]].name = Attempt(w)
    /\ pc[w] \in WithHandle => handle[w] # NoHandle
    /\ status[w] \in EndedJob =>
          handle[w] # NoHandle /\ job[handle[w]].state = status[w]
    /\ pc[w] \in {"collect", "finalize", "complete"} => status[w] = "succeeded"
    /\ pc[w] \in Submitting => lease[w].handle = NoHandle
    /\ lease[w] # NoLease /\ lease[w].handle # NoHandle =>
          attempt[Attempt(w)].handle = lease[w].handle
    /\ pc[w] \in Starting \cup Submitting /\ HoldsLease(w) =>
          attempt[Attempt(w)].handle = lease[w].handle

AInv ==
    /\ IInv
    /\ AsyncTypes
    /\ JobsAreNamed
    /\ HandleIsOwnJob
    /\ Blank(attempt)
    /\ SuccessHasJob
    /\ \A w \in Workers : Local(w)

\* The empty name of an unused job is not that of an attempt.
LEMMA EmptyName == <<>> \notin AttemptIds
  BY DEF AttemptIds

LEMMA InitAInv == AsyncInit => AInv
  <1> SUFFICES ASSUME AsyncInit PROVE AInv
    OBVIOUS
  <1> USE DEF AsyncInit
  <1>1. IInv
    BY InitIInv
  <1>2. AsyncTypes
    BY DEF AsyncTypes, PCs, TargetStates, JobRow, NoJob
  <1>3. JobsAreNamed
    BY DEF JobsAreNamed, NoJob
  <1>4. HandleIsOwnJob /\ Blank(attempt)
    BY DEF HandleIsOwnJob, Blank, Init, NoAttempt
  <1>5. SuccessHasJob
    BY DEF SuccessHasJob, Init
  <1>6. \A w \in Workers : Local(w)
    BY DEF Local, Init, Starting, Submitting, WithHandle, EndedJob
  <1> QED
    BY <1>1, <1>2, <1>3, <1>4, <1>5, <1>6 DEF AInv

-----------------------------------------------------------------------------
(* What a transaction may do to the rows, whoever calls it.                *)

\* An attempt keeps its handle, and its lease unless that is cleared.
RowKept(a) ==
    /\ attempt'[a].handle = attempt[a].handle
    /\ attempt'[a].state = "none" => attempt[a].state = "none"
    /\ \/ attempt'[a].worker = attempt[a].worker
          /\ attempt'[a].token = attempt[a].token
       \/ attempt'[a].worker = NoWorker /\ attempt'[a].token = NoToken

\* A task is not started and not given a lease.
TaskKept(t) ==
    /\ task'[t].token \in {task[t].token, NoToken}
    /\ task'[t].state = "running" => task[t].state = "running"

\* A result is one that the task had before.
ResultKept(t) ==
    task'[t].state = "succeeded" =>
        task[t].state = "succeeded" /\ task'[t].outputs = task[t].outputs

\* Every other process keeps its lease object.
OthersKeep(w) == \A v \in Workers : v # w => lease'[v] = lease[v]

\* Of the attempts, only the one that w holds is written.
OnlyHeldWritten(w) ==
    \A a \in AttemptIds :
        attempt'[a] # attempt[a] =>
            a = Attempt(w) /\ attempt[a].token = lease[w].token

\* The requests of users.
UserWrites ==
    /\ \A a \in AttemptIds : RowKept(a)
    /\ \A t \in Tasks : TaskKept(t) /\ ResultKept(t)
    /\ lease' = lease

\* The calls of w with its lease, except the two below.
HolderWrites(w) ==
    /\ \A a \in AttemptIds : RowKept(a)
    /\ \A t \in Tasks : TaskKept(t) /\ ResultKept(t)
    /\ OthersKeep(w)
    /\ OnlyHeldWritten(w)

LEMMA SubmitRunWrites ==
    ASSUME IInv, NEW r \in Runs, SubmitRun(r)
    PROVE  UserWrites
  <1>1. task \in [Tasks -> TaskRow]
    BY DEF IInv, Rows, RowTypes
  <1>2. \A t \in Tasks : TaskKept(t) /\ ResultKept(t)
    BY <1>1 DEF SubmitRun, TaskKept, ResultKept, TaskRow
  <1> QED
    BY <1>2 DEF SubmitRun, UserWrites, RowKept

LEMMA RetryTaskWrites ==
    ASSUME IInv, NEW t \in Tasks, RetryTask(t)
    PROVE  UserWrites
  <1>1. task \in [Tasks -> TaskRow]
    BY DEF IInv, Rows, RowTypes
  <1>2. \A u \in Tasks : TaskKept(u) /\ ResultKept(u)
    BY <1>1 DEF RetryTask, TaskKept, ResultKept, TaskRow
  <1> QED
    BY <1>2 DEF RetryTask, UserWrites, RowKept

LEMMA CancelRunWrites ==
    ASSUME IInv, NEW r \in Runs, CancelRun(r)
    PROVE  /\ UserWrites
           /\ \A a \in AttemptIds :
                 attempt[a].handle = NoHandle =>
                     /\ attempt'[a].worker = attempt[a].worker
                     /\ attempt'[a].token = attempt[a].token
  <1>1. task \in [Tasks -> TaskRow] /\ attempt \in [AttemptIds -> AttemptRow]
    BY DEF IInv, Rows, RowTypes
  <1>2. \A t \in Tasks : TaskKept(t) /\ ResultKept(t)
    <2> TAKE t \in Tasks
    <2>1. task[t] \in TaskRow
      BY <1>1
    <2>2. \/ task'[t] = task[t]
          \/ task'[t] = [task[t] EXCEPT !.state = "canceled",
                                        !.token = NoToken]
      BY DEF CancelRun
    <2> QED
      BY <2>1, <2>2 DEF TaskKept, ResultKept, TaskRow
  <1>3. \A a \in AttemptIds :
           /\ RowKept(a)
           /\ attempt[a].handle = NoHandle =>
                 /\ attempt'[a].worker = attempt[a].worker
                 /\ attempt'[a].token = attempt[a].token
    <2> TAKE a \in AttemptIds
    <2>1. attempt[a] \in AttemptRow
      BY <1>1
    <2>2. \/ attempt'[a] = attempt[a]
          \/ attempt'[a] = CanceledAttempt(attempt[a])
      BY DEF CancelRun
    <2> QED
      BY <2>1, <2>2 DEF RowKept, AttemptRow, CanceledAttempt, Unleased,
         CancelableStates
  <1> QED
    BY <1>2, <1>3 DEF CancelRun, UserWrites

-----------------------------------------------------------------------------
(* The calls of a lease holder.                                            *)

\* A call that writes the row of the attempt that w holds, and no task.
LEMMA HeldRowWrites ==
    ASSUME IInv, NEW w \in Workers, lease[w] # NoLease,
           attempt[Attempt(w)].token = lease[w].token,
           NEW row, attempt' = [attempt EXCEPT ![Attempt(w)] = row],
           row.handle = attempt[Attempt(w)].handle, row.state # "none",
           \/ row.worker = attempt[Attempt(w)].worker
              /\ row.token = attempt[Attempt(w)].token
           \/ row.worker = NoWorker /\ row.token = NoToken
    PROVE  (\A a \in AttemptIds : RowKept(a)) /\ OnlyHeldWritten(w)
  <1>1. attempt \in [AttemptIds -> AttemptRow] /\ Attempt(w) \in AttemptIds
    BY HeldIsLive DEF IInv, Rows, RowTypes, Attempt
  <1>2. \A a \in AttemptIds :
           attempt'[a] = IF a = Attempt(w) THEN row ELSE attempt[a]
    BY <1>1
  <1> QED
    BY <1>2 DEF RowKept, OnlyHeldWritten

LEMMA MarkSubmittingWrites ==
    ASSUME IInv, NEW w \in Workers, MarkSubmitting(w)
    PROVE  HolderWrites(w)
  <1> DEFINE row == [attempt[Attempt(w)] EXCEPT !.state =
                       IF @ = "cancel_requested" THEN @ ELSE "submitting"]
  <1>1. attempt[Attempt(w)] \in AttemptRow
    BY HeldIsLive DEF MarkSubmitting, HoldsLease, Attempt
  <1>2. /\ row.handle = attempt[Attempt(w)].handle /\ row.state # "none"
        /\ row.worker = attempt[Attempt(w)].worker
        /\ row.token = attempt[Attempt(w)].token
    BY <1>1 DEF AttemptRow
  <1>3. /\ attempt' = [attempt EXCEPT ![Attempt(w)] = row]
        /\ UNCHANGED <<task, lease>>
    BY DEF MarkSubmitting, Attempt
  <1> HIDE DEF row
  <1>4. (\A a \in AttemptIds : RowKept(a)) /\ OnlyHeldWritten(w)
    BY <1>2, <1>3, HeldRowWrites DEF MarkSubmitting, HoldsLease, Attempt
  <1> QED
    BY <1>3, <1>4 DEF HolderWrites, TaskKept, ResultKept, OthersKeep

LEMMA RecordTargetStatusWrites ==
    ASSUME IInv, NEW w \in Workers, NEW s \in TargetStates,
           RecordTargetStatus(w, s)
    PROVE  HolderWrites(w)
  <1> DEFINE row == [attempt[Attempt(w)] EXCEPT !.state = PolledState(@, s)]
  <1>1. /\ attempt[Attempt(w)] \in AttemptRow
        /\ attempt[Attempt(w)].state \in LiveStates
    BY HeldIsLive DEF RecordTargetStatus, HoldsLease, Attempt
  <1>2. /\ row.handle = attempt[Attempt(w)].handle /\ row.state # "none"
        /\ row.worker = attempt[Attempt(w)].worker
        /\ row.token = attempt[Attempt(w)].token
    BY <1>1 DEF AttemptRow, PolledState, LiveStates
  <1>3. /\ attempt' = [attempt EXCEPT ![Attempt(w)] = row]
        /\ UNCHANGED <<task, lease>>
    BY DEF RecordTargetStatus, Attempt
  <1> HIDE DEF row
  <1>4. (\A a \in AttemptIds : RowKept(a)) /\ OnlyHeldWritten(w)
    BY <1>2, <1>3, HeldRowWrites DEF RecordTargetStatus, HoldsLease, Attempt
  <1> QED
    BY <1>3, <1>4 DEF HolderWrites, TaskKept, ResultKept, OthersKeep

\* record_submission is the one call that writes a handle.
LEMMA RecordSubmissionWrites ==
    ASSUME IInv, NEW w \in Workers, NEW h \in Handles, NEW s \in TargetStates,
           RecordSubmission(w, h, s)
    PROVE  /\ \A a \in AttemptIds : a # Attempt(w) => attempt'[a] = attempt[a]
           /\ attempt'[Attempt(w)].handle = h
           /\ attempt'[Attempt(w)].state # "none"
           /\ attempt'[Attempt(w)].worker = attempt[Attempt(w)].worker
           /\ attempt'[Attempt(w)].token = attempt[Attempt(w)].token
           /\ attempt'[Attempt(w)].state =
                 IF attempt[Attempt(w)].state = "cancel_requested"
                 THEN "cancel_requested" ELSE SubmittedState(s)
           /\ UNCHANGED <<run, task, lease>>
           /\ Attempt(w) \in AttemptIds
  <1> DEFINE a == Attempt(w)
             row == [attempt[a] EXCEPT !.handle = h,
                       !.state = IF @ = "cancel_requested" THEN @
                                 ELSE SubmittedState(s)]
  <1>1. /\ attempt[a] \in AttemptRow /\ a \in AttemptIds
        /\ attempt \in [AttemptIds -> AttemptRow]
    BY HeldIsLive DEF RecordSubmission, HoldsLease, Attempt, IInv, Rows, RowTypes
  <1>2. attempt' = [attempt EXCEPT ![a] = row] /\ UNCHANGED <<run, task, lease>>
    BY <1>1 DEF RecordSubmission, Attempt
  <1>3. SubmittedState(s) # "none"
    BY DEF SubmittedState
  <1>4. /\ row.handle = h /\ row.state # "none"
        /\ row.worker = attempt[a].worker /\ row.token = attempt[a].token
        /\ row.state = IF attempt[a].state = "cancel_requested"
                       THEN "cancel_requested" ELSE SubmittedState(s)
    BY <1>1, <1>3 DEF AttemptRow
  <1> HIDE DEF row
  <1> QED
    BY <1>1, <1>2, <1>4

LEMMA ReleaseLeaseWrites ==
    ASSUME IInv, NEW w \in Workers, ReleaseLease(w)
    PROVE  HolderWrites(w)
  <1> DEFINE a == Attempt(w)
  <1>1. /\ attempt[a] \in AttemptRow /\ a \in AttemptIds
        /\ attempt[a].state \in LiveStates /\ a[1] \in Tasks
        /\ task \in [Tasks -> TaskRow]
        /\ lease \in [Workers -> Lease \cup {NoLease}]
    BY HeldIsLive, AttemptIdFacts
       DEF ReleaseLease, HoldsLease, Attempt, IInv, Rows, RowTypes
  <1>2. /\ Unleased(attempt[a]).handle = attempt[a].handle
        /\ Unleased(attempt[a]).state # "none"
        /\ Unleased(attempt[a]).worker = NoWorker
        /\ Unleased(attempt[a]).token = NoToken
    BY <1>1 DEF Unleased, AttemptRow, LiveStates
  <1>3. attempt' = [attempt EXCEPT ![a] = Unleased(attempt[a])]
    BY DEF ReleaseLease, Attempt
  <1>4. (\A b \in AttemptIds : RowKept(b)) /\ OnlyHeldWritten(w)
    BY <1>2, <1>3, HeldRowWrites DEF ReleaseLease, HoldsLease, Attempt
  <1>5. \A t \in Tasks : TaskKept(t) /\ ResultKept(t)
    <2> TAKE t \in Tasks
    <2> DEFINE k == IF task[t].token = lease[w].token THEN NoToken
                    ELSE task[t].token
    <2>1. \/ task'[t] = task[t]
          \/ task'[t] = [task[t] EXCEPT !.token = k]
      BY <1>1 DEF ReleaseLease, Attempt
    <2>2. task[t] \in TaskRow /\ k \in {task[t].token, NoToken}
      BY <1>1
    <2> HIDE DEF k
    <2> QED
      BY <2>1, <2>2 DEF TaskKept, ResultKept, TaskRow
  <1>6. OthersKeep(w)
    BY <1>1 DEF ReleaseLease, OthersKeep
  <1> QED
    BY <1>4, <1>5, <1>6 DEF HolderWrites

LEMMA MarkAttemptCanceledWrites ==
    ASSUME IInv, NEW w \in Workers, MarkAttemptCanceled(w)
    PROVE  HolderWrites(w)
  <1> DEFINE a == Attempt(w)
             row == [Unleased(attempt[a]) EXCEPT !.state = "canceled"]
  <1>1. /\ attempt[a] \in AttemptRow /\ a \in AttemptIds /\ a[1] \in Tasks
        /\ task \in [Tasks -> TaskRow]
        /\ lease \in [Workers -> Lease \cup {NoLease}]
    BY HeldIsLive, AttemptIdFacts
       DEF MarkAttemptCanceled, HoldsLease, Attempt, IInv, Rows, RowTypes
  <1>2. /\ row.handle = attempt[a].handle /\ row.state = "canceled"
        /\ row.worker = NoWorker /\ row.token = NoToken
    BY <1>1 DEF Unleased, AttemptRow
  <1>3. attempt' = [attempt EXCEPT ![a] = row]
    BY DEF MarkAttemptCanceled, Attempt
  <1> HIDE DEF row
  <1>4. (\A b \in AttemptIds : RowKept(b)) /\ OnlyHeldWritten(w)
    BY <1>2, <1>3, HeldRowWrites DEF MarkAttemptCanceled, HoldsLease, Attempt
  <1>5. \A t \in Tasks : TaskKept(t) /\ ResultKept(t)
    <2> TAKE t \in Tasks
    <2>1. \/ task'[t] = task[t]
          \/ task'[t] = [task[t] EXCEPT !.state = "canceled",
                                        !.token = NoToken]
      BY <1>1 DEF MarkAttemptCanceled, Attempt
    <2>2. task[t] \in TaskRow
      BY <1>1
    <2> QED
      BY <2>1, <2>2 DEF TaskKept, ResultKept, TaskRow
  <1>6. OthersKeep(w)
    BY <1>1 DEF MarkAttemptCanceled, OthersKeep
  <1> QED
    BY <1>4, <1>5, <1>6 DEF HolderWrites

LEMMA LoseProcessWrites ==
    ASSUME IInv, NEW w \in Workers, LoseProcess(w)
    PROVE  HolderWrites(w)
  <1>1. lease \in [Workers -> Lease \cup {NoLease}]
    BY DEF IInv
  <1> QED
    BY <1>1 DEF LoseProcess, HolderWrites, RowKept, TaskKept, ResultKept,
       OthersKeep, OnlyHeldWritten

LEMMA FailTaskWrites ==
    ASSUME IInv, NEW w \in Workers, FailTask(w)
    PROVE  /\ HolderWrites(w)
           /\ \A a \in AttemptIds :
                 attempt'[a].state = "failed" =>
                     attempt[a].state = "failed"
                       \/ (a = Attempt(w) /\ SettlesTask(w))
  <1> DEFINE a == Attempt(w)
             row == [Unleased(attempt[a]) EXCEPT !.state = "failed"]
  <1>0. /\ task \in [Tasks -> TaskRow] /\ attempt \in [AttemptIds -> AttemptRow]
        /\ lease \in [Workers -> Lease \cup {NoLease}]
    BY DEF IInv, Rows, RowTypes
  <1>1. OthersKeep(w)
    BY <1>0 DEF FailTask, OthersKeep
  <1>2. CASE UNCHANGED <<run, task, attempt>>
    BY <1>1, <1>2 DEF HolderWrites, RowKept, TaskKept, ResultKept,
       OnlyHeldWritten
  <1>3. CASE /\ SettlesTask(w)
             /\ attempt' = [attempt EXCEPT ![a] = row]
             /\ task' = [task EXCEPT ![a[1]].state = "failed",
                                     ![a[1]].token = NoToken]
    <2>1. /\ attempt[a] \in AttemptRow /\ a \in AttemptIds /\ a[1] \in Tasks
          /\ lease[w] # NoLease
      BY <1>3, HeldIsLive, AttemptIdFacts DEF FailTask, SettlesTask, Attempt
    <2>2. /\ row.handle = attempt[a].handle /\ row.state = "failed"
          /\ row.worker = NoWorker /\ row.token = NoToken
      BY <2>1 DEF Unleased, AttemptRow
    <2> HIDE DEF row
    <2>3. (\A b \in AttemptIds : RowKept(b)) /\ OnlyHeldWritten(w)
      BY <1>3, <2>1, <2>2, HeldRowWrites DEF SettlesTask, Attempt
    <2>4. \A t \in Tasks : TaskKept(t) /\ ResultKept(t)
      <3> TAKE t \in Tasks
      <3>1. \/ task'[t] = task[t]
            \/ task'[t] = [task[t] EXCEPT !.state = "failed",
                                          !.token = NoToken]
        BY <1>0, <1>3, <2>1
      <3>2. task[t] \in TaskRow
        BY <1>0
      <3> QED
        BY <3>1, <3>2 DEF TaskKept, ResultKept, TaskRow
    <2>5. \A b \in AttemptIds : b # a => attempt'[b] = attempt[b]
      BY <1>0, <1>3
    <2> QED
      BY <1>1, <1>3, <2>3, <2>4, <2>5 DEF HolderWrites
  <1> QED
    BY <1>2, <1>3 DEF FailTask, Attempt

\* complete_task is the one call that writes a result, that of its attempt.
LEMMA CompleteTaskWrites ==
    ASSUME IInv, NEW w \in Workers, CompleteTask(w)
    PROVE  /\ \A a \in AttemptIds : RowKept(a)
           /\ \A t \in Tasks :
                 /\ TaskKept(t)
                 /\ \/ ResultKept(t)
                    \/ t = Attempt(w)[1] /\ task'[t].outputs = Attempt(w)[2]
           /\ OthersKeep(w) /\ OnlyHeldWritten(w)
           /\ \A a \in AttemptIds :
                 attempt'[a].state = "failed" => attempt[a].state = "failed"
  <1> DEFINE a == Attempt(w)
             row == [Unleased(attempt[a]) EXCEPT !.state = "succeeded"]
  <1>0. /\ task \in [Tasks -> TaskRow] /\ attempt \in [AttemptIds -> AttemptRow]
        /\ lease \in [Workers -> Lease \cup {NoLease}]
    BY DEF IInv, Rows, RowTypes
  <1>1. OthersKeep(w)
    BY <1>0 DEF CompleteTask, OthersKeep
  <1>2. CASE UNCHANGED <<run, task, attempt>>
    BY <1>1, <1>2 DEF RowKept, TaskKept, ResultKept, OnlyHeldWritten
  <1>3. CASE /\ SettlesTask(w)
             /\ task' = [task EXCEPT ![a[1]] = CompletedTask(@, a[2])]
             /\ attempt' = [attempt EXCEPT ![a] = row]
    <2>1. /\ attempt[a] \in AttemptRow /\ a \in AttemptIds /\ a[1] \in Tasks
          /\ lease[w] # NoLease
      BY <1>3, HeldIsLive, AttemptIdFacts DEF CompleteTask, SettlesTask, Attempt
    <2>2. /\ row.handle = attempt[a].handle /\ row.state = "succeeded"
          /\ row.worker = NoWorker /\ row.token = NoToken
      BY <2>1 DEF Unleased, AttemptRow
    <2> HIDE DEF row
    <2>3. (\A b \in AttemptIds : RowKept(b)) /\ OnlyHeldWritten(w)
      BY <1>3, <2>1, <2>2, HeldRowWrites DEF SettlesTask, Attempt
    <2>4. \A t \in Tasks :
             /\ TaskKept(t)
             /\ ResultKept(t) \/ (t = a[1] /\ task'[t].outputs = a[2])
      <3> TAKE t \in Tasks
      <3>1. \/ task'[t] = task[t]
            \/ t = a[1] /\ task'[t] = CompletedTask(task[t], a[2])
        BY <1>0, <1>3, <2>1
      <3>2. task[t] \in TaskRow
        BY <1>0
      <3> HIDE DEF a
      <3> QED
        BY <3>1, <3>2 DEF TaskKept, ResultKept, TaskRow, CompletedTask
    <2>5. \A b \in AttemptIds :
             attempt'[b] = IF b = a THEN row ELSE attempt[b]
      BY <1>0, <1>3
    <2> QED
      BY <1>1, <2>2, <2>3, <2>4, <2>5
  <1> QED
    BY <1>2, <1>3 DEF CompleteTask, Attempt

-----------------------------------------------------------------------------
(* claim_task.                                                             *)

\* The attempt and the task whose lease process w was granted.
RowTaken(a, w) ==
    /\ Tokens \ TokensInUse # {}
    /\ attempt'[a].handle = attempt[a].handle
    /\ attempt'[a].state # "none"
    /\ attempt'[a].worker = w /\ attempt'[a].token = FreshToken

TaskTaken(t) == Tokens \ TokensInUse # {} /\ task'[t].token = FreshToken

\* The lease that w was granted is the one on its attempt.
LeaseTaken(w) ==
    /\ lease'[w] \in Lease
    /\ RowTaken(lease'[w].attempt, w)
    /\ lease'[w].token = FreshToken
    /\ lease'[w].handle = attempt'[lease'[w].attempt].handle

ClaimWrites(w) ==
    /\ \A a \in AttemptIds : RowKept(a) \/ RowTaken(a, w)
    /\ \A t \in Tasks : ResultKept(t) /\ (TaskKept(t) \/ TaskTaken(t))
    /\ OthersKeep(w)
    /\ lease' = lease \/ LeaseTaken(w)

\* What the reset of expired leases does to an attempt and to a task.
LEMMA ResetRow ==
    ASSUME Rows(run, task, attempt), NEW E, NEW a \in AttemptIds
    PROVE  LET new == AttemptsAfterReset(E)[a] IN
           \/ new = attempt[a]
           \/ /\ a[1] \in ExpiredTasks(E) /\ a = Current(a[1])
              /\ new.handle = attempt[a].handle /\ new.state # "none"
              /\ new.worker = NoWorker /\ new.token = NoToken
  <1>1. CASE a[1] \notin ExpiredTasks(E) \/ a # Current(a[1])
    BY <1>1 DEF AttemptsAfterReset
  <1>2. CASE a[1] \in ExpiredTasks(E) /\ a = Current(a[1])
    <2>1. attempt[a] \in AttemptRow
      BY DEF Rows, RowTypes
    <2>2. AttemptsAfterReset(E)[a].worker = NoWorker
      BY <1>2, <2>1 DEF AttemptsAfterReset, Unleased, AttemptRow
    <2>3. AttemptsAfterReset(E)[a] = attempt[a]
          \/ /\ AttemptsAfterReset(E)[a].handle = attempt[a].handle
             /\ AttemptsAfterReset(E)[a].token = NoToken
             /\ AttemptsAfterReset(E)[a].state # "none"
      BY ResetAttempt DEF LiveStates
    <2> QED
      BY <1>2, <2>2, <2>3
  <1> QED
    BY <1>1, <1>2

LEMMA ResetTaskRow ==
    ASSUME Rows(run, task, attempt), NEW E, NEW t \in Tasks
    PROVE  LET new == TasksAfterReset(E)[t] IN
           /\ new \in TaskRow
           /\ new.token \in {task[t].token, NoToken}
           /\ new.outputs = task[t].outputs
           /\ new.state \in {task[t].state, "pending"}
  <1>1. task[t] \in TaskRow
    BY DEF Rows, RowTypes
  <1>2. TasksAfterReset(E)[t].token \in {task[t].token, NoToken}
    BY <1>1 DEF TasksAfterReset, TaskRow
  <1> QED
    BY <1>2, ResetTask

LEMMA ClaimNothingWrites ==
    ASSUME IInv, NEW w \in Workers, NEW E, ClaimNothing(w, E)
    PROVE  ClaimWrites(w)
  <1>1. Rows(run, task, attempt)
    BY DEF IInv
  <1>2. /\ attempt' = AttemptsAfterReset(E) /\ task' = TasksAfterReset(E)
        /\ lease' = lease
    BY DEF ClaimNothing
  <1>3. \A a \in AttemptIds : RowKept(a)
    BY <1>1, <1>2, ResetRow DEF RowKept
  <1>4. \A t \in Tasks : ResultKept(t) /\ TaskKept(t)
    BY <1>1, <1>2, ResetTaskRow DEF ResultKept, TaskKept
  <1> QED
    BY <1>2, <1>3, <1>4 DEF ClaimWrites, OthersKeep

LEMMA ClaimRecoveredWrites ==
    ASSUME IInv, NEW w \in Workers, NEW E, ClaimRecovered(w, E)
    PROVE  ClaimWrites(w)
  <1> DEFINE att == AttemptsAfterReset(E)
             tsk == TasksAfterReset(E)
  <1>1. /\ Rows(run, task, attempt) /\ Rows(run, tsk, att)
        /\ lease \in [Workers -> Lease \cup {NoLease}]
    BY ResetInv DEF IInv
  <1>2. \A b \in AttemptIds :
           \/ att[b] = attempt[b]
           \/ /\ att[b].handle = attempt[b].handle /\ att[b].state # "none"
              /\ att[b].worker = NoWorker /\ att[b].token = NoToken
    BY <1>1, ResetRow
  <1>3. \A t \in Tasks :
           /\ tsk[t] \in TaskRow
           /\ tsk[t].token \in {task[t].token, NoToken}
           /\ tsk[t].outputs = task[t].outputs
           /\ tsk[t].state \in {task[t].state, "pending"}
    BY <1>1, ResetTaskRow
  <1> HIDE DEF att, tsk
  <1>4. PICK a \in Recoverable(w, att) : Recover(w, a, att, tsk)
    BY DEF ClaimRecovered, att, tsk
  <1>5. Tokens \ TokensInUse # {} /\ FreshToken \in Tokens
    BY FreshTokenFacts DEF ClaimRecovered
  <1>6. /\ a \in AttemptIds /\ att[a].state # "none" /\ a[1] \in Tasks
        /\ att[a] \in AttemptRow /\ att \in [AttemptIds -> AttemptRow]
        /\ tsk \in [Tasks -> TaskRow]
    BY <1>1, <1>4, AttemptIdFacts DEF Recoverable, Rows, RowTypes
  <1> DEFINE row == [att[a] EXCEPT !.worker = w, !.token = FreshToken]
             l == [attempt |-> a, token |-> FreshToken, handle |-> att[a].handle]
  <1>7. /\ attempt' = [att EXCEPT ![a] = row]
        /\ task' = [tsk EXCEPT ![a[1]].token = FreshToken]
        /\ lease' = [lease EXCEPT ![w] = l]
    BY <1>4, <1>6 DEF Recover
  <1>8. /\ row.handle = att[a].handle /\ row.state # "none"
        /\ row.worker = w /\ row.token = FreshToken
    BY <1>6 DEF AttemptRow
  <1>9. l \in Lease /\ l.attempt = a /\ l.token = FreshToken
        /\ l.handle = att[a].handle
    BY <1>5, <1>6 DEF AttemptRow, Lease
  <1> HIDE DEF row, l
  <1>10. \A b \in AttemptIds : attempt'[b] = IF b = a THEN row ELSE att[b]
    BY <1>6, <1>7
  <1>11. \A b \in AttemptIds : RowKept(b) \/ RowTaken(b, w)
    BY <1>2, <1>5, <1>8, <1>10 DEF RowKept, RowTaken
  <1>12. \A t \in Tasks : ResultKept(t) /\ (TaskKept(t) \/ TaskTaken(t))
    <2> TAKE t \in Tasks
    <2>1. \/ t # a[1] /\ task'[t] = tsk[t]
          \/ task'[t] = [tsk[t] EXCEPT !.token = FreshToken]
      BY <1>6, <1>7
    <2>2. /\ task'[t].outputs = tsk[t].outputs /\ task'[t].state = tsk[t].state
          /\ task'[t].token = tsk[t].token \/ task'[t].token = FreshToken
      BY <1>3, <2>1 DEF TaskRow
    <2> QED
      BY <1>3, <1>5, <2>2 DEF ResultKept, TaskKept, TaskTaken
  <1>13. lease'[w] = l /\ OthersKeep(w)
    BY <1>1, <1>7 DEF OthersKeep
  <1>14. RowTaken(a, w) /\ attempt'[a].handle = l.handle
    BY <1>2, <1>5, <1>6, <1>8, <1>9, <1>10 DEF RowTaken
  <1>15. LeaseTaken(w)
    BY <1>9, <1>13, <1>14 DEF LeaseTaken
  <1> QED
    BY <1>11, <1>12, <1>13, <1>15 DEF ClaimWrites

LEMMA ClaimReadyWrites ==
    ASSUME IInv, Blank(attempt), NEW w \in Workers, NEW E, ClaimReady(w, E)
    PROVE  ClaimWrites(w)
  <1> DEFINE att == AttemptsAfterReset(E)
             tsk == TasksAfterReset(E)
  <1>1. /\ Rows(run, task, attempt) /\ Rows(run, tsk, att)
        /\ lease \in [Workers -> Lease \cup {NoLease}]
    BY ResetInv DEF IInv
  <1>2. \A b \in AttemptIds :
           \/ att[b] = attempt[b]
           \/ /\ att[b].handle = attempt[b].handle /\ att[b].state # "none"
              /\ att[b].worker = NoWorker /\ att[b].token = NoToken
    BY <1>1, ResetRow
  <1>3. \A t \in Tasks :
           /\ tsk[t] \in TaskRow
           /\ tsk[t].token \in {task[t].token, NoToken}
           /\ tsk[t].outputs = task[t].outputs
           /\ tsk[t].state \in {task[t].state, "pending"}
    BY <1>1, ResetTaskRow
  <1> HIDE DEF att, tsk
  <1>4. PICK t \in Ready(w, tsk) : Start(w, t, att, tsk)
    BY DEF ClaimReady, att, tsk
  <1>5. Tokens \ TokensInUse # {} /\ FreshToken \in Tokens
    BY FreshTokenFacts DEF ClaimReady
  <1>6. /\ t \in Tasks /\ tsk[t].attempt < MaxAttempts /\ tsk[t] \in TaskRow
        /\ att \in [AttemptIds -> AttemptRow] /\ tsk \in [Tasks -> TaskRow]
    BY <1>1, <1>4 DEF Ready, Rows, RowTypes
  <1> DEFINE n == tsk[t].attempt + 1
             a == <<t, n>>
             row == [state |-> "leased", worker |-> w, token |-> FreshToken,
                     handle |-> NoHandle, startedAt |-> clock + 1]
             trow == [tsk[t] EXCEPT !.state = "running", !.attempt = n,
                                    !.token = FreshToken]
             l == [attempt |-> a, token |-> FreshToken, handle |-> NoHandle]
  <1>7. a \in AttemptIds /\ n > tsk[t].attempt /\ n \in Numbers
    <2>1. tsk[t].attempt \in 0 .. MaxAttempts
      BY <1>6 DEF TaskRow
    <2>2. n \in Numbers /\ n > tsk[t].attempt
      BY <1>6, <2>1, ConstantFacts DEF Numbers
    <2> QED
      BY <1>6, <2>2, AttemptIdFacts
  <1>8. attempt[a].handle = NoHandle
    <2>1. att[a].state = "none"
      BY <1>1, <1>6, <1>7 DEF Rows, NumberedInOrder
    <2>2. att[a] = attempt[a]
      BY <1>2, <1>7, <2>1
    <2> QED
      BY <1>7, <2>1, <2>2 DEF Blank
  <1>9. /\ attempt' = [att EXCEPT ![a] = row]
        /\ task' = [tsk EXCEPT ![t] = trow]
        /\ lease' = [lease EXCEPT ![w] = l]
    BY <1>4, <1>6 DEF Start
  <1>10. /\ row.handle = NoHandle /\ row.state = "leased"
         /\ row.worker = w /\ row.token = FreshToken
    OBVIOUS
  <1>11. l \in Lease /\ l.attempt = a /\ l.token = FreshToken
         /\ l.handle = NoHandle
    BY <1>5, <1>7 DEF Lease
  <1>12. trow.state = "running" /\ trow.token = FreshToken
    <2> HIDE DEF n
    <2> QED
      BY <1>6 DEF TaskRow
  <1> HIDE DEF row, l, trow, a
  <1>13. \A b \in AttemptIds : attempt'[b] = IF b = a THEN row ELSE att[b]
    BY <1>6, <1>9
  <1>14. \A b \in AttemptIds : RowKept(b) \/ RowTaken(b, w)
    <2> TAKE b \in AttemptIds
    <2>1. CASE b = a
      BY <1>5, <1>7, <1>8, <1>10, <1>13, <2>1 DEF RowTaken
    <2>2. CASE b # a
      BY <1>2, <1>13, <2>2 DEF RowKept
    <2> QED
      BY <2>1, <2>2
  <1>15. \A u \in Tasks : ResultKept(u) /\ (TaskKept(u) \/ TaskTaken(u))
    <2> TAKE u \in Tasks
    <2>1. CASE u = t
      <3>1. task'[u] = trow
        BY <1>6, <1>9, <2>1
      <3> QED
        BY <1>5, <1>12, <3>1 DEF ResultKept, TaskTaken
    <2>2. CASE u # t
      <3>1. task'[u] = tsk[u]
        BY <1>6, <1>9, <2>2
      <3> QED
        BY <1>3, <3>1 DEF ResultKept, TaskKept
    <2> QED
      BY <2>1, <2>2
  <1>16. lease'[w] = l /\ OthersKeep(w)
    BY <1>1, <1>9 DEF OthersKeep
  <1>17. RowTaken(a, w) /\ attempt'[a].handle = NoHandle
    BY <1>5, <1>7, <1>8, <1>10, <1>13 DEF RowTaken
  <1>18. LeaseTaken(w)
    BY <1>11, <1>16, <1>17 DEF LeaseTaken
  <1> QED
    BY <1>14, <1>15, <1>16, <1>18 DEF ClaimWrites

LEMMA ClaimTaskWrites ==
    ASSUME IInv, Blank(attempt), NEW w \in Workers, NEW E, ClaimTask(w, E)
    PROVE  ClaimWrites(w) /\ lease[w] = NoLease
  BY ClaimNothingWrites, ClaimRecoveredWrites, ClaimReadyWrites
     DEF ClaimTask, ClaimNothing, ClaimRecovered, ClaimReady

-----------------------------------------------------------------------------
(* What steps have in common.                                              *)

AttemptsKept ==
    \A a \in AttemptIds : RowKept(a) \/ \E w \in Workers : RowTaken(a, w)

\* A job keeps its name, and its state once it has ended.
JobsForward ==
    \A h \in Handles :
        /\ job[h].name # <<>> => job'[h].name = job[h].name
        /\ job[h].state \in EndedJob => job'[h].state = job[h].state

\* The receipts name jobs of their own attempts.
ReceiptsOwn(rec, jobs) ==
    \A a \in AttemptIds : rec[a] # NoHandle => jobs[rec[a]].name = a

\* No step gives a process a lease that it already lost.
LEMMA LostIsLost ==
    ASSUME IInv, NEW v \in Workers, lease'[v] = lease[v], AttemptsKept,
           HoldsLease(v)'
    PROVE  /\ HoldsLease(v)
           /\ attempt'[Attempt(v)].handle = attempt[Attempt(v)].handle
  <1>1. /\ lease[v] # NoLease /\ lease[v] \in Lease
        /\ attempt'[Attempt(v)].worker = v
        /\ attempt'[Attempt(v)].token = lease[v].token
    BY DEF HoldsLease, Attempt, IInv
  <1>2. Attempt(v) \in AttemptIds /\ lease[v].token # NoToken
    BY <1>1, ConstantFacts DEF Lease, Attempt
  <1>3. \A w \in Workers : ~RowTaken(Attempt(v), w)
    BY <1>1, FreshTokenFacts DEF RowTaken
  <1>4. RowKept(Attempt(v))
    BY <1>2, <1>3 DEF AttemptsKept
  <1> QED
    BY <1>1, <1>2, <1>4 DEF RowKept, HoldsLease, Attempt

\* A process that does not act keeps what fits its lease.
LEMMA OtherLocal ==
    ASSUME AInv, NEW v \in Workers, JobsForward,
           pc'[v] = pc[v], handle'[v] = handle[v], status'[v] = status[v],
           lease'[v] = lease[v],
           lease[v] # NoLease =>
               (attempt[Attempt(v)].handle # NoHandle =>
                  attempt'[Attempt(v)].handle = attempt[Attempt(v)].handle),
           HoldsLease(v)' =>
               /\ HoldsLease(v)
               /\ attempt'[Attempt(v)].handle = attempt[Attempt(v)].handle
    PROVE  Local(v)'
  <1>1. /\ Local(v) /\ handle[v] \in Handles \cup {NoHandle}
        /\ lease[v] \in Lease \cup {NoLease}
    BY DEF AInv, AsyncTypes, IInv
  <1>2. Attempt(v)' = Attempt(v)
    BY DEF Attempt
  <1>3. lease[v] # NoLease => Attempt(v) \in AttemptIds
    BY <1>1 DEF Attempt, Lease
  <1>4. handle[v] # NoHandle =>
           /\ job'[handle[v]].name = Attempt(v)
           /\ job[handle[v]].state \in EndedJob =>
                 job'[handle[v]].state = job[handle[v]].state
    <2> SUFFICES ASSUME handle[v] # NoHandle
                 PROVE  /\ job'[handle[v]].name = Attempt(v)
                        /\ job[handle[v]].state \in EndedJob =>
                              job'[handle[v]].state = job[handle[v]].state
      OBVIOUS
    <2>1. job[handle[v]].name = Attempt(v) /\ lease[v] # NoLease
      BY <1>1 DEF Local
    <2>2. job[handle[v]].name # <<>>
      BY <1>3, <2>1, EmptyName
    <2> QED
      BY <1>1, <2>1, <2>2 DEF JobsForward
  <1>5. /\ handle'[v] # NoHandle => job'[handle'[v]].name = Attempt(v)'
        /\ status'[v] \in EndedJob =>
              handle'[v] # NoHandle /\ job'[handle'[v]].state = status'[v]
    BY <1>1, <1>2, <1>4 DEF Local
  <1>6. lease'[v] # NoLease /\ lease'[v].handle # NoHandle =>
           attempt'[Attempt(v)'].handle = lease'[v].handle
    BY <1>1, <1>2 DEF Local
  <1>7. pc'[v] \in Starting \cup Submitting /\ HoldsLease(v)' =>
           attempt'[Attempt(v)'].handle = lease'[v].handle
    BY <1>1, <1>2 DEF Local
  <1>8. /\ pc'[v] = "idle" <=> lease'[v] = NoLease
        /\ pc'[v] \in {"idle"} \cup Starting =>
              handle'[v] = NoHandle /\ status'[v] = "unknown"
        /\ pc'[v] \in WithHandle => handle'[v] # NoHandle
        /\ pc'[v] \in {"collect", "finalize", "complete"} =>
              status'[v] = "succeeded"
        /\ pc'[v] \in Submitting => lease'[v].handle = NoHandle
    BY <1>1 DEF Local
  <1> QED
    BY <1>5, <1>6, <1>7, <1>8 DEF Local

\* Handles and results stay with the jobs they name.
LEMMA NamesKept ==
    ASSUME AInv, JobsForward, ReceiptsOwn(receipt', job'),
           \A a \in AttemptIds :
               /\ attempt'[a].handle # NoHandle =>
                     attempt'[a].handle \in Handles
                       /\ job'[attempt'[a].handle].name = a
               /\ attempt'[a].state = "none" => attempt'[a].handle = NoHandle,
           \A t \in Tasks : ResultKept(t)
    PROVE  HandleIsOwnJob' /\ Blank(attempt') /\ SuccessHasJob'
  <1>1. HandleIsOwnJob'
    BY DEF HandleIsOwnJob, ReceiptsOwn
  <1>2. Blank(attempt')
    BY DEF Blank
  <1>3. SuccessHasJob'
    <2> SUFFICES ASSUME NEW t \in Tasks, task'[t].state = "succeeded"
                 PROVE  \E h \in Handles :
                           /\ job'[h].name = <<t, task'[t].outputs>>
                           /\ job'[h].state = "succeeded"
      BY DEF SuccessHasJob
    <2>1. task[t].state = "succeeded" /\ task'[t].outputs = task[t].outputs
      BY DEF ResultKept
    <2>2. PICK h \in Handles : /\ job[h].name = <<t, task[t].outputs>>
                               /\ job[h].state = "succeeded"
      BY <2>1 DEF AInv, SuccessHasJob
    <2>3. job[h].name # <<>>
      BY <2>2 DEF AInv, JobsAreNamed
    <2>4. job'[h].name = job[h].name /\ job'[h].state = job[h].state
      BY <2>2, <2>3 DEF JobsForward, EndedJob
    <2> QED
      BY <2>1, <2>2, <2>4
  <1> QED
    BY <1>1, <1>2, <1>3

\* The same for a step that writes no handle.
LEMMA NamesKeptByRows ==
    ASSUME AInv, JobsForward, ReceiptsOwn(receipt', job'), AttemptsKept,
           \A t \in Tasks : ResultKept(t)
    PROVE  HandleIsOwnJob' /\ Blank(attempt') /\ SuccessHasJob'
  <1> SUFFICES ASSUME NEW a \in AttemptIds
               PROVE  /\ attempt'[a].handle # NoHandle =>
                            attempt'[a].handle \in Handles
                              /\ job'[attempt'[a].handle].name = a
                      /\ attempt'[a].state = "none" =>
                            attempt'[a].handle = NoHandle
    BY NamesKept
  <1>1. /\ attempt'[a].handle = attempt[a].handle
        /\ attempt'[a].state = "none" => attempt[a].state = "none"
    BY DEF AttemptsKept, RowKept, RowTaken
  <1>2. attempt[a].handle \in Handles \cup {NoHandle}
    BY DEF AInv, IInv, Rows, RowTypes, AttemptRow
  <1>3. attempt[a].handle # NoHandle => job[attempt[a].handle].name = a
    BY DEF AInv, HandleIsOwnJob
  <1>4. a # <<>>
    BY EmptyName
  <1>5. attempt[a].state = "none" => attempt[a].handle = NoHandle
    BY DEF AInv, Blank
  <1> QED
    BY <1>1, <1>2, <1>3, <1>4, <1>5 DEF JobsForward

-----------------------------------------------------------------------------
(* One step of a worker process.                                           *)

\* What a step of w must leave to the processes that do not act.
OthersUnharmed(w) ==
    \A v \in Workers :
        v # w =>
            /\ lease'[v] = lease[v]
            /\ lease[v] # NoLease /\ attempt[Attempt(v)].handle # NoHandle =>
                  attempt'[Attempt(v)].handle = attempt[Attempt(v)].handle
            /\ HoldsLease(v)' =>
                  /\ HoldsLease(v)
                  /\ attempt'[Attempt(v)].handle = attempt[Attempt(v)].handle

\* What holds of the rest of the state after a step.
RestInv ==
    /\ IInv'
    /\ job' \in [Handles -> JobRow] /\ JobsAreNamed'
    /\ receipt' \in [AttemptIds -> Handles \cup {NoHandle}]
    /\ crashes' \in Nat /\ errors' \in Nat
    /\ HandleIsOwnJob' /\ Blank(attempt') /\ SuccessHasJob'

\* The local variables that a process may go on with.
Fits(w, p, h, s) ==
    /\ p \in PCs \ {"idle"}
    /\ h \in Handles \cup {NoHandle}
    /\ s \in TargetStates
    /\ p \in Starting => h = NoHandle /\ s = "unknown"
    /\ h # NoHandle => job'[h].name = Attempt(w)
    /\ p \in WithHandle => h # NoHandle
    /\ s \in EndedJob => h # NoHandle /\ job'[h].state = s
    /\ p \in {"collect", "finalize", "complete"} => s = "succeeded"
    /\ p \in Submitting => lease[w].handle = NoHandle

LEMMA LeaseAttempt ==
    ASSUME IInv, NEW w \in Workers, lease[w] # NoLease
    PROVE  /\ lease[w] \in Lease /\ Attempt(w) \in AttemptIds
           /\ Attempt(w)[1] \in Tasks
           /\ lease[w].handle \in Handles \cup {NoHandle}
           /\ lease[w].token \in Tokens
  BY AttemptIdFacts DEF IInv, Lease, Attempt

LEMMA RowsUnharmed ==
    ASSUME AInv, NEW w, OthersKeep(w), AttemptsKept
    PROVE  OthersUnharmed(w)
  <1> SUFFICES ASSUME NEW v \in Workers, v # w
               PROVE  /\ lease'[v] = lease[v]
                      /\ lease[v] # NoLease
                           /\ attempt[Attempt(v)].handle # NoHandle =>
                            attempt'[Attempt(v)].handle
                              = attempt[Attempt(v)].handle
                      /\ HoldsLease(v)' =>
                            /\ HoldsLease(v)
                            /\ attempt'[Attempt(v)].handle
                                 = attempt[Attempt(v)].handle
    BY DEF OthersUnharmed
  <1>1. lease'[v] = lease[v] /\ IInv
    BY DEF OthersKeep, AInv
  <1>2. lease[v] # NoLease =>
           attempt'[Attempt(v)].handle = attempt[Attempt(v)].handle
    BY <1>1, LeaseAttempt DEF AttemptsKept, RowKept, RowTaken
  <1>3. HoldsLease(v)' =>
           /\ HoldsLease(v)
           /\ attempt'[Attempt(v)].handle = attempt[Attempt(v)].handle
    BY <1>1, LostIsLost
  <1> QED
    BY <1>1, <1>2, <1>3

LEMMA WorkerStep ==
    ASSUME AInv, NEW w \in Workers, NEW p \in PCs,
           NEW h \in Handles \cup {NoHandle}, NEW s \in TargetStates,
           Goto(w, p, h, s), RestInv, JobsForward, OthersUnharmed(w),
           Local(w)'
    PROVE  AInv'
  <1>1. /\ pc \in [Workers -> PCs] /\ status \in [Workers -> TargetStates]
        /\ handle \in [Workers -> Handles \cup {NoHandle}]
    BY DEF AInv, AsyncTypes
  <1>2. AsyncTypes'
    BY <1>1 DEF AsyncTypes, Goto, RestInv
  <1>3. ASSUME NEW v \in Workers, v # w
        PROVE  Local(v)'
    <2>1. pc'[v] = pc[v] /\ handle'[v] = handle[v] /\ status'[v] = status[v]
      BY <1>1, <1>3 DEF Goto
    <2>2. /\ lease'[v] = lease[v]
          /\ lease[v] # NoLease /\ attempt[Attempt(v)].handle # NoHandle =>
                attempt'[Attempt(v)].handle = attempt[Attempt(v)].handle
          /\ HoldsLease(v)' =>
                /\ HoldsLease(v)
                /\ attempt'[Attempt(v)].handle = attempt[Attempt(v)].handle
      BY <1>3 DEF OthersUnharmed
    <2> QED
      BY <2>1, <2>2, OtherLocal
  <1>4. \A v \in Workers : Local(v)'
    BY <1>3
  <1> QED
    BY <1>2, <1>4 DEF AInv, RestInv

LEMMA StaysLocal ==
    ASSUME AInv, NEW w \in Workers, NEW p, NEW h, NEW s, Goto(w, p, h, s),
           Fits(w, p, h, s), lease[w] # NoLease, lease'[w] = lease[w],
           lease[w].handle # NoHandle =>
               attempt'[Attempt(w)].handle = lease[w].handle,
           p \in Starting \cup Submitting /\ HoldsLease(w)' =>
               attempt'[Attempt(w)].handle = lease[w].handle
    PROVE  Local(w)'
  <1>1. pc'[w] = p /\ handle'[w] = h /\ status'[w] = s
    BY DEF AInv, AsyncTypes, Goto
  <1>2. Attempt(w)' = Attempt(w)
    BY DEF Attempt
  <1> QED
    BY <1>1, <1>2 DEF Local, Fits

LEMMA ReturnsLocal ==
    ASSUME AInv, NEW w \in Workers, Return(w), lease'[w] = NoLease
    PROVE  Local(w)'
  <1>1. pc'[w] = "idle" /\ handle'[w] = NoHandle /\ status'[w] = "unknown"
    BY DEF AInv, AsyncTypes, Return, Goto
  <1> QED
    BY <1>1 DEF Local, Starting, Submitting, WithHandle, EndedJob, HoldsLease

\* What a step leaves when it changes no row and no job.
LEMMA RestUnchanged ==
    ASSUME AInv, UNCHANGED <<vars, job>>,
           receipt' \in [AttemptIds -> Handles \cup {NoHandle}],
           ReceiptsOwn(receipt', job), crashes' \in Nat, errors' \in Nat
    PROVE  RestInv /\ JobsForward /\ \A w \in Workers : OthersUnharmed(w)
  <1>1. /\ UNCHANGED <<run, task, attempt, lease, clock, cancels, retries>>
        /\ job' = job
    BY DEF vars
  <1>2. IInv'
    BY <1>1 DEF AInv, IInv, TokensApart
  <1>3. JobsForward /\ JobsAreNamed' /\ job' \in [Handles -> JobRow]
    BY <1>1 DEF JobsForward, JobsAreNamed, AInv, AsyncTypes
  <1>4. HandleIsOwnJob' /\ Blank(attempt') /\ SuccessHasJob'
    BY <1>1 DEF AInv, HandleIsOwnJob, Blank, SuccessHasJob, ReceiptsOwn
  <1>5. \A w \in Workers : OthersUnharmed(w)
    BY <1>1 DEF OthersUnharmed, HoldsLease
  <1> QED
    BY <1>2, <1>3, <1>4, <1>5 DEF RestInv

\* A step of w that changes neither a row nor a job.
LEMMA LocalMove ==
    ASSUME AInv, NEW w \in Workers, pc[w] # "idle",
           NEW p, NEW h, NEW s, Goto(w, p, h, s), Fits(w, p, h, s),
           UNCHANGED <<vars, job>>,
           receipt' \in [AttemptIds -> Handles \cup {NoHandle}],
           ReceiptsOwn(receipt', job), crashes' \in Nat, errors' \in Nat,
           p \in Starting \cup Submitting => pc[w] \in Starting \cup Submitting
    PROVE  AInv'
  <1>1. /\ lease[w] # NoLease /\ lease'[w] = lease[w]
        /\ lease[w].handle # NoHandle =>
              attempt[Attempt(w)].handle = lease[w].handle
        /\ pc[w] \in Starting \cup Submitting /\ HoldsLease(w) =>
              attempt[Attempt(w)].handle = lease[w].handle
        /\ attempt' = attempt /\ HoldsLease(w)' = HoldsLease(w)
    BY DEF AInv, Local, vars, HoldsLease
  <1>2. Local(w)'
    BY <1>1, StaysLocal
  <1>3. RestInv /\ JobsForward /\ OthersUnharmed(w)
    BY RestUnchanged
  <1>4. /\ p \in PCs /\ h \in Handles \cup {NoHandle} /\ s \in TargetStates
    BY DEF Fits
  <1> QED
    BY <1>2, <1>3, <1>4, WorkerStep

\* The same with the local variables and the receipts as they are.
LEMMA Continues ==
    ASSUME AInv, NEW w \in Workers, pc[w] # "idle", NEW p,
           Continue(w, p), UNCHANGED <<vars, target>>,
           crashes' \in Nat, errors' \in Nat,
           p \in PCs \ ({"idle"} \cup Starting),
           p \in WithHandle => pc[w] \in WithHandle,
           p \in {"collect", "finalize", "complete"} =>
               status[w] = "succeeded",
           p \in Submitting => pc[w] \in Submitting
    PROVE  AInv'
  <1>1. job' = job /\ receipt' = receipt
    BY DEF target
  <1>2. Fits(w, p, handle[w], status[w])
    BY <1>1 DEF AInv, AsyncTypes, Local, Fits
  <1>3. receipt' \in [AttemptIds -> Handles \cup {NoHandle}]
        /\ ReceiptsOwn(receipt', job)
    BY <1>1 DEF AInv, AsyncTypes, HandleIsOwnJob, ReceiptsOwn
  <1>4. p \notin Starting
    BY DEF Starting
  <1> QED
    BY <1>1, <1>2, <1>3, <1>4, LocalMove DEF Continue

-----------------------------------------------------------------------------
(* The calls that write no row.                                            *)

\* A job that bears the name of an attempt is in a state of a job.
LEMMA JobOfAttempt ==
    ASSUME AInv, NEW a \in AttemptIds, NEW h \in Handles, job[h].name = a
    PROVE  /\ job[h].state \in ActiveJob \cup EndedJob
           /\ job[h].state \in TargetStates
  <1>1. job[h].name # <<>> /\ job[h] \in JobRow
    BY EmptyName DEF AInv, AsyncTypes
  <1>2. job[h].state # "none"
    BY <1>1 DEF AInv, JobsAreNamed
  <1> QED
    BY <1>1, <1>2 DEF JobRow, ActiveJob, EndedJob, TargetStates

\* The receipts that a finalization leaves.
LEMMA FinalizedReceipts ==
    ASSUME AInv, NEW a \in AttemptIds, NEW b \in BOOLEAN
    PROVE  /\ FinalizedReceipt(a, b) \in
                 [AttemptIds -> Handles \cup {NoHandle}]
           /\ ReceiptsOwn(FinalizedReceipt(a, b), job)
  BY DEF AInv, AsyncTypes, FinalizedReceipt, ReceiptsOwn, HandleIsOwnJob

LEMMA StaleInv ==
    ASSUME AInv, NEW w \in Workers, pc[w] # "idle", Stale(w)
    PROVE  AInv'
  <1>1. /\ Continue(w, "failing") /\ UNCHANGED <<vars, target>>
        /\ crashes' \in Nat /\ errors' \in Nat
    BY DEF Stale, faults, AInv, AsyncTypes
  <1> QED
    BY <1>1, Continues DEF PCs, Starting, WithHandle, Submitting

LEMMA ReadsAttemptStateInv ==
    ASSUME AInv, NEW w \in Workers, ReadsAttemptState(w)
    PROVE  AInv'
  <1> DEFINE h == lease[w].handle
             canceling == attempt[Attempt(w)].state = "cancel_requested"
             p == CASE canceling /\ h # NoHandle -> "cancel"
                    [] canceling /\ h = NoHandle -> "mark_canceled"
                    [] ~canceling /\ h = NoHandle -> "mark_submitting"
                    [] ~canceling /\ h # NoHandle -> "poll"
  <1>1. pc[w] = "attempt_state" /\ lease[w] # NoLease
    BY DEF ReadsAttemptState, AInv, Local
  <1>2. CASE Stale(w)
    BY <1>1, <1>2, StaleInv
  <1>3. CASE ~Stale(w)
    <2>1. /\ HoldsLease(w) /\ Goto(w, p, h, status[w])
          /\ UNCHANGED <<vars, target, faults>>
      BY <1>3 DEF ReadsAttemptState
    <2>2. h \in Handles \cup {NoHandle} /\ Attempt(w) \in AttemptIds
      BY <1>1, LeaseAttempt DEF AInv
    <2>3. /\ p \in {"cancel", "mark_canceled", "mark_submitting", "poll"}
          /\ p \in {"cancel", "poll"} => h # NoHandle
          /\ p = "mark_submitting" => h = NoHandle
      OBVIOUS
    <2>4. status[w] = "unknown"
      BY <1>1 DEF AInv, Local, Starting
    <2>5. h # NoHandle => job[h].name = Attempt(w)
      BY <1>1, <2>2 DEF AInv, Local, HandleIsOwnJob
    <2>6. job' = job /\ receipt' = receipt /\ UNCHANGED vars
          /\ crashes' \in Nat /\ errors' \in Nat
      BY <2>1 DEF target, faults, AInv, AsyncTypes
    <2> HIDE DEF p, h
    <2>7. Fits(w, p, h, status[w])
      BY <2>2, <2>3, <2>4, <2>5, <2>6
         DEF Fits, PCs, Starting, Submitting, WithHandle, EndedJob,
             TargetStates, h
    <2>8. receipt' \in [AttemptIds -> Handles \cup {NoHandle}]
          /\ ReceiptsOwn(receipt', job)
      BY <2>6 DEF AInv, AsyncTypes, HandleIsOwnJob, ReceiptsOwn
    <2> QED
      BY <1>1, <2>1, <2>6, <2>7, <2>8, LocalMove DEF Starting
  <1> QED
    BY <1>2, <1>3

LEMMA FindsJobInv ==
    ASSUME AInv, NEW w \in Workers, FindsJob(w)
    PROVE  AInv'
  <1> DEFINE a == Attempt(w)
  <1>1. /\ pc[w] = "find_job" /\ lease[w] # NoLease /\ a \in AttemptIds
        /\ lease[w].handle = NoHandle
    BY LeaseAttempt DEF FindsJob, AInv, Local, Submitting
  <1>2. /\ job' = job /\ UNCHANGED vars
        /\ crashes' \in Nat /\ errors' \in Nat
        /\ receipt \in [AttemptIds -> Handles \cup {NoHandle}]
        /\ ReceiptsOwn(receipt, job)
    BY DEF FindsJob, faults, AInv, AsyncTypes, HandleIsOwnJob, ReceiptsOwn
  <1>3. ASSUME NEW h \in Handles, job[h].name = a,
               Goto(w, "record_submission", h, job[h].state),
               receipt' \in [AttemptIds -> Handles \cup {NoHandle}],
               ReceiptsOwn(receipt', job)
        PROVE  AInv'
    <2>1. job[h].state \in TargetStates
      BY <1>1, <1>3, JobOfAttempt
    <2>2. h # NoHandle
      BY ConstantFacts
    <2>3. Fits(w, "record_submission", h, job[h].state)
      BY <1>1, <1>2, <1>3, <2>1, <2>2 DEF Fits, PCs, Starting
    <2> QED
      BY <1>1, <1>2, <1>3, <2>3, LocalMove DEF Submitting
  <1>4. CASE /\ receipt[a] # NoHandle /\ receipt' = receipt
             /\ Goto(w, "record_submission", receipt[a],
                     job[receipt[a]].state)
    <2>1. receipt[a] \in Handles /\ job[receipt[a]].name = a
      BY <1>1, <1>2, <1>4 DEF ReceiptsOwn
    <2> QED
      BY <1>2, <1>3, <1>4, <2>1
  <1>5. ASSUME NEW h \in FoundByName(a),
               receipt' = [receipt EXCEPT ![a] = h],
               Goto(w, "record_submission", h, job[h].state)
        PROVE  AInv'
    <2>1. h \in Handles /\ job[h].name = a
      BY DEF FoundByName, JobsNamed
    <2>2. receipt' \in [AttemptIds -> Handles \cup {NoHandle}]
          /\ ReceiptsOwn(receipt', job)
      BY <1>2, <1>5, <2>1 DEF ReceiptsOwn
    <2> QED
      BY <1>3, <1>5, <2>1, <2>2
  <1>6. CASE Continue(w, "sbatch") /\ receipt' = receipt
    BY <1>1, <1>2, <1>6, Continues
       DEF target, PCs, Starting, WithHandle, Submitting
  <1> QED
    BY <1>4, <1>5, <1>6 DEF FindsJob

LEMMA WritesReceiptInv ==
    ASSUME AInv, NEW w \in Workers, WritesReceipt(w)
    PROVE  AInv'
  <1> DEFINE a == Attempt(w)
  <1>1. /\ pc[w] = "write_receipt" /\ lease[w] # NoLease /\ a \in AttemptIds
        /\ lease[w].handle = NoHandle
        /\ handle[w] \in Handles /\ job[handle[w]].name = a
    BY LeaseAttempt
       DEF WritesReceipt, AInv, AsyncTypes, Local, Submitting, WithHandle
  <1>2. /\ job' = job /\ UNCHANGED vars
        /\ crashes' \in Nat /\ errors' \in Nat
        /\ receipt' = [receipt EXCEPT ![a] = handle[w]]
        /\ Goto(w, "record_submission", handle[w], status[w])
    BY DEF WritesReceipt, faults, Continue, AInv, AsyncTypes
  <1>3. receipt' \in [AttemptIds -> Handles \cup {NoHandle}]
        /\ ReceiptsOwn(receipt', job)
    BY <1>1, <1>2 DEF AInv, AsyncTypes, HandleIsOwnJob, ReceiptsOwn
  <1>4. Fits(w, "record_submission", handle[w], status[w])
    BY <1>1, <1>2
       DEF AInv, AsyncTypes, Local, Fits, PCs, Starting, WithHandle
  <1> QED
    BY <1>1, <1>2, <1>3, <1>4, LocalMove DEF Submitting

LEMMA PollsInv ==
    ASSUME AInv, NEW w \in Workers, pc[w] = "poll",
           UNCHANGED <<vars, target>>, crashes' \in Nat, errors' \in Nat,
           NEW s \in {job[handle[w]].state, "unknown"},
           Goto(w, "record_target_status", handle[w], s)
    PROVE  AInv'
  <1>1. /\ lease[w] # NoLease /\ Attempt(w) \in AttemptIds
        /\ handle[w] \in Handles /\ job[handle[w]].name = Attempt(w)
        /\ handle[w] # NoHandle
    BY LeaseAttempt DEF AInv, AsyncTypes, Local, WithHandle
  <1>2. s \in TargetStates /\ "unknown" \notin EndedJob
    BY <1>1, JobOfAttempt DEF TargetStates, EndedJob
  <1>3. job' = job /\ receipt' = receipt
    BY DEF target
  <1>4. Fits(w, "record_target_status", handle[w], s)
    BY <1>1, <1>2, <1>3 DEF Fits, PCs, Starting, Submitting
  <1>5. receipt' \in [AttemptIds -> Handles \cup {NoHandle}]
        /\ ReceiptsOwn(receipt', job)
    BY <1>3 DEF AInv, AsyncTypes, HandleIsOwnJob, ReceiptsOwn
  <1> QED
    BY <1>1, <1>3, <1>4, <1>5, LocalMove DEF Starting, Submitting

\* The calls that only read, or that raise.
LEMMA ReadingCallsInv ==
    ASSUME AInv, NEW w \in Workers,
           \/ Polls(w) \/ Collects(w) \/ CallFails(w) \/ TargetUnknown(w)
    PROVE  AInv'
  <1>1. crashes \in Nat /\ errors \in Nat
    BY DEF AInv, AsyncTypes
  <1>2. CASE Polls(w)
    <2>1. /\ pc[w] = "poll" /\ UNCHANGED <<vars, target>>
          /\ crashes' \in Nat /\ errors' \in Nat
      BY <1>1, <1>2 DEF Polls, faults
    <2>2. CASE CheckedReceipt(w)
      BY <1>2, <2>1, <2>2, PollsInv DEF Polls
    <2>3. CASE ~CheckedReceipt(w)
      BY <1>2, <2>1, <2>3, Continues
         DEF Polls, PCs, Starting, WithHandle, Submitting
    <2> QED
      BY <2>2, <2>3
  <1>3. CASE Collects(w)
    <2>1. /\ pc[w] = "collect" /\ UNCHANGED <<vars, target>>
          /\ crashes' \in Nat /\ errors' \in Nat
          /\ status[w] = "succeeded"
      BY <1>1, <1>3 DEF Collects, faults, AInv, Local
    <2>2. PICK p \in {"finalize", "failing"} : Continue(w, p)
      BY <1>3 DEF Collects
    <2> QED
      BY <2>1, <2>2, Continues DEF PCs, Starting, WithHandle, Submitting
  <1>4. CASE CallFails(w)
    <2>1. /\ pc[w] # "idle" /\ UNCHANGED <<vars, target>>
          /\ crashes' \in Nat /\ errors' \in Nat
      BY <1>1, <1>4 DEF CallFails
    <2>2. PICK p \in {"release", "failing"} : Continue(w, p)
      BY <1>4 DEF CallFails
    <2> QED
      BY <2>1, <2>2, Continues DEF PCs, Starting, WithHandle, Submitting
  <1>5. CASE TargetUnknown(w)
    BY <1>1, <1>5, PollsInv DEF TargetUnknown
  <1> QED
    BY <1>2, <1>3, <1>4, <1>5

\* The finalizations.
LEMMA FinalizedInv ==
    ASSUME AInv, NEW w \in Workers, pc[w] # "idle", NEW p, Continue(w, p),
           NEW b \in BOOLEAN, receipt' = FinalizedReceipt(Attempt(w), b),
           UNCHANGED <<vars, job, faults>>,
           \/ p \in {"fail", "mark_canceled"}
           \/ pc[w] = "finalize" /\ p = "complete"
    PROVE  AInv'
  <1>1. Attempt(w) \in AttemptIds
    BY LeaseAttempt DEF AInv, Local
  <1>2. receipt' \in [AttemptIds -> Handles \cup {NoHandle}]
        /\ ReceiptsOwn(receipt', job)
    BY <1>1, FinalizedReceipts
  <1>3. job' = job /\ crashes' \in Nat /\ errors' \in Nat
    BY DEF faults, AInv, AsyncTypes
  <1>4. Fits(w, p, handle[w], status[w])
    BY <1>3 DEF AInv, AsyncTypes, Local, Fits, PCs, Starting, Submitting,
       WithHandle
  <1> QED
    BY <1>2, <1>3, <1>4, LocalMove DEF Starting, Submitting, Continue

LEMMA FinalizingCallsInv ==
    ASSUME AInv, NEW w \in Workers,
           \/ Finalizes(w) \/ FinalizesFailed(w) \/ FinalizesCanceled(w)
    PROVE  AInv'
  BY StaleInv, FinalizedInv
     DEF Finalizes, FinalizesFailed, FinalizesCanceled

-----------------------------------------------------------------------------
(* Every step is one of WorkflowEngine, or leaves its state alone.         *)

LEMMA StepIsNext ==
    ASSUME AInv, AsyncNext
    PROVE  [Next]_vars
  <1>1. ASSUME NEW w \in Workers, NEW E \in ExpirySets, WorkerClaims(w, E)
        PROVE  Next
    <2>1. E \in SUBSET RecordedTokens
      BY DEF ExpirySets, OrphanTokens
    <2> QED
      BY <1>1, <2>1 DEF WorkerClaims, Next
  <1>2. ASSUME NEW w \in Workers, WorkerCall(w)
        PROVE  Next \/ UNCHANGED vars
    <2>1. CASE BuildsRequest(w)
      BY <2>1 DEF BuildsRequest, Next
    <2>2. CASE WritesIntent(w)
      BY <2>2 DEF WritesIntent, Stale, Next
    <2>3. CASE RecordsSubmission(w)
      <3>1. handle[w] \in Handles /\ status[w] \in TargetStates
        BY <2>3 DEF RecordsSubmission, AInv, AsyncTypes, Local, WithHandle
      <3>2. Stale(w) \/ RecordSubmission(w, handle[w], status[w])
        BY <2>3 DEF RecordsSubmission
      <3> QED
        BY <3>1, <3>2 DEF Stale, Next
    <2>4. CASE RecordsStatus(w)
      <3>1. status[w] \in TargetStates
        BY DEF AInv, AsyncTypes
      <3> QED
        BY <2>4, <3>1 DEF RecordsStatus, Stale, Next
    <2>5. CASE Completes(w) \/ Fails(w)
      BY <2>5 DEF Completes, Fails, Next
    <2>6. CASE Releases(w) \/ MarksCanceled(w)
      BY <2>6 DEF Releases, MarksCanceled, Stale, Next
    <2>7. CASE \/ ReadsAttemptState(w) \/ FindsJob(w) \/ SubmitsJob(w)
               \/ WritesReceipt(w) \/ Polls(w) \/ Collects(w) \/ Finalizes(w)
               \/ FinalizesFailed(w) \/ CancelsJob(w) \/ FinalizesCanceled(w)
      BY <2>7 DEF ReadsAttemptState, FindsJob, SubmitsJob, WritesReceipt,
         Polls, Collects, Finalizes, FinalizesFailed, CancelsJob,
         FinalizesCanceled, Stale
    <2> QED
      BY <1>2, <2>1, <2>2, <2>3, <2>4, <2>5, <2>6, <2>7 DEF WorkerCall
  <1>3. ASSUME NEW w \in Workers,
               Crashes(w) \/ CallFails(w) \/ TargetUnknown(w)
        PROVE  Next \/ UNCHANGED vars
    BY <1>3 DEF Crashes, CallFails, TargetUnknown, Next
  <1>4. ASSUME NEW h \in Handles, SchedulerStep(h)
        PROVE  UNCHANGED vars
    BY <1>4 DEF SchedulerStep, JobStarts, JobEnds
  <1>5. ASSUME UserStep
        PROVE  Next
    BY <1>5 DEF UserStep, Next
  <1> QED
    BY <1>1, <1>2, <1>3, <1>4, <1>5 DEF AsyncNext

-----------------------------------------------------------------------------
(* The calls that write rows.                                              *)

\* What a step leaves that writes no handle, no result and no job.
LEMMA RestByRows ==
    ASSUME AInv, IInv', UNCHANGED target, AttemptsKept,
           \A t \in Tasks : ResultKept(t), crashes' \in Nat, errors' \in Nat
    PROVE  RestInv /\ JobsForward
  <1>1. job' = job /\ receipt' = receipt
    BY DEF target
  <1>2. JobsForward /\ ReceiptsOwn(receipt', job') /\ JobsAreNamed'
    BY <1>1
       DEF JobsForward, ReceiptsOwn, AInv, HandleIsOwnJob, JobsAreNamed
  <1>3. HandleIsOwnJob' /\ Blank(attempt') /\ SuccessHasJob'
    BY <1>2, NamesKeptByRows
  <1> QED
    BY <1>1, <1>2, <1>3 DEF RestInv, AInv, AsyncTypes

LEMMA HolderWritesRest ==
    ASSUME AInv, IInv', NEW w \in Workers, HolderWrites(w), UNCHANGED target,
           crashes' \in Nat, errors' \in Nat
    PROVE  RestInv /\ JobsForward /\ OthersUnharmed(w)
  <1>1. AttemptsKept /\ OthersKeep(w) /\ \A t \in Tasks : ResultKept(t)
    BY DEF HolderWrites, AttemptsKept
  <1> QED
    BY <1>1, RestByRows, RowsUnharmed

\* A call after which the process goes on with its lease.
LEMMA CallWritten ==
    ASSUME AInv, IInv', NEW w \in Workers, pc[w] # "idle", HolderWrites(w),
           lease' = lease, UNCHANGED <<target, faults>>,
           NEW p, Continue(w, p), Fits(w, p, handle[w], status[w]),
           p \in Starting \cup Submitting => pc[w] \in Starting \cup Submitting
    PROVE  AInv'
  <1>1. /\ lease[w] # NoLease /\ lease'[w] = lease[w]
        /\ lease[w].handle # NoHandle =>
              attempt[Attempt(w)].handle = lease[w].handle
        /\ pc[w] \in Starting \cup Submitting /\ HoldsLease(w) =>
              attempt[Attempt(w)].handle = lease[w].handle
    BY DEF AInv, Local
  <1>2. Attempt(w) \in AttemptIds /\ IInv
    BY <1>1, LeaseAttempt DEF AInv
  <1>3. attempt'[Attempt(w)].handle = attempt[Attempt(w)].handle
    BY <1>2 DEF HolderWrites, RowKept
  <1>4. HoldsLease(w)' => HoldsLease(w)
    BY <1>1, <1>2, LostIsLost DEF HolderWrites, AttemptsKept
  <1>5. Local(w)'
    BY <1>1, <1>3, <1>4, StaysLocal DEF Continue
  <1>6. crashes' \in Nat /\ errors' \in Nat /\ UNCHANGED target
    BY DEF faults, AInv, AsyncTypes
  <1>7. RestInv /\ JobsForward /\ OthersUnharmed(w)
    BY <1>6, HolderWritesRest
  <1> QED
    BY <1>5, <1>7, WorkerStep DEF Continue, Fits

\* A call after which the lease is gone.
LEMMA Returned ==
    ASSUME AInv, IInv', NEW w \in Workers, Return(w), lease'[w] = NoLease,
           RestInv, JobsForward, OthersUnharmed(w)
    PROVE  AInv'
  <1>1. Local(w)'
    BY ReturnsLocal
  <1>2. "idle" \in PCs /\ "unknown" \in TargetStates
    BY DEF PCs, TargetStates
  <1> QED
    BY <1>1, <1>2, WorkerStep DEF Return

LEMMA BuildsRequestInv ==
    ASSUME AInv, IInv', NEW w \in Workers, BuildsRequest(w)
    PROVE  AInv'
  <1>1. /\ pc[w] = "task_request" /\ UNCHANGED target
        /\ crashes' \in Nat /\ errors' \in Nat
    BY DEF BuildsRequest, faults, AInv, AsyncTypes
  <1>2. CASE Continue(w, "attempt_state") /\ UNCHANGED vars
    <2>1. handle[w] = NoHandle /\ status[w] = "unknown"
      BY <1>1 DEF AInv, Local, Starting
    <2>2. job' = job /\ receipt' = receipt
      BY <1>1 DEF target
    <2>3. Fits(w, "attempt_state", handle[w], status[w])
      BY <2>1 DEF Fits, PCs, TargetStates, WithHandle, Submitting, EndedJob
    <2>4. receipt' \in [AttemptIds -> Handles \cup {NoHandle}]
          /\ ReceiptsOwn(receipt', job)
      BY <2>2 DEF AInv, AsyncTypes, HandleIsOwnJob, ReceiptsOwn
    <2> QED
      BY <1>1, <1>2, <2>2, <2>3, <2>4, LocalMove DEF Starting, Continue
  <1>3. CASE LoseProcess(w) /\ Return(w)
    <2>1. HolderWrites(w) /\ lease'[w] = NoLease
      BY <1>3, LoseProcessWrites DEF LoseProcess, AInv, IInv
    <2> QED
      BY <1>1, <1>3, <2>1, HolderWritesRest, Returned
  <1> QED
    BY <1>2, <1>3 DEF BuildsRequest

LEMMA CrashesInv ==
    ASSUME AInv, IInv', NEW w \in Workers, Crashes(w)
    PROVE  AInv'
  <1>1. HolderWrites(w) /\ lease'[w] = NoLease
    BY LoseProcessWrites DEF Crashes, LoseProcess, AInv, IInv
  <1>2. UNCHANGED target /\ crashes' \in Nat /\ errors' \in Nat
    BY DEF Crashes, AInv, AsyncTypes
  <1> QED
    BY <1>1, <1>2, HolderWritesRest, Returned DEF Crashes

LEMMA WritesIntentInv ==
    ASSUME AInv, IInv', NEW w \in Workers, WritesIntent(w)
    PROVE  AInv'
  <1>1. pc[w] = "mark_submitting"
    BY DEF WritesIntent
  <1>2. CASE Stale(w)
    BY <1>1, <1>2, StaleInv
  <1>3. CASE MarkSubmitting(w) /\ Continue(w, "find_job")
             /\ UNCHANGED <<target, faults>>
    <2>1. HolderWrites(w) /\ lease' = lease
      BY <1>3, MarkSubmittingWrites DEF MarkSubmitting, AInv
    <2>2. job' = job
      BY <1>3 DEF target
    <2>3. Fits(w, "find_job", handle[w], status[w])
      BY <1>1, <2>2 DEF AInv, AsyncTypes, Local, Fits, PCs, Starting,
         Submitting, WithHandle
    <2> QED
      BY <1>1, <1>3, <2>1, <2>3, CallWritten DEF Submitting
  <1>4. CASE Continue(w, "failing") /\ UNCHANGED <<vars, target, faults>>
    <2>1. crashes' \in Nat /\ errors' \in Nat
      BY <1>4 DEF faults, AInv, AsyncTypes
    <2> QED
      BY <1>1, <1>4, <2>1, Continues
         DEF PCs, Starting, WithHandle, Submitting
  <1> QED
    BY <1>2, <1>3, <1>4 DEF WritesIntent

\* The call that follows a status fits that status.
LEMMA AfterStatusFits ==
    ASSUME AInv, NEW w \in Workers, pc[w] \in WithHandle, job' = job,
           NEW p \in {"cancel", AfterStatus(status[w])}
    PROVE  /\ Fits(w, p, handle[w], status[w])
           /\ p \notin Starting \cup Submitting
  <1>1. p \in {"cancel", "failing", "release"}
        \/ (p = "collect" /\ status[w] = "succeeded")
    BY DEF AfterStatus
  <1>2. /\ p \in PCs \ {"idle"} /\ p \notin Starting \cup Submitting
        /\ p \in {"collect", "finalize", "complete"} => status[w] = "succeeded"
    BY <1>1 DEF PCs, Starting, Submitting
  <1>3. handle[w] # NoHandle
    BY DEF AInv, Local
  <1>4. /\ handle[w] \in Handles \cup {NoHandle}
        /\ status[w] \in TargetStates
        /\ job'[handle[w]].name = Attempt(w)
        /\ status[w] \in EndedJob => job'[handle[w]].state = status[w]
    BY <1>3 DEF AInv, AsyncTypes, Local
  <1> QED
    BY <1>2, <1>3, <1>4 DEF Fits

LEMMA RecordsStatusInv ==
    ASSUME AInv, IInv', NEW w \in Workers, RecordsStatus(w)
    PROVE  AInv'
  <1>1. pc[w] = "record_target_status" /\ status[w] \in TargetStates
    BY DEF RecordsStatus, AInv, AsyncTypes
  <1>2. CASE Stale(w)
    BY <1>1, <1>2, StaleInv
  <1>3. CASE RecordTargetStatus(w, status[w])
             /\ Continue(w, AfterStatus(status[w]))
             /\ UNCHANGED <<target, faults>>
    <2>1. HolderWrites(w) /\ lease' = lease
      BY <1>1, <1>3, RecordTargetStatusWrites DEF RecordTargetStatus, AInv
    <2>2. job' = job
      BY <1>3 DEF target
    <2>3. /\ Fits(w, AfterStatus(status[w]), handle[w], status[w])
          /\ AfterStatus(status[w]) \notin Starting \cup Submitting
      BY <1>1, <2>2, AfterStatusFits DEF WithHandle
    <2> QED
      BY <1>1, <1>3, <2>1, <2>3, CallWritten
  <1> QED
    BY <1>2, <1>3 DEF RecordsStatus

\* record_submission: the handle on record becomes the job in hand.  While
\* the lease is good the attempt had none, so no handle is replaced, and no
\* other process holds the attempt.
LEMMA RecordsSubmissionInv ==
    ASSUME AInv, IInv', NEW w \in Workers, RecordsSubmission(w)
    PROVE  AInv'
  <1> DEFINE a == Attempt(w)
  <1>1. /\ pc[w] = "record_submission" /\ lease[w] # NoLease
        /\ a \in AttemptIds /\ lease[w].handle = NoHandle
        /\ handle[w] \in Handles /\ job[handle[w]].name = a
        /\ status[w] \in TargetStates
    BY LeaseAttempt DEF RecordsSubmission, AInv, AsyncTypes, Local,
       Submitting, WithHandle
  <1>2. CASE Stale(w)
    BY <1>1, <1>2, StaleInv
  <1>3. CASE ~Stale(w)
    <2> DEFINE p == IF attempt'[a].state = "cancel_requested"
                    THEN "cancel" ELSE AfterStatus(status[w])
    <2>1. /\ HoldsLease(w) /\ RecordSubmission(w, handle[w], status[w])
          /\ Continue(w, p) /\ UNCHANGED <<target, faults>>
      BY <1>3 DEF RecordsSubmission, RecordSubmission
    <2>2. attempt[a].handle = NoHandle
      BY <1>1, <2>1 DEF AInv, Local, Submitting
    <2>3. /\ \A b \in AttemptIds : b # a => attempt'[b] = attempt[b]
          /\ attempt'[a].handle = handle[w] /\ attempt'[a].state # "none"
          /\ attempt'[a].worker = attempt[a].worker
          /\ attempt'[a].token = attempt[a].token
          /\ task' = task /\ lease' = lease
      BY <1>1, <2>1, RecordSubmissionWrites DEF AInv
    <2>4. /\ job' = job /\ receipt' = receipt
          /\ crashes' \in Nat /\ errors' \in Nat
      BY <2>1 DEF target, faults, AInv, AsyncTypes
    <2>5. JobsForward /\ ReceiptsOwn(receipt', job') /\ JobsAreNamed'
      BY <2>4
         DEF JobsForward, ReceiptsOwn, AInv, HandleIsOwnJob, JobsAreNamed
    <2>6. ASSUME NEW b \in AttemptIds
          PROVE  /\ attempt'[b].handle # NoHandle =>
                       attempt'[b].handle \in Handles
                         /\ job'[attempt'[b].handle].name = b
                 /\ attempt'[b].state = "none" => attempt'[b].handle = NoHandle
      <3>1. attempt[b].handle \in Handles \cup {NoHandle}
        BY DEF AInv, IInv, Rows, RowTypes, AttemptRow
      <3> QED
        BY <1>1, <2>3, <2>4, <3>1 DEF AInv, HandleIsOwnJob, Blank
    <2>7. \A t \in Tasks : ResultKept(t)
      BY <2>3 DEF ResultKept
    <2>8. RestInv
      <3>1. HandleIsOwnJob' /\ Blank(attempt') /\ SuccessHasJob'
        BY <2>5, <2>6, <2>7, NamesKept
      <3> QED
        BY <2>4, <2>5, <3>1 DEF RestInv, AInv, AsyncTypes
    <2>9. OthersUnharmed(w)
      <3> SUFFICES ASSUME NEW v \in Workers, v # w
                   PROVE  /\ lease'[v] = lease[v]
                          /\ lease[v] # NoLease
                               /\ attempt[Attempt(v)].handle # NoHandle =>
                                attempt'[Attempt(v)].handle
                                  = attempt[Attempt(v)].handle
                          /\ HoldsLease(v)' =>
                                /\ HoldsLease(v)
                                /\ attempt'[Attempt(v)].handle
                                     = attempt[Attempt(v)].handle
        BY DEF OthersUnharmed
      <3>1. lease[v] # NoLease => Attempt(v) \in AttemptIds
        BY LeaseAttempt DEF AInv
      <3>2. attempt[a].worker = w
        BY <2>1 DEF HoldsLease, Attempt
      <3>3. lease[v] # NoLease /\ Attempt(v) # a =>
               attempt'[Attempt(v)] = attempt[Attempt(v)]
        BY <2>3, <3>1
      <3>4. lease[v] # NoLease /\ Attempt(v) = a => ~HoldsLease(v)'
        BY <2>3, <3>2 DEF HoldsLease, Attempt
      <3>5. HoldsLease(v)' => lease[v] # NoLease
        BY <2>3 DEF HoldsLease
      <3> QED
        BY <2>2, <2>3, <3>3, <3>4, <3>5 DEF HoldsLease, Attempt
    <2>10. /\ Fits(w, p, handle[w], status[w])
           /\ p \notin Starting \cup Submitting
      BY <1>1, <2>4, AfterStatusFits DEF WithHandle
    <2> HIDE DEF p
    <2>11. Local(w)'
      BY <1>1, <2>1, <2>3, <2>10, StaysLocal DEF Continue
    <2> QED
      BY <2>1, <2>5, <2>8, <2>9, <2>10, <2>11, WorkerStep DEF Continue, Fits
  <1> QED
    BY <1>2, <1>3

\* complete_task: the result is that of the job in hand, which succeeded.
LEMMA CompletesInv ==
    ASSUME AInv, IInv', NEW w \in Workers, Completes(w)
    PROVE  AInv'
  <1>1. /\ pc[w] = "complete" /\ lease[w] # NoLease
        /\ Attempt(w) \in AttemptIds /\ handle[w] \in Handles
        /\ job[handle[w]].name = Attempt(w)
        /\ status[w] = "succeeded" /\ job[handle[w]].state = "succeeded"
    BY LeaseAttempt DEF Completes, AInv, AsyncTypes, Local, EndedJob, WithHandle
  <1>2. /\ UNCHANGED target /\ job' = job /\ receipt' = receipt
        /\ crashes' \in Nat /\ errors' \in Nat
    BY DEF Completes, target, faults, AInv, AsyncTypes
  <1>3. CASE CompleteTask(w) /\ Return(w)
    <2>1. /\ \A a \in AttemptIds : RowKept(a)
          /\ \A t \in Tasks :
                ResultKept(t)
                  \/ (t = Attempt(w)[1] /\ task'[t].outputs = Attempt(w)[2])
          /\ OthersKeep(w)
      BY <1>3, CompleteTaskWrites DEF AInv
    <2>2. lease'[w] = NoLease
      BY <1>3 DEF CompleteTask, AInv, IInv
    <2>3. AttemptsKept /\ OthersUnharmed(w)
      BY <2>1, RowsUnharmed DEF AttemptsKept
    <2>4. JobsForward /\ ReceiptsOwn(receipt', job') /\ JobsAreNamed'
      BY <1>2
         DEF JobsForward, ReceiptsOwn, AInv, HandleIsOwnJob, JobsAreNamed
    <2>5. HandleIsOwnJob' /\ Blank(attempt')
      <3>1. ASSUME NEW a \in AttemptIds
            PROVE  /\ attempt'[a].handle = attempt[a].handle
                   /\ attempt'[a].state = "none" => attempt[a].state = "none"
        BY <2>1 DEF RowKept
      <3> QED
        BY <1>2, <3>1 DEF AInv, HandleIsOwnJob, Blank
    <2>6. SuccessHasJob'
      <3> SUFFICES ASSUME NEW t \in Tasks, task'[t].state = "succeeded"
                   PROVE  \E h \in Handles :
                             /\ job[h].name = <<t, task'[t].outputs>>
                             /\ job[h].state = "succeeded"
        BY <1>2 DEF SuccessHasJob
      <3>1. CASE ResultKept(t)
        BY <3>1 DEF ResultKept, AInv, SuccessHasJob
      <3>2. CASE t = Attempt(w)[1] /\ task'[t].outputs = Attempt(w)[2]
        <4>1. Attempt(w) = <<t, task'[t].outputs>>
          BY <1>1, <3>2, AttemptIdFacts
        <4> QED
          BY <1>1, <4>1
      <3> QED
        BY <2>1, <3>1, <3>2
    <2>7. RestInv
      BY <1>2, <2>4, <2>5, <2>6 DEF RestInv, AInv, AsyncTypes
    <2> QED
      BY <1>3, <2>2, <2>3, <2>4, <2>7, Returned
  <1>4. CASE Continue(w, "failing") /\ UNCHANGED vars
    BY <1>1, <1>2, <1>4, Continues DEF PCs, Starting, WithHandle, Submitting
  <1> QED
    BY <1>3, <1>4 DEF Completes

\* The other calls that settle or give up the lease.
LEMMA SettlingCallsInv ==
    ASSUME AInv, IInv', NEW w \in Workers,
           Fails(w) \/ Releases(w) \/ MarksCanceled(w)
    PROVE  AInv'
  <1>1. CASE Stale(w)
    BY <1>1, StaleInv DEF Fails, Releases, MarksCanceled
  <1>2. CASE ~Stale(w)
    <2>1. /\ FailTask(w) \/ ReleaseLease(w) \/ MarkAttemptCanceled(w)
          /\ Return(w) /\ UNCHANGED <<target, faults>>
      BY <1>2, SMTT(30) DEF Fails, Releases, MarksCanceled
    <2>2. HolderWrites(w) /\ lease'[w] = NoLease
      BY <2>1, FailTaskWrites, ReleaseLeaseWrites, MarkAttemptCanceledWrites
         DEF AInv, IInv, FailTask, ReleaseLease, MarkAttemptCanceled
    <2>3. UNCHANGED target /\ crashes' \in Nat /\ errors' \in Nat
      BY <2>1 DEF faults, AInv, AsyncTypes
    <2> QED
      BY <2>1, <2>2, <2>3, HolderWritesRest, Returned
  <1> QED
    BY <1>1, <1>2

\* claim_task: the lease that is granted carries the handle on record.
LEMMA WorkerClaimsInv ==
    ASSUME AInv, IInv', NEW w \in Workers, NEW E, WorkerClaims(w, E)
    PROVE  AInv'
  <1>1. /\ pc[w] = "idle" /\ handle[w] = NoHandle /\ status[w] = "unknown"
        /\ lease[w] = NoLease
    BY DEF WorkerClaims, AInv, Local
  <1>2. ClaimWrites(w)
    BY ClaimTaskWrites DEF WorkerClaims, AInv
  <1>3. AttemptsKept /\ OthersKeep(w) /\ \A t \in Tasks : ResultKept(t)
    BY <1>2 DEF ClaimWrites, AttemptsKept
  <1>4. UNCHANGED target /\ crashes' \in Nat /\ errors' \in Nat
    BY DEF WorkerClaims, faults, AInv, AsyncTypes
  <1>5. RestInv /\ JobsForward /\ OthersUnharmed(w)
    BY <1>3, <1>4, RestByRows, RowsUnharmed
  <1>6. CASE lease'[w] = NoLease
    <2>1. Return(w)
      BY <1>1, <1>6
         DEF WorkerClaims, Return, Goto, locals, AInv, AsyncTypes
    <2> QED
      BY <1>5, <1>6, <2>1, Returned
  <1>7. CASE lease'[w] # NoLease
    <2>1. Goto(w, "task_request", NoHandle, "unknown")
      BY <1>1, <1>7 DEF WorkerClaims, Continue
    <2>2. lease'[w].handle = attempt'[Attempt(w)'].handle
      BY <1>1, <1>2, <1>7 DEF ClaimWrites, LeaseTaken, Attempt
    <2>3. /\ pc'[w] = "task_request" /\ handle'[w] = NoHandle
          /\ status'[w] = "unknown"
      BY <2>1 DEF Goto, AInv, AsyncTypes
    <2>4. Local(w)'
      BY <1>7, <2>2, <2>3
         DEF Local, Starting, Submitting, WithHandle, EndedJob
    <2>5. "task_request" \in PCs /\ "unknown" \in TargetStates
      BY DEF PCs, TargetStates
    <2> QED
      BY <1>5, <2>1, <2>4, <2>5, WorkerStep
  <1> QED
    BY <1>6, <1>7

-----------------------------------------------------------------------------
(* The scheduler, the calls that change its jobs, and the users.           *)

\* A step in which no process acts.
LEMMA NobodyActs ==
    ASSUME AInv, UNCHANGED <<locals, lease>>, RestInv, JobsForward,
           AttemptsKept
    PROVE  AInv'
  <1>1. pc' = pc /\ handle' = handle /\ status' = status /\ lease' = lease
    BY DEF locals
  <1>2. OthersUnharmed(NoWorker)
    BY <1>1, RowsUnharmed DEF OthersKeep
  <1>3. ASSUME NEW v \in Workers
        PROVE  Local(v)'
    <2>1. v # NoWorker
      BY EngineAssumption
    <2>2. /\ lease[v] # NoLease /\ attempt[Attempt(v)].handle # NoHandle =>
                attempt'[Attempt(v)].handle = attempt[Attempt(v)].handle
          /\ HoldsLease(v)' =>
                /\ HoldsLease(v)
                /\ attempt'[Attempt(v)].handle = attempt[Attempt(v)].handle
      BY <1>2, <2>1 DEF OthersUnharmed
    <2> QED
      BY <1>1, <2>2, OtherLocal
  <1>4. AsyncTypes'
    BY <1>1 DEF AsyncTypes, RestInv, AInv
  <1> QED
    BY <1>3, <1>4 DEF AInv, RestInv

\* What a step leaves that changes jobs only.
LEMMA JobsRest ==
    ASSUME AInv, UNCHANGED <<vars, receipt, faults>>, JobsForward,
           job' \in [Handles -> JobRow], JobsAreNamed'
    PROVE  RestInv /\ AttemptsKept /\ \A w \in Workers : OthersUnharmed(w)
  <1>1. /\ UNCHANGED <<run, task, attempt, lease, clock, cancels, retries>>
        /\ receipt' = receipt /\ crashes' = crashes /\ errors' = errors
    BY DEF vars, faults
  <1>2. IInv'
    BY <1>1 DEF AInv, IInv, TokensApart
  <1>3. AttemptsKept /\ \A t \in Tasks : ResultKept(t)
    BY <1>1 DEF AttemptsKept, RowKept, ResultKept
  <1>4. ReceiptsOwn(receipt', job')
    <2> SUFFICES ASSUME NEW a \in AttemptIds, receipt[a] # NoHandle
                 PROVE  job'[receipt[a]].name = a
      BY <1>1 DEF ReceiptsOwn
    <2>1. receipt[a] \in Handles /\ job[receipt[a]].name = a
      BY DEF AInv, AsyncTypes, HandleIsOwnJob
    <2> QED
      BY <2>1, EmptyName DEF JobsForward
  <1>5. HandleIsOwnJob' /\ Blank(attempt') /\ SuccessHasJob'
    BY <1>3, <1>4, NamesKeptByRows
  <1>6. \A w \in Workers : OthersUnharmed(w)
    BY <1>1 DEF OthersUnharmed, HoldsLease
  <1> QED
    BY <1>1, <1>2, <1>3, <1>5, <1>6 DEF RestInv, AInv, AsyncTypes

\* A job that has not ended changes its state.
LEMMA JobMoves ==
    ASSUME AInv, NEW h \in Handles, job[h].state \in ActiveJob,
           NEW s \in ActiveJob \cup EndedJob,
           job' = [job EXCEPT ![h].state = s]
    PROVE  /\ JobsForward /\ job' \in [Handles -> JobRow] /\ JobsAreNamed'
  <1>1. job \in [Handles -> JobRow] /\ JobsAreNamed
    BY DEF AInv, AsyncTypes
  <1>2. \A g \in Handles :
           job'[g] = IF g = h THEN [job[h] EXCEPT !.state = s] ELSE job[g]
    BY <1>1
  <1>3. job[h] \in JobRow /\ [job[h] EXCEPT !.state = s] \in JobRow
        /\ [job[h] EXCEPT !.state = s].state = s
        /\ [job[h] EXCEPT !.state = s].name = job[h].name
    BY <1>1 DEF JobRow
  <1>4. job' \in [Handles -> JobRow]
    BY <1>1, <1>2, <1>3
  <1>5. job[h].state # "none" /\ s # "none" /\ job[h].state \notin EndedJob
    BY DEF ActiveJob, EndedJob
  <1>6. JobsForward /\ JobsAreNamed'
    BY <1>1, <1>2, <1>3, <1>5 DEF JobsForward, JobsAreNamed
  <1> QED
    BY <1>4, <1>6

LEMMA SchedulerStepInv ==
    ASSUME AInv, NEW h \in Handles, SchedulerStep(h)
    PROVE  AInv'
  <1>1. PICK s \in ActiveJob \cup EndedJob :
           job[h].state \in ActiveJob /\ job' = [job EXCEPT ![h].state = s]
    BY DEF SchedulerStep, JobStarts, JobEnds, ActiveJob
  <1>2. UNCHANGED <<vars, locals, receipt, faults>>
    BY DEF SchedulerStep, JobStarts, JobEnds
  <1>3. JobsForward /\ job' \in [Handles -> JobRow] /\ JobsAreNamed'
    BY <1>1, JobMoves
  <1>4. RestInv /\ AttemptsKept
    BY <1>2, <1>3, JobsRest
  <1> QED
    BY <1>2, <1>3, <1>4, NobodyActs DEF vars

LEMMA UserStepInv ==
    ASSUME AInv, IInv', UserStep
    PROVE  AInv'
  <1>1. UserWrites
    BY SubmitRunWrites, CancelRunWrites, RetryTaskWrites DEF UserStep, AInv
  <1>2. UNCHANGED <<locals, target>> /\ crashes' \in Nat /\ errors' \in Nat
    BY DEF UserStep, faults, AInv, AsyncTypes
  <1>3. AttemptsKept /\ lease' = lease /\ \A t \in Tasks : ResultKept(t)
    BY <1>1 DEF UserWrites, AttemptsKept
  <1>4. RestInv /\ JobsForward
    BY <1>2, <1>3, RestByRows
  <1> QED
    BY <1>2, <1>3, <1>4, NobodyActs

LEMMA CancelsJobInv ==
    ASSUME AInv, NEW w \in Workers, CancelsJob(w)
    PROVE  AInv'
  <1>1. /\ pc[w] = "cancel" /\ UNCHANGED <<vars, receipt, faults>>
        /\ handle[w] \in Handles
        /\ crashes' \in Nat /\ errors' \in Nat
    BY DEF CancelsJob, faults, AInv, AsyncTypes, Local, WithHandle
  <1>2. CASE job' = job /\ Continue(w, "release")
    BY <1>1, <1>2, Continues
       DEF target, PCs, Starting, WithHandle, Submitting
  <1>3. CASE job' = job /\ Continue(w, "finalize_canceled")
    BY <1>1, <1>3, Continues
       DEF target, PCs, Starting, WithHandle, Submitting
  <1>4. CASE /\ job[handle[w]].state \in ActiveJob
             /\ job' = [job EXCEPT ![handle[w]].state = "canceled"]
             /\ Continue(w, "finalize_canceled")
    <2>1. JobsForward /\ job' \in [Handles -> JobRow] /\ JobsAreNamed'
      BY <1>1, <1>4, JobMoves DEF EndedJob
    <2>2. RestInv /\ OthersUnharmed(w)
      BY <1>1, <2>1, JobsRest
    <2>3. /\ lease[w] # NoLease /\ lease' = lease /\ attempt' = attempt
          /\ lease[w].handle # NoHandle =>
                attempt[Attempt(w)].handle = lease[w].handle
      BY <1>1 DEF vars, AInv, Local
    <2>4. job[handle[w]].name = Attempt(w) /\ Attempt(w) \in AttemptIds
      BY <1>1, <2>3, LeaseAttempt, ConstantFacts DEF AInv, Local
    <2>5. job'[handle[w]].name = Attempt(w)
      BY <1>1, <2>1, <2>4, EmptyName DEF JobsForward
    <2>6. status[w] \in EndedJob => job'[handle[w]].state = status[w]
      BY <1>1, <2>1 DEF AInv, Local, JobsForward
    <2>7. Fits(w, "finalize_canceled", handle[w], status[w])
      BY <1>1, <2>5, <2>6, ConstantFacts DEF AInv, AsyncTypes, Fits, PCs,
         Starting, Submitting
    <2>8. Local(w)'
      BY <1>4, <2>3, <2>7, StaysLocal DEF Continue, Starting, Submitting
    <2>9. "finalize_canceled" \in PCs /\ status[w] \in TargetStates
      BY DEF PCs, AInv, AsyncTypes
    <2> QED
      BY <1>1, <1>4, <2>1, <2>2, <2>8, <2>9, WorkerStep DEF Continue
  <1>5. job \in [Handles -> JobRow] /\ job[handle[w]] \in JobRow
    BY <1>1 DEF AInv, AsyncTypes
  <1>6. job[handle[w]].state \notin ActiveJob =>
           [job EXCEPT ![handle[w]].state =
              IF @ \in ActiveJob THEN "canceled" ELSE @] = job
    BY <1>5 DEF JobRow
  <1> QED
    BY <1>1, <1>2, <1>3, <1>4, <1>6 DEF CancelsJob

LEMMA SubmitsJobInv ==
    ASSUME AInv, NEW w \in Workers, SubmitsJob(w)
    PROVE  AInv'
  <1> DEFINE unused == {x \in Handles : job[x] = NoJob}
             h == CHOOSE x \in unused : TRUE
             new == [name |-> Attempt(w), state |-> "queued"]
  <1>1. /\ pc[w] = "sbatch" /\ UNCHANGED <<vars, receipt, faults>>
        /\ unused # {} /\ job' = [job EXCEPT ![h] = new]
        /\ Goto(w, "write_receipt", h, "queued")
    BY DEF SubmitsJob
  <1>2. h \in Handles /\ job[h] = NoJob
    BY <1>1
  <1>3. /\ lease[w] # NoLease /\ Attempt(w) \in AttemptIds
        /\ lease[w].handle = NoHandle /\ lease' = lease
        /\ attempt' = attempt /\ HoldsLease(w)' = HoldsLease(w)
        /\ HoldsLease(w) => attempt[Attempt(w)].handle = lease[w].handle
    BY <1>1, LeaseAttempt DEF AInv, Local, Submitting, vars, HoldsLease
  <1> HIDE DEF unused, h
  <1>4. \A g \in Handles : job'[g] = IF g = h THEN new ELSE job[g]
    BY <1>1 DEF AInv, AsyncTypes
  <1>5. new \in JobRow /\ new.name # <<>> /\ new.state # "none"
    BY <1>3, EmptyName DEF JobRow, ActiveJob
  <1>6. JobsForward /\ job' \in [Handles -> JobRow] /\ JobsAreNamed'
    <2>1. job' \in [Handles -> JobRow]
      BY <1>1, <1>5 DEF AInv, AsyncTypes
    <2>2. JobsForward
      BY <1>2, <1>4 DEF JobsForward, NoJob, EndedJob
    <2>3. JobsAreNamed'
      BY <1>4, <1>5 DEF JobsAreNamed, AInv
    <2> QED
      BY <2>1, <2>2, <2>3
  <1>7. RestInv /\ OthersUnharmed(w)
    BY <1>1, <1>6, JobsRest
  <1>8. Fits(w, "write_receipt", h, "queued")
    BY <1>2, <1>3, <1>4, ConstantFacts
       DEF Fits, PCs, TargetStates, Starting, EndedJob
  <1>9. Local(w)'
    BY <1>1, <1>3, <1>8, StaysLocal
  <1>10. "write_receipt" \in PCs /\ "queued" \in TargetStates
    BY DEF PCs, TargetStates
  <1> QED
    BY <1>1, <1>2, <1>6, <1>7, <1>9, <1>10, WorkerStep

-----------------------------------------------------------------------------
(* The invariant and what follows from it.                                 *)

LEMMA AsyncNextInv == AInv /\ [AsyncNext]_avars => AInv'
  <1> SUFFICES ASSUME AInv, [AsyncNext]_avars PROVE AInv'
    OBVIOUS
  <1>1. CASE AsyncNext
    <2>1. IInv'
      BY <1>1, StepIsNext, NextInv DEF AInv
    <2>2. ASSUME NEW w \in Workers, WorkerCall(w)
          PROVE  AInv'
      BY <2>1, <2>2, BuildsRequestInv, ReadsAttemptStateInv, WritesIntentInv,
         FindsJobInv, SubmitsJobInv, WritesReceiptInv, RecordsSubmissionInv,
         RecordsStatusInv, ReadingCallsInv, FinalizingCallsInv, CompletesInv,
         SettlingCallsInv, CancelsJobInv
         DEF WorkerCall
    <2> QED
      BY <1>1, <2>1, <2>2, WorkerClaimsInv, CrashesInv, ReadingCallsInv,
         SchedulerStepInv, UserStepInv
         DEF AsyncNext
  <1>2. CASE UNCHANGED avars
    <2>1. /\ UNCHANGED <<run, task, attempt, lease, clock, cancels, retries>>
          /\ UNCHANGED <<pc, handle, status, job, receipt, crashes, errors>>
      BY <1>2 DEF avars
    <2>2. RestInv /\ JobsForward
      BY <2>1, RestUnchanged
         DEF vars, AInv, AsyncTypes, HandleIsOwnJob, ReceiptsOwn
    <2>3. AttemptsKept
      BY <2>1 DEF AttemptsKept, RowKept
    <2> QED
      BY <2>1, <2>2, <2>3, NobodyActs DEF locals
  <1> QED
    BY <1>1, <1>2

\* The invariant of the workers, the scheduler and the database together.
THEOREM AsyncInvariance == AsyncSpec => []AInv
  BY InitAInv, AsyncNextInv, PTL DEF AsyncSpec

\* AsyncWorker.run_once, over the runner and the scheduler, drives the
\* database only as engine.py allows: what is proved of WorkflowEngine for
\* arbitrary clients holds of the workers, crashes and scheduler faults
\* included.
THEOREM WorkersRefineEngine == AsyncSpec => Spec
  <1>1. AsyncInit => Init
    BY DEF AsyncInit
  <1>2. AInv /\ [AsyncNext]_avars => [Next]_vars
    BY StepIsNext DEF avars, vars
  <1> QED
    BY <1>1, <1>2, AsyncInvariance, PTL DEF AsyncSpec, Spec

\* Type correctness of the local variables of run_once, of the scheduler's
\* jobs and of the submission receipts.
THEOREM AsyncTypeCorrect == AsyncSpec => []AsyncTypeOK
  <1>1. AInv => AsyncTypeOK
    BY DEF AInv, IInv, Rows, RowTypes, TypeOK, AsyncTypes, JobRow, Local,
       AsyncTypeOK
  <1> QED
    BY <1>1, AsyncInvariance, PTL

\* The handle that record_submission stored, and the one in a receipt file,
\* are jobs that were submitted for this very attempt.
THEOREM HandlesAreOwnJobs == AsyncSpec => []HandleIsOwnJob
  <1>1. AInv => HandleIsOwnJob
    BY DEF AInv
  <1> QED
    BY <1>1, AsyncInvariance, PTL

\* complete_task stores no result that a job did not produce: the outputs of
\* a succeeded task are those of an attempt whose job ran to success.
THEOREM SuccessesHaveJobs == AsyncSpec => []SuccessHasJob
  <1>1. AInv => SuccessHasJob
    BY DEF AInv
  <1> QED
    BY <1>1, AsyncInvariance, PTL

\* Only record_submission writes a handle, that of its attempt.
LEMMA StepHandles ==
    ASSUME AInv, AsyncNext, NEW a \in AttemptIds
    PROVE  \/ attempt'[a].handle = attempt[a].handle
           \/ \E w \in Workers :
                 RecordsSubmission(w) /\ ~Stale(w) /\ a = Attempt(w)
  <1>1. CASE UserStep
    BY <1>1, SubmitRunWrites, CancelRunWrites, RetryTaskWrites
       DEF UserStep, AInv, UserWrites, RowKept
  <1>2. ASSUME NEW h \in Handles, SchedulerStep(h)
        PROVE  attempt'[a].handle = attempt[a].handle
    BY <1>2 DEF SchedulerStep, JobStarts, JobEnds, vars
  <1>3. ASSUME NEW w \in Workers, NEW E, WorkerClaims(w, E)
        PROVE  attempt'[a].handle = attempt[a].handle
    BY <1>3, ClaimTaskWrites
       DEF WorkerClaims, AInv, ClaimWrites, RowKept, RowTaken
  <1>4. ASSUME NEW w \in Workers,
               \/ Crashes(w) \/ CallFails(w) \/ TargetUnknown(w)
               \/ BuildsRequest(w) \/ ReadsAttemptState(w) \/ FindsJob(w)
               \/ SubmitsJob(w) \/ WritesReceipt(w) \/ Polls(w)
               \/ Collects(w) \/ Finalizes(w) \/ FinalizesFailed(w)
               \/ CancelsJob(w) \/ FinalizesCanceled(w) \/ Stale(w)
        PROVE  attempt'[a].handle = attempt[a].handle
    BY <1>4
       DEF Crashes, CallFails, TargetUnknown, BuildsRequest,
           ReadsAttemptState, FindsJob, SubmitsJob, WritesReceipt, Polls,
           Collects, Finalizes, FinalizesFailed, CancelsJob,
           FinalizesCanceled, Stale, LoseProcess, vars
  <1>5. ASSUME NEW w \in Workers, ~Stale(w),
               \/ WritesIntent(w) \/ RecordsStatus(w) \/ Completes(w)
               \/ Fails(w) \/ Releases(w) \/ MarksCanceled(w)
        PROVE  attempt'[a].handle = attempt[a].handle
    <2>1. CASE UNCHANGED vars
      BY <2>1 DEF vars
    <2>2. status[w] \in TargetStates /\ IInv
      BY DEF AInv, AsyncTypes
    <2>3. CASE \/ MarkSubmitting(w) \/ RecordTargetStatus(w, status[w])
               \/ CompleteTask(w) \/ FailTask(w) \/ ReleaseLease(w)
               \/ MarkAttemptCanceled(w)
      BY <2>2, <2>3, MarkSubmittingWrites, RecordTargetStatusWrites,
         CompleteTaskWrites, FailTaskWrites, ReleaseLeaseWrites,
         MarkAttemptCanceledWrites
         DEF HolderWrites, RowKept
    <2> QED
      BY <1>5, <2>1, <2>3 DEF WritesIntent, RecordsStatus, Completes, Fails,
         Releases, MarksCanceled
  <1>6. ASSUME NEW w \in Workers, ~Stale(w), RecordsSubmission(w),
               a # Attempt(w)
        PROVE  attempt'[a].handle = attempt[a].handle
    <2>1. /\ RecordSubmission(w, handle[w], status[w])
          /\ handle[w] \in Handles /\ status[w] \in TargetStates
      BY <1>6 DEF RecordsSubmission, AInv, AsyncTypes, Local, WithHandle
    <2> QED
      BY <1>6, <2>1, RecordSubmissionWrites DEF AInv
  <1> QED
    BY <1>1, <1>2, <1>3, <1>4, <1>5, <1>6 DEF AsyncNext, WorkerCall

LEMMA StepKeepsHandles ==
    ASSUME AInv, AsyncNext, NEW a \in AttemptIds,
           attempt[a].handle # NoHandle
    PROVE  attempt'[a].handle = attempt[a].handle
  <1>1. ASSUME NEW w \in Workers, ~Stale(w), RecordsSubmission(w)
        PROVE  a # Attempt(w)
    <2>1. /\ HoldsLease(w) /\ lease[w].handle = NoHandle
          /\ attempt[Attempt(w)].handle = lease[w].handle
      BY <1>1 DEF RecordsSubmission, RecordSubmission, AInv, Local, Submitting
    <2> QED
      BY <2>1
  <1> QED
    BY <1>1, StepHandles

\* docs/architecture.md:233: a handle that record_submission stored is never
\* erased and never replaced, whoever recovers the attempt, retries the task
\* or cancels the run, even when a stale worker records late.
THEOREM HandlesAreKept == AsyncSpec => HandlesKept
  <1>1. AInv /\ [AsyncNext]_avars =>
           [\A a \in AttemptIds :
               attempt[a].handle # NoHandle =>
                   attempt'[a].handle = attempt[a].handle]_avars
    BY StepKeepsHandles
  <1> QED
    BY <1>1, AsyncInvariance, PTL DEF AsyncSpec, HandlesKept

-----------------------------------------------------------------------------
(* One job per attempt.  From here on no lease expires while its process   *)
(* runs on, and no task is retried.  A retry leaves a live attempt behind, *)
(* whose recovery overwrites the token of the task; when that lease        *)
(* expires, the reset takes the current attempt from the process that is   *)
(* still submitting it.                                                    *)

\* A process that is submitting still has its lease, and it calls sbatch
\* only when no job bears the name of its attempt.
Sole(w) ==
    /\ pc[w] \in Submitting => HoldsLease(w)
    /\ pc[w] = "sbatch" => \A h \in Handles : job[h].name # Attempt(w)

DInv ==
    /\ PInv
    /\ AInv
    /\ NoDuplicateJob
    /\ \A w \in Workers : Sole(w)

LEMMA InitDInv == AsyncInit => DInv
  <1> SUFFICES ASSUME AsyncInit PROVE DInv
    OBVIOUS
  <1>1. PInv /\ AInv
    BY InitPInv, InitAInv DEF AsyncInit
  <1>2. NoDuplicateJob /\ \A w \in Workers : Sole(w)
    BY DEF AsyncInit, NoDuplicateJob, Sole, NoJob, Submitting
  <1> QED
    BY <1>1, <1>2 DEF DInv

\* The reset of expired leases spares the attempt of a process that runs on:
\* its task carries the token of the attempt or none.
LEMMA ResetSparesHolder ==
    ASSUME LeaseOutlivesStep, PInv, NEW w \in Workers, HoldsLease(w),
           NEW E \in ExpirySets
    PROVE  AttemptsAfterReset(E)[Attempt(w)] = attempt[Attempt(w)]
  <1> DEFINE a == Attempt(w)
             t == a[1]
  <1>1. /\ a \in AttemptIds /\ attempt[a].state \in LiveStates
        /\ attempt[a].token = lease[w].token /\ lease[w] # NoLease
        /\ t \in Tasks
    BY HeldIsLive, AttemptIdFacts DEF HoldsLease, Attempt, PInv
  <1>2. lease[w].token \notin E /\ NoToken \notin E
    BY <1>1 DEF ExpirySets, OrphanTokens, RecordedTokens
  <1>3. task[t].token \notin E
    BY <1>1, <1>2, TokenOfTask
  <1>4. a = Current(t) => attempt[Current(t)].token \notin E
    BY <1>1, <1>2
  <1>5. a = Current(t) => t \notin ExpiredTasks(E)
    BY <1>3, <1>4 DEF ExpiredTasks
  <1> QED
    BY <1>1, <1>5 DEF AttemptsAfterReset

\* A claim then writes other attempts only: the one it grants has no lease.
LEMMA ClaimSparesHolder ==
    ASSUME LeaseOutlivesStep, PInv, NEW w \in Workers, HoldsLease(w),
           NEW v, NEW E \in ExpirySets, ClaimTask(v, E)
    PROVE  attempt'[Attempt(w)] = attempt[Attempt(w)]
  <1> DEFINE a == Attempt(w)
             att == AttemptsAfterReset(E)
             tsk == TasksAfterReset(E)
  <1>1. /\ a \in AttemptIds /\ attempt[a].state \in LiveStates
        /\ attempt[a].token # NoToken
    BY HeldIsLive, ConstantFacts DEF HoldsLease, Attempt, PInv, IInv, Lease
  <1>2. att[a] = attempt[a]
    BY ResetSparesHolder
  <1>3. Rows(run, tsk, att)
    BY ResetInv DEF PInv, IInv
  <1>4. att \in [AttemptIds -> AttemptRow]
    BY <1>3 DEF Rows, RowTypes
  <1> HIDE DEF a, att, tsk
  <1>5. CASE ClaimNothing(v, E)
    BY <1>2, <1>5 DEF ClaimNothing, att, a
  <1>6. CASE ClaimRecovered(v, E)
    <2>1. PICK b \in Recoverable(v, att) : Recover(v, b, att, tsk)
      BY <1>6 DEF ClaimRecovered, att, tsk
    <2>2. b # a
      BY <1>1, <1>2, <2>1 DEF Recoverable
    <2>3. attempt' = [att EXCEPT ![b].worker = v, ![b].token = FreshToken]
      BY <2>1 DEF Recover
    <2> QED
      BY <1>1, <1>2, <1>4, <2>2, <2>3 DEF a
  <1>7. CASE ClaimReady(v, E)
    <2>1. PICK t \in Ready(v, tsk) : Start(v, t, att, tsk)
      BY <1>7 DEF ClaimReady, att, tsk
    <2> DEFINE n == tsk[t].attempt + 1
    <2>2. t \in Tasks /\ tsk[t].attempt < MaxAttempts /\ tsk[t] \in TaskRow
      BY <1>3, <2>1 DEF Ready, Rows, RowTypes
    <2>3. n \in Numbers /\ n > tsk[t].attempt
      <3>1. tsk[t].attempt \in 0 .. MaxAttempts
        BY <2>2 DEF TaskRow
      <3> QED
        BY <2>2, <3>1, ConstantFacts DEF Numbers
    <2>4. att[<<t, n>>].state = "none"
      BY <1>3, <2>2, <2>3 DEF Rows, NumberedInOrder
    <2>5. <<t, n>> # a
      BY <1>1, <1>2, <2>4 DEF LiveStates
    <2>6. PICK row : attempt' = [att EXCEPT ![<<t, n>>] = row]
      BY <2>1 DEF Start
    <2> HIDE DEF n
    <2> QED
      BY <1>1, <1>2, <1>4, <2>5, <2>6 DEF a
  <1> QED
    BY <1>5, <1>6, <1>7 DEF ClaimTask

\* No step of another actor takes the lease of an attempt that has no handle
\* on record.
LEMMA HolderSpared ==
    ASSUME LeaseOutlivesStep, PInv, AInv, NEW w \in Workers, HoldsLease(w),
           attempt[Attempt(w)].handle = NoHandle, lease'[w] = lease[w],
           \/ UNCHANGED attempt
           \/ UserStep
           \/ \E v \in Workers \ {w} :
                 \/ OnlyHeldWritten(v) /\ lease[v] # NoLease
                 \/ \E h \in Handles, s \in TargetStates :
                       RecordSubmission(v, h, s)
                 \/ \E E \in ExpirySets : ClaimTask(v, E)
    PROVE  HoldsLease(w)'
  <1> DEFINE a == Attempt(w)
  <1>1. /\ a \in AttemptIds /\ lease[w] # NoLease
        /\ attempt[a].token = lease[w].token /\ attempt[a].worker = w
        /\ lease[w].attempt = a
    BY HeldIsLive DEF HoldsLease, Attempt, PInv
  <1>2. SUFFICES /\ attempt'[a].token = attempt[a].token
                 /\ attempt'[a].worker = attempt[a].worker
    BY <1>1 DEF HoldsLease
  <1>3. CASE UNCHANGED attempt
    BY <1>3
  <1>4. CASE UserStep
    BY <1>1, <1>4, CancelRunWrites
       DEF UserStep, AInv, SubmitRun, RetryTask
  <1>5. ASSUME NEW v \in Workers \ {w}, OnlyHeldWritten(v),
               lease[v] # NoLease
        PROVE  attempt'[a] = attempt[a]
    BY <1>1, <1>5 DEF OnlyHeldWritten, PInv, IInv, TokensApart
  <1>6. ASSUME NEW v \in Workers \ {w}, NEW h \in Handles,
               NEW s \in TargetStates, RecordSubmission(v, h, s)
        PROVE  attempt'[a] = attempt[a]
    <2>1. Attempt(v) # a
      BY <1>1, <1>6 DEF RecordSubmission, HoldsLease, Attempt
    <2> QED
      BY <1>1, <1>6, <2>1, RecordSubmissionWrites, SMTT(30) DEF AInv
  <1>7. ASSUME NEW v \in Workers \ {w}, NEW E \in ExpirySets,
               ClaimTask(v, E)
        PROVE  attempt'[a] = attempt[a]
    BY <1>7, ClaimSparesHolder
  <1> QED
    BY <1>3, <1>4, <1>5, <1>6, <1>7

\* The steps of process w.
Acts(w) ==
    \/ \E E \in ExpirySets : WorkerClaims(w, E)
    \/ WorkerCall(w) \/ Crashes(w) \/ CallFails(w) \/ TargetUnknown(w)

\* What a step of process v does to the attempts.
CallWrites(v) ==
    \/ UNCHANGED attempt
    \/ OnlyHeldWritten(v) /\ lease[v] # NoLease
    \/ \E h \in Handles, s \in TargetStates : RecordSubmission(v, h, s)
    \/ \E E \in ExpirySets : ClaimTask(v, E)

LEMMA ActsMoves ==
    ASSUME AInv, NEW v \in Workers, Acts(v), NEW w \in Workers, w # v
    PROVE  pc'[w] = pc[w] /\ handle'[w] = handle[w] /\ status'[w] = status[w]
  <1>1. UNCHANGED locals \/ \E p, h, s : Goto(v, p, h, s)
    BY DEF Acts, WorkerClaims, WorkerCall, Crashes, CallFails, TargetUnknown,
       BuildsRequest, ReadsAttemptState, WritesIntent, FindsJob, SubmitsJob,
       WritesReceipt, RecordsSubmission, Polls, RecordsStatus, Collects,
       Finalizes, Completes, FinalizesFailed, Fails, Releases, CancelsJob,
       FinalizesCanceled, MarksCanceled, Stale, Continue, Return
  <1> QED
    BY <1>1 DEF locals, Goto, AInv, AsyncTypes

LEMMA ActsWrites ==
    ASSUME AInv, NEW v \in Workers, Acts(v)
    PROVE  CallWrites(v) /\ OthersKeep(v)
  <1>1. CASE \E E \in ExpirySets : WorkerClaims(v, E)
    <2>1. PICK E \in ExpirySets : WorkerClaims(v, E)
      BY <1>1
    <2>2. ClaimTask(v, E) /\ ClaimWrites(v)
      BY <2>1, ClaimTaskWrites DEF WorkerClaims, AInv
    <2> QED
      BY <2>2 DEF CallWrites, ClaimWrites
  <1>2. CASE UNCHANGED vars
    BY <1>2 DEF vars, CallWrites, OthersKeep
  <1>3. CASE LoseProcess(v)
    BY <1>3, LoseProcessWrites DEF LoseProcess, AInv, CallWrites, HolderWrites
  <1>4. CASE RecordsSubmission(v) /\ ~Stale(v)
    <2>1. handle[v] \in Handles /\ status[v] \in TargetStates
      BY <1>4 DEF RecordsSubmission, AInv, AsyncTypes, Local, WithHandle
    <2>2. RecordSubmission(v, handle[v], status[v])
      BY <1>4 DEF RecordsSubmission
    <2> QED
      BY <2>1, <2>2 DEF CallWrites, RecordSubmission, OthersKeep
  <1>5. CASE \/ MarkSubmitting(v) \/ RecordTargetStatus(v, status[v])
             \/ CompleteTask(v) \/ FailTask(v) \/ ReleaseLease(v)
             \/ MarkAttemptCanceled(v)
    <2>1. IInv /\ status[v] \in TargetStates
      BY DEF AInv, AsyncTypes
    <2>2. lease[v] # NoLease
      BY <1>5 DEF MarkSubmitting, RecordTargetStatus, CompleteTask, FailTask,
         ReleaseLease, MarkAttemptCanceled, HoldsLease
    <2>3. OnlyHeldWritten(v) /\ OthersKeep(v)
      BY <1>5, <2>1, MarkSubmittingWrites, RecordTargetStatusWrites,
         CompleteTaskWrites, FailTaskWrites, ReleaseLeaseWrites,
         MarkAttemptCanceledWrites
         DEF HolderWrites
    <2> QED
      BY <2>2, <2>3 DEF CallWrites
  <1>6. CASE Crashes(v) \/ CallFails(v) \/ TargetUnknown(v)
    BY <1>2, <1>3, <1>6 DEF Crashes, CallFails, TargetUnknown
  <1>7. CASE WorkerCall(v)
    <2>1. CASE BuildsRequest(v)
      BY <1>2, <1>3, <2>1 DEF BuildsRequest
    <2>2. CASE WritesIntent(v) \/ RecordsStatus(v) \/ Completes(v)
               \/ Fails(v) \/ Releases(v) \/ MarksCanceled(v)
      BY <1>2, <1>5, <2>2
         DEF WritesIntent, RecordsStatus, Completes, Fails, Releases,
             MarksCanceled, Stale
    <2>3. CASE RecordsSubmission(v)
      BY <1>2, <1>4, <2>3 DEF Stale
    <2>4. CASE \/ ReadsAttemptState(v) \/ FindsJob(v) \/ SubmitsJob(v)
               \/ WritesReceipt(v) \/ Polls(v) \/ Collects(v) \/ Finalizes(v)
               \/ FinalizesFailed(v) \/ CancelsJob(v) \/ FinalizesCanceled(v)
      BY <1>2, <2>4
         DEF ReadsAttemptState, FindsJob, SubmitsJob, WritesReceipt, Polls,
             Collects, Finalizes, FinalizesFailed, CancelsJob,
             FinalizesCanceled, Stale
    <2> QED
      BY <1>7, <2>1, <2>2, <2>3, <2>4 DEF WorkerCall
  <1> QED
    BY <1>1, <1>6, <1>7 DEF Acts

\* The process whose step it is, if it is the step of a process.
LEMMA WhoActs ==
    ASSUME AsyncNext
    PROVE  \/ \E w \in Workers : Acts(w)
           \/ UserStep
           \/ \E h \in Handles : SchedulerStep(h)
  BY DEF AsyncNext, Acts

\* A submitting process keeps its lease while others act.
LEMMA BystanderHolds ==
    ASSUME LeaseOutlivesStep, PInv, AInv, AsyncNext, NEW w \in Workers,
           ~Acts(w)
    PROVE  /\ pc'[w] = pc[w] /\ handle'[w] = handle[w]
           /\ status'[w] = status[w] /\ lease'[w] = lease[w]
           /\ HoldsLease(w) /\ attempt[Attempt(w)].handle = NoHandle =>
                 HoldsLease(w)'
  <1>1. CASE UserStep
    <2>1. pc' = pc /\ handle' = handle /\ status' = status /\ lease' = lease
      BY <1>1 DEF UserStep, locals, SubmitRun, CancelRun, RetryTask
    <2> QED
      BY <1>1, <2>1, HolderSpared
  <1>2. CASE \E h \in Handles : SchedulerStep(h)
    <2>1. /\ pc' = pc /\ handle' = handle /\ status' = status
          /\ lease' = lease /\ attempt' = attempt
      BY <1>2 DEF SchedulerStep, JobStarts, JobEnds, vars, locals
    <2> QED
      BY <2>1, HolderSpared
  <1>3. ASSUME NEW v \in Workers, Acts(v)
        PROVE  /\ pc'[w] = pc[w] /\ handle'[w] = handle[w]
               /\ status'[w] = status[w] /\ lease'[w] = lease[w]
               /\ HoldsLease(w) /\ attempt[Attempt(w)].handle = NoHandle =>
                     HoldsLease(w)'
    <2>1. w # v
      BY <1>3
    <2>2. /\ pc'[w] = pc[w] /\ handle'[w] = handle[w]
          /\ status'[w] = status[w]
      BY <1>3, <2>1, ActsMoves
    <2>3. CallWrites(v) /\ lease'[w] = lease[w]
      BY <1>3, <2>1, ActsWrites DEF OthersKeep
    <2>4. HoldsLease(w) /\ attempt[Attempt(w)].handle = NoHandle =>
             HoldsLease(w)'
      BY <2>1, <2>3, HolderSpared DEF CallWrites
    <2> QED
      BY <2>2, <2>3, <2>4
  <1> QED
    BY <1>1, <1>2, <1>3, WhoActs

\* Only sbatch gives a job its name.
LEMMA NamesStay ==
    ASSUME AInv, AsyncNext, \A w \in Workers : ~SubmitsJob(w),
           NEW h \in Handles
    PROVE  job'[h].name = job[h].name
  <1>1. CASE job' = job
    BY <1>1
  <1>2. ASSUME NEW g \in Handles, NEW s, job' = [job EXCEPT ![g].state = s]
        PROVE  job'[h].name = job[h].name
    <2>1. job[g] \in JobRow /\ job \in [Handles -> JobRow]
      BY DEF AInv, AsyncTypes
    <2> QED
      BY <1>2, <2>1 DEF JobRow
  <1>3. CASE UserStep
    BY <1>1, <1>3 DEF UserStep, target
  <1>4. ASSUME NEW g \in Handles, SchedulerStep(g)
        PROVE  job'[h].name = job[h].name
    BY <1>2, <1>4 DEF SchedulerStep, JobStarts, JobEnds
  <1>5. ASSUME NEW w \in Workers, CancelsJob(w)
        PROVE  job'[h].name = job[h].name
    <2>1. handle[w] \in Handles
      BY <1>5 DEF CancelsJob, AInv, AsyncTypes, Local, WithHandle
    <2> QED
      BY <1>1, <1>2, <1>5, <2>1 DEF CancelsJob
  <1>6. ASSUME NEW w \in Workers, Acts(w), ~CancelsJob(w)
        PROVE  job' = job
    BY <1>6
       DEF Acts, WorkerClaims, WorkerCall, Crashes, CallFails, TargetUnknown,
           BuildsRequest, ReadsAttemptState, WritesIntent, FindsJob,
           WritesReceipt, RecordsSubmission, Polls, RecordsStatus, Collects,
           Finalizes, Completes, FinalizesFailed, Fails, Releases,
           FinalizesCanceled, MarksCanceled, Stale, target
  <1> QED
    BY <1>1, <1>3, <1>4, <1>5, <1>6, WhoActs

\* What sbatch does to the names of the jobs.
LEMMA SubmitsJobNames ==
    ASSUME AInv, NEW w \in Workers, SubmitsJob(w)
    PROVE  \E h \in Handles :
              /\ job[h].name = <<>>
              /\ \A g \in Handles :
                    job'[g].name = IF g = h THEN Attempt(w) ELSE job[g].name
  <1> DEFINE unused == {x \in Handles : job[x] = NoJob}
             h == CHOOSE x \in unused : TRUE
             new == [name |-> Attempt(w), state |-> "queued"]
  <1>1. unused # {} /\ job' = [job EXCEPT ![h] = new]
    BY DEF SubmitsJob
  <1>2. h \in Handles /\ job[h] = NoJob
    BY <1>1
  <1> HIDE DEF unused, h
  <1>3. \A g \in Handles : job'[g] = IF g = h THEN new ELSE job[g]
    BY <1>1 DEF AInv, AsyncTypes
  <1> QED
    BY <1>2, <1>3 DEF NoJob

\* How a process comes to submit, and to call sbatch.
LEMMA ComesToSubmit ==
    ASSUME AInv, NEW w \in Workers, Acts(w), pc'[w] \in Submitting
    PROVE  /\ lease'[w] = lease[w]
           /\ pc[w] \in Submitting \/ HoldsLease(w)
           /\ UNCHANGED attempt \/ MarkSubmitting(w)
           /\ pc'[w] = "sbatch" => FindsJob(w) /\ FoundByName(Attempt(w)) = {}
  <1> USE DEF Submitting
  <1>0. /\ \A p, h, s : Goto(w, p, h, s) => pc'[w] = p
        /\ locals' = locals => pc'[w] = pc[w]
    BY DEF Goto, locals, AInv, AsyncTypes
  <1>1. CASE BuildsRequest(w) \/ ReadsAttemptState(w)
    BY <1>0, <1>1 DEF BuildsRequest, ReadsAttemptState, Continue, Return,
       Stale, vars
  <1>2. CASE WritesIntent(w)
    BY <1>0, <1>2 DEF WritesIntent, Continue, Stale, MarkSubmitting
  <1>3. CASE FindsJob(w)
    BY <1>0, <1>3 DEF FindsJob, Continue, vars
  <1>4. CASE SubmitsJob(w) \/ WritesReceipt(w)
    BY <1>0, <1>4 DEF SubmitsJob, WritesReceipt, Continue, vars
  <1>5. CASE RecordsSubmission(w) \/ RecordsStatus(w)
    <2>1. PICK p \in {"failing", "cancel", AfterStatus(status[w])} :
             Continue(w, p)
      BY <1>5 DEF RecordsSubmission, RecordsStatus, Stale
    <2>2. p \in {"failing", "cancel", "collect", "release"}
      BY DEF AfterStatus
    <2> QED
      BY <1>0, <2>1, <2>2 DEF Continue
  <1>6. CASE \/ Polls(w) \/ Collects(w) \/ Finalizes(w) \/ Completes(w)
             \/ FinalizesFailed(w) \/ Fails(w) \/ Releases(w)
             \/ CancelsJob(w) \/ FinalizesCanceled(w) \/ MarksCanceled(w)
             \/ Crashes(w) \/ CallFails(w) \/ TargetUnknown(w)
    BY <1>0, <1>6 DEF Polls, Collects, Finalizes, Completes, FinalizesFailed,
       Fails, Releases, CancelsJob, FinalizesCanceled, MarksCanceled, Crashes,
       CallFails, TargetUnknown, Continue, Return, Stale
  <1>7. CASE \E E \in ExpirySets : WorkerClaims(w, E)
    BY <1>0, <1>7 DEF WorkerClaims, Continue
  <1> QED
    BY <1>1, <1>2, <1>3, <1>4, <1>5, <1>6, <1>7 DEF Acts, WorkerCall

LEMMA NextDInv ==
    ASSUME LeaseOutlivesStep, MaxRetries = 0
    PROVE  DInv /\ [AsyncNext]_avars => DInv'
  <1> SUFFICES ASSUME DInv, AsyncNext PROVE DInv'
    <2>1. DInv /\ UNCHANGED avars => DInv'
      <3> SUFFICES ASSUME DInv, UNCHANGED avars PROVE DInv'
        OBVIOUS
      <3>1. AInv'
        BY AsyncNextInv DEF DInv
      <3>2. PInv'
        BY NextPInv DEF DInv, avars, vars
      <3>3. NoDuplicateJob' /\ \A w \in Workers : Sole(w)'
        BY DEF DInv, NoDuplicateJob, Sole, avars, HoldsLease, Attempt
      <3> QED
        BY <3>1, <3>2, <3>3 DEF DInv
    <2> QED
      BY <2>1
  <1>1. AInv /\ PInv /\ AInv'
    BY AsyncNextInv DEF DInv
  <1>2. PInv'
    BY <1>1, StepIsNext, NextPInv
  <1>3. \A w \in Workers :
           pc[w] \in Submitting => /\ HoldsLease(w)
                                   /\ attempt[Attempt(w)].handle = NoHandle
                                   /\ Attempt(w) \in AttemptIds
    BY <1>1, LeaseAttempt DEF DInv, Sole, AInv, Local, HoldsLease
  <1>4. NoDuplicateJob'
    <2>1. CASE \A w \in Workers : ~SubmitsJob(w)
      <3>1. \A h \in Handles : job'[h].name = job[h].name
        BY <1>1, <2>1, NamesStay
      <3>2. ASSUME NEW h \in Handles, job'[h] # NoJob
            PROVE  job[h] # NoJob
        <4>1. job'[h] \in JobRow
          BY <1>1 DEF AInv, AsyncTypes
        <4>2. job'[h].name # <<>>
          BY <1>1, <3>2, <4>1 DEF AInv, JobsAreNamed, JobRow, NoJob
        <4> QED
          BY <3>1, <4>2 DEF NoJob
      <3> QED
        BY <3>1, <3>2 DEF DInv, NoDuplicateJob
    <2>2. ASSUME NEW w \in Workers, SubmitsJob(w)
          PROVE  NoDuplicateJob'
      <3>1. PICK h \in Handles :
               /\ job[h].name = <<>>
               /\ \A g \in Handles :
                     job'[g].name = IF g = h THEN Attempt(w) ELSE job[g].name
        BY <1>1, <2>2, SubmitsJobNames
      <3>2. \A g \in Handles : job[g].name # Attempt(w)
        BY <2>2 DEF SubmitsJob, DInv, Sole
      <3>3. ASSUME NEW g \in Handles, job'[g] # NoJob, g # h
            PROVE  job[g] # NoJob
        <4>1. job'[g] \in JobRow
          BY <1>1 DEF AInv, AsyncTypes
        <4>2. job'[g].name # <<>>
          BY <1>1, <3>3, <4>1 DEF AInv, JobsAreNamed, JobRow, NoJob
        <4> QED
          BY <3>1, <3>3, <4>2 DEF NoJob
      <3> QED
        BY <3>1, <3>2, <3>3 DEF DInv, NoDuplicateJob
    <2> QED
      BY <2>1, <2>2
  <1>5. ASSUME NEW w \in Workers
        PROVE  Sole(w)'
    <2>1. CASE Acts(w)
      <3> SUFFICES ASSUME pc'[w] \in Submitting
                   PROVE  Sole(w)'
        BY DEF Sole, Submitting
      <3>1. /\ lease'[w] = lease[w] /\ HoldsLease(w)
            /\ UNCHANGED attempt \/ MarkSubmitting(w)
            /\ pc'[w] = "sbatch" =>
                  FindsJob(w) /\ FoundByName(Attempt(w)) = {}
        BY <1>1, <1>3, <2>1, ComesToSubmit
      <3>2. HoldsLease(w)'
        <4>1. Attempt(w) \in AttemptIds
          BY <1>1, <3>1, LeaseAttempt DEF AInv, HoldsLease
        <4>2. attempt \in [AttemptIds -> AttemptRow]
          BY <1>1 DEF AInv, IInv, Rows, RowTypes
        <4>3. /\ attempt'[Attempt(w)].worker = attempt[Attempt(w)].worker
              /\ attempt'[Attempt(w)].token = attempt[Attempt(w)].token
          BY <3>1, <4>1, <4>2 DEF MarkSubmitting, Attempt, AttemptRow
        <4> QED
          BY <3>1, <4>3 DEF HoldsLease, Attempt
      <3>3. ASSUME pc'[w] = "sbatch", NEW h \in Handles
            PROVE  job'[h].name # Attempt(w)'
        <4>1. FindsJob(w) /\ FoundByName(Attempt(w)) = {}
              /\ Attempt(w)' = Attempt(w) /\ job' = job
          BY <3>1, <3>3 DEF FindsJob, Attempt
        <4>2. job[h].name = Attempt(w) => h \in FoundByName(Attempt(w))
          <5>1. Attempt(w) \in AttemptIds
            BY <1>1, <3>1, LeaseAttempt DEF AInv, HoldsLease
          <5>2. ASSUME job[h].name = Attempt(w)
                PROVE  job[h].state \in ActiveJob \cup EndedJob
            BY <1>1, <5>1, <5>2, JobOfAttempt
          <5> QED
            BY <4>1, <5>2 DEF FoundByName, JobsNamed
        <4> QED
          BY <4>1, <4>2
      <3> QED
        BY <3>2, <3>3 DEF Sole
    <2>2. CASE ~Acts(w)
      <3>1. /\ pc'[w] = pc[w] /\ lease'[w] = lease[w]
            /\ pc[w] \in Submitting => HoldsLease(w)'
        BY <1>1, <1>3, <2>2, BystanderHolds
      <3>2. ASSUME pc[w] = "sbatch", NEW h \in Handles
            PROVE  job'[h].name # Attempt(w)
        <4>1. /\ job[h].name # Attempt(w) /\ HoldsLease(w)
              /\ Attempt(w) \in AttemptIds
          BY <1>3, <3>2 DEF DInv, Sole, Submitting
        <4>2. CASE \A v \in Workers : ~SubmitsJob(v)
          BY <1>1, <4>1, <4>2, NamesStay
        <4>3. ASSUME NEW v \in Workers, SubmitsJob(v)
              PROVE  job'[h].name # Attempt(w)
          <5>1. v # w
            BY <2>2, <4>3 DEF Acts, WorkerCall
          <5>2. HoldsLease(v)
            BY <1>3, <4>3 DEF SubmitsJob, Submitting
          <5>3. Attempt(v) # Attempt(w)
            BY <4>1, <5>1, <5>2 DEF HoldsLease, Attempt
          <5> QED
            BY <1>1, <4>1, <4>3, <5>3, SubmitsJobNames, EmptyName
        <4> QED
          BY <4>2, <4>3
      <3> QED
        BY <3>1, <3>2 DEF Sole, Attempt
    <2> QED
      BY <2>1, <2>2
  <1> QED
    BY <1>1, <1>2, <1>4, <1>5 DEF DInv

\* Between the recovery of an attempt and the record of its submission
\* (worker.py:352-365) the process that submits holds the lease of the
\* attempt and no job has the name of the attempt, in every reachable state.
THEOREM SubmissionInvariance ==
    ASSUME LeaseOutlivesStep, MaxRetries = 0
    PROVE  AsyncSpec => []DInv
  <1>1. DInv /\ [AsyncNext]_avars => DInv'
    BY NextDInv
  <1> QED
    BY <1>1, InitDInv, PTL DEF AsyncSpec

\* docs/hpc-execution.md:28: a worker that crashes between sbatch and the
\* database, or before it wrote the receipt, leaves a job that its successor
\* finds.  However often workers crash and calls fail, an attempt never has
\* two jobs, if leases outlive the steps of their processes.
THEOREM NoDuplicateJobs ==
    ASSUME LeaseOutlivesStep, MaxRetries = 0
    PROVE  AsyncSpec => []NoDuplicateJob
  <1>1. DInv => NoDuplicateJob
    BY DEF DInv
  <1> QED
    BY <1>1, SubmissionInvariance, PTL

-----------------------------------------------------------------------------
(* No failure that is not the job's.  What a step does to tokens, and how  *)
(* an attempt comes to be failed, or to be at the target.                  *)

AtTarget == {"submitted", "running", "collecting"}

TokenKept(a) ==
    \/ attempt'[a].worker = attempt[a].worker
       /\ attempt'[a].token = attempt[a].token
    \/ attempt'[a].worker = NoWorker /\ attempt'[a].token = NoToken
    \/ \E w \in Workers : RowTaken(a, w)

TokensGo ==
    /\ \A a \in AttemptIds : TokenKept(a)
    /\ \A t \in Tasks : TaskKept(t) \/ TaskTaken(t)

\* The attempt does not come to be failed, or to be at the target.
Calm(a) ==
    attempt'[a].state \in {"failed"} \cup AtTarget =>
        attempt[a].state = attempt'[a].state

LEMMA CallTokens ==
    ASSUME AInv, NEW w \in Workers, Acts(w)
    PROVE  TokensGo
  <1> USE DEF TokensGo, TokenKept
  <1>1. CASE \E E \in ExpirySets : WorkerClaims(w, E)
    <2>1. ClaimWrites(w)
      BY <1>1, ClaimTaskWrites DEF WorkerClaims, AInv
    <2> QED
      BY <2>1 DEF ClaimWrites, RowKept
  <1>2. CASE UNCHANGED vars
    BY <1>2 DEF vars, TaskKept
  <1>3. CASE LoseProcess(w)
    BY <1>3 DEF LoseProcess, TaskKept
  <1>4. CASE RecordsSubmission(w) /\ ~Stale(w)
    <2>1. handle[w] \in Handles /\ status[w] \in TargetStates
      BY <1>4 DEF RecordsSubmission, AInv, AsyncTypes, Local, WithHandle
    <2>2. RecordSubmission(w, handle[w], status[w])
      BY <1>4 DEF RecordsSubmission
    <2>3. /\ \A a \in AttemptIds : a # Attempt(w) => attempt'[a] = attempt[a]
          /\ attempt'[Attempt(w)].worker = attempt[Attempt(w)].worker
          /\ attempt'[Attempt(w)].token = attempt[Attempt(w)].token
          /\ task' = task
      BY <2>1, <2>2, RecordSubmissionWrites DEF AInv
    <2> QED
      BY <2>3 DEF TaskKept
  <1>5. CASE \/ MarkSubmitting(w) \/ RecordTargetStatus(w, status[w])
             \/ CompleteTask(w) \/ FailTask(w) \/ ReleaseLease(w)
             \/ MarkAttemptCanceled(w)
    <2>1. IInv /\ status[w] \in TargetStates
      BY DEF AInv, AsyncTypes
    <2>2. /\ \A a \in AttemptIds : RowKept(a)
          /\ \A t \in Tasks : TaskKept(t)
      BY <1>5, <2>1, MarkSubmittingWrites, RecordTargetStatusWrites,
         CompleteTaskWrites, FailTaskWrites, ReleaseLeaseWrites,
         MarkAttemptCanceledWrites
         DEF HolderWrites
    <2> QED
      BY <2>2 DEF RowKept
  <1>6. CASE Crashes(w) \/ CallFails(w) \/ TargetUnknown(w)
    BY <1>2, <1>3, <1>6 DEF Crashes, CallFails, TargetUnknown
  <1>7. CASE WorkerCall(w)
    <2>1. CASE BuildsRequest(w)
      BY <1>2, <1>3, <2>1 DEF BuildsRequest
    <2>2. CASE WritesIntent(w) \/ RecordsStatus(w) \/ Completes(w)
               \/ Fails(w) \/ Releases(w) \/ MarksCanceled(w)
      BY <1>2, <1>5, <2>2
         DEF WritesIntent, RecordsStatus, Completes, Fails, Releases,
             MarksCanceled, Stale
    <2>3. CASE RecordsSubmission(w)
      BY <1>2, <1>4, <2>3 DEF Stale
    <2>4. CASE \/ ReadsAttemptState(w) \/ FindsJob(w) \/ SubmitsJob(w)
               \/ WritesReceipt(w) \/ Polls(w) \/ Collects(w) \/ Finalizes(w)
               \/ FinalizesFailed(w) \/ CancelsJob(w) \/ FinalizesCanceled(w)
      BY <1>2, <2>4
         DEF ReadsAttemptState, FindsJob, SubmitsJob, WritesReceipt, Polls,
             Collects, Finalizes, FinalizesFailed, CancelsJob,
             FinalizesCanceled, Stale
    <2> QED
      BY <1>7, <2>1, <2>2, <2>3, <2>4 DEF WorkerCall
  <1> QED
    BY <1>1, <1>6, <1>7 DEF Acts

LEMMA StepTokens ==
    ASSUME AInv, AsyncNext
    PROVE  TokensGo
  <1>1. CASE UserStep
    <2>1. UserWrites
      BY <1>1, SubmitRunWrites, CancelRunWrites, RetryTaskWrites
         DEF UserStep, AInv
    <2> QED
      BY <2>1 DEF UserWrites, RowKept, TokensGo, TokenKept
  <1>2. CASE \E h \in Handles : SchedulerStep(h)
    BY <1>2 DEF SchedulerStep, JobStarts, JobEnds, vars, TokensGo, TokenKept,
       TaskKept
  <1> QED
    BY <1>1, <1>2, CallTokens, WhoActs

\* A lease that settles its task now did so before: no step hands out the
\* token of a lease again.
LEMMA SettlerWas ==
    ASSUME AInv, TokensGo, NEW w \in Workers, lease[w] # NoLease,
           lease'[w] = lease[w], SettlesTask(w)'
    PROVE  SettlesTask(w)
  <1> DEFINE a == lease[w].attempt
             t == a[1]
  <1>1. /\ a \in AttemptIds /\ t \in Tasks /\ lease[w].token # NoToken
        /\ task'[t].state = "running" /\ task'[t].token = lease[w].token
        /\ attempt'[a].token = lease[w].token
    BY LeaseAttempt, ConstantFacts DEF AInv, Attempt, SettlesTask
  <1>2. TaskKept(t) /\ TokenKept(a)
        /\ \A v \in Workers : ~RowTaken(a, v)
    BY <1>1, FreshTokenFacts DEF TokensGo, TaskTaken, RowTaken
  <1> QED
    BY <1>1, <1>2 DEF TaskKept, TokenKept, SettlesTask

\* A call that writes the row of one attempt.
LEMMA CalmRow ==
    ASSUME AInv, NEW b, NEW row, attempt' = [attempt EXCEPT ![b] = row],
           row.state \in {"failed"} \cup AtTarget =>
               row.state = attempt[b].state,
           NEW a \in AttemptIds
    PROVE  Calm(a)
  BY DEF Calm, AInv, IInv, Rows, RowTypes

LEMMA ClaimCalm ==
    ASSUME AInv, NEW w \in Workers, NEW E, ClaimTask(w, E),
           NEW a \in AttemptIds
    PROVE  Calm(a)
  <1> DEFINE att == AttemptsAfterReset(E)
             tsk == TasksAfterReset(E)
  <1>1. /\ Rows(run, task, attempt) /\ Rows(run, tsk, att)
    BY ResetInv DEF AInv, IInv
  <1>2. \/ att[a].state = attempt[a].state
        \/ att[a].state \in {"canceled", "abandoned"}
    BY <1>1, ResetAttempt
  <1>3. att \in [AttemptIds -> AttemptRow] /\ att[a] \in AttemptRow
    BY <1>1 DEF Rows, RowTypes
  <1> HIDE DEF att, tsk
  <1>4. \/ attempt'[a].state = att[a].state \/ attempt'[a].state = "leased"
    <2>1. CASE ClaimNothing(w, E)
      BY <2>1 DEF ClaimNothing, att
    <2>2. CASE ClaimRecovered(w, E)
      <3>1. PICK b \in Recoverable(w, att) : Recover(w, b, att, tsk)
        BY <2>2 DEF ClaimRecovered, att, tsk
      <3>2. attempt' = [att EXCEPT ![b].worker = w, ![b].token = FreshToken]
        BY <3>1 DEF Recover
      <3>3. b \in AttemptIds
        BY DEF Recoverable
      <3>4. attempt' = [att EXCEPT ![b] = [att[b] EXCEPT !.worker = w,
                                                         !.token = FreshToken]]
        BY <1>3, <3>2, <3>3
      <3>5. CASE a = b
        <4>1. attempt'[a] = [att[a] EXCEPT !.worker = w, !.token = FreshToken]
          BY <1>3, <3>4, <3>5
        <4> QED
          BY <1>3, <4>1 DEF AttemptRow
      <3>6. CASE a # b
        BY <1>3, <3>4, <3>6
      <3> QED
        BY <3>5, <3>6
    <2>3. CASE ClaimReady(w, E)
      <3>1. PICK t \in Ready(w, tsk) : Start(w, t, att, tsk)
        BY <2>3 DEF ClaimReady, att, tsk
      <3> DEFINE row == [state |-> "leased", worker |-> w,
                         token |-> FreshToken, handle |-> NoHandle,
                         startedAt |-> clock + 1]
                 b == <<t, tsk[t].attempt + 1>>
      <3>2. attempt' = [att EXCEPT ![b] = row] /\ row.state = "leased"
        BY <3>1 DEF Start
      <3> HIDE DEF row, b
      <3> QED
        BY <1>3, <3>2
    <2> QED
      BY <2>1, <2>2, <2>3 DEF ClaimTask
  <1> QED
    BY <1>2, <1>4 DEF Calm, AtTarget

\* The calls of a lease holder that neither fail nor report.
LEMMA QuietCallCalm ==
    ASSUME AInv, NEW w \in Workers,
           \/ MarkSubmitting(w) \/ ReleaseLease(w)
           \/ MarkAttemptCanceled(w) \/ CompleteTask(w),
           NEW a \in AttemptIds
    PROVE  Calm(a)
  <1> DEFINE b == Attempt(w)
  <1>1. ASSUME attempt[b].token = lease[w].token, lease[w] # NoLease
        PROVE  attempt[b] \in AttemptRow
    BY <1>1, HeldIsLive DEF AInv, Attempt
  <1>2. CASE attempt' = attempt
    BY <1>2 DEF Calm
  <1>3. CASE MarkSubmitting(w)
    <2> DEFINE row == [attempt[b] EXCEPT !.state =
                         IF @ = "cancel_requested" THEN @ ELSE "submitting"]
    <2>1. attempt' = [attempt EXCEPT ![b] = row]
      BY <1>3 DEF MarkSubmitting, Attempt
    <2>2. row.state \in {"cancel_requested", "submitting"}
      BY <1>1, <1>3 DEF MarkSubmitting, HoldsLease, Attempt, AttemptRow
    <2> HIDE DEF row
    <2> QED
      BY <2>1, <2>2, CalmRow DEF AtTarget
  <1>4. CASE ReleaseLease(w)
    <2>1. attempt' = [attempt EXCEPT ![b] = Unleased(attempt[b])]
      BY <1>4 DEF ReleaseLease, Attempt
    <2>2. Unleased(attempt[b]).state = attempt[b].state
      BY <1>1, <1>4 DEF ReleaseLease, HoldsLease, Attempt, AttemptRow, Unleased
    <2> QED
      BY <2>1, <2>2, CalmRow
  <1>5. ASSUME attempt[b].token = lease[w].token, lease[w] # NoLease,
               NEW s \in {"canceled", "succeeded"},
               attempt' = [attempt EXCEPT ![b] = [Unleased(attempt[b])
                                                    EXCEPT !.state = s]]
        PROVE  Calm(a)
    <2>1. [Unleased(attempt[b]) EXCEPT !.state = s].state = s
      BY <1>1, <1>5 DEF AttemptRow, Unleased
    <2> QED
      BY <1>5, <2>1, CalmRow DEF AtTarget
  <1>6. CASE MarkAttemptCanceled(w)
    BY <1>5, <1>6 DEF MarkAttemptCanceled, HoldsLease, Attempt
  <1>7. CASE CompleteTask(w)
    BY <1>2, <1>5, <1>7 DEF CompleteTask, SettlesTask, Attempt
  <1> QED
    BY <1>3, <1>4, <1>6, <1>7

\* fail_task writes a failure, and it is that of its attempt; the reports of
\* the target are all that brings an attempt to the target.
LEMMA StepCalm ==
    ASSUME AInv, AsyncNext, NEW a \in AttemptIds
    PROVE  \/ Calm(a)
           \/ \E w \in Workers :
                 /\ a = Attempt(w)
                 /\ \/ Fails(w) /\ SettlesTask(w)
                       /\ attempt'[a].state = "failed"
                    \/ RecordsStatus(w) /\ attempt'[a].state # "failed"
                    \/ RecordsSubmission(w) /\ ~Stale(w)
                       /\ attempt'[a].state # "failed"
  <1>1. attempt' = attempt => Calm(a)
    BY DEF Calm
  <1>2. ASSUME NEW r \in Runs, CancelRun(r)
        PROVE  Calm(a)
    <2>1. attempt[a] \in AttemptRow
      BY DEF AInv, IInv, Rows, RowTypes
    <2>2. attempt'[a] \in {attempt[a], CanceledAttempt(attempt[a])}
      BY <1>2 DEF CancelRun
    <2> QED
      BY <2>1, <2>2 DEF Calm, AtTarget, CanceledAttempt, Unleased, AttemptRow
  <1>3. CASE UserStep
    BY <1>1, <1>2, <1>3 DEF UserStep, SubmitRun, RetryTask
  <1>4. CASE \E h \in Handles : SchedulerStep(h)
    BY <1>1, <1>4 DEF SchedulerStep, JobStarts, JobEnds, vars
  <1>5. ASSUME NEW w \in Workers, FailTask(w), ~Calm(a)
        PROVE  a = Attempt(w) /\ SettlesTask(w) /\ attempt'[a].state = "failed"
    <2> DEFINE row == [Unleased(attempt[Attempt(w)]) EXCEPT !.state = "failed"]
    <2>1. SettlesTask(w) /\ attempt' = [attempt EXCEPT ![Attempt(w)] = row]
      BY <1>1, <1>5 DEF FailTask, Attempt
    <2>2. attempt \in [AttemptIds -> AttemptRow]
      BY DEF AInv, IInv, Rows, RowTypes
    <2>3. a = Attempt(w)
      BY <1>5, <2>1, <2>2 DEF Calm
    <2>4. row.state = "failed"
      BY <2>2, <2>3 DEF AttemptRow, Unleased
    <2> QED
      BY <2>1, <2>2, <2>3, <2>4
  <1>6. ASSUME NEW w \in Workers, RecordTargetStatus(w, status[w]), ~Calm(a)
        PROVE  a = Attempt(w) /\ attempt'[a].state # "failed"
    <2> DEFINE row == [attempt[Attempt(w)] EXCEPT !.state =
                         PolledState(@, status[w])]
    <2>1. attempt' = [attempt EXCEPT ![Attempt(w)] = row]
          /\ attempt[Attempt(w)].state \in LiveStates
          /\ attempt[Attempt(w)] \in AttemptRow
      BY <1>6, HeldIsLive DEF RecordTargetStatus, HoldsLease, Attempt, AInv
    <2>2. attempt \in [AttemptIds -> AttemptRow]
      BY DEF AInv, IInv, Rows, RowTypes
    <2>3. row.state # "failed"
      BY <2>1 DEF AttemptRow, PolledState, LiveStates
    <2> HIDE DEF row
    <2>4. a = Attempt(w)
      BY <1>6, <2>1, <2>2 DEF Calm
    <2> QED
      BY <2>1, <2>2, <2>3, <2>4
  <1>7. ASSUME NEW w \in Workers, RecordsSubmission(w), ~Stale(w), ~Calm(a)
        PROVE  a = Attempt(w) /\ attempt'[a].state # "failed"
    <2>1. handle[w] \in Handles /\ status[w] \in TargetStates
      BY <1>7 DEF RecordsSubmission, AInv, AsyncTypes, Local, WithHandle
    <2>2. RecordSubmission(w, handle[w], status[w])
      BY <1>7 DEF RecordsSubmission
    <2>3. /\ \A b \in AttemptIds : b # Attempt(w) => attempt'[b] = attempt[b]
          /\ attempt'[Attempt(w)].state =
                IF attempt[Attempt(w)].state = "cancel_requested"
                THEN "cancel_requested" ELSE SubmittedState(status[w])
      BY <2>1, <2>2, RecordSubmissionWrites DEF AInv
    <2> QED
      BY <1>7, <2>3 DEF Calm, SubmittedState
  <1>8. ASSUME NEW w \in Workers, Acts(w), ~Calm(a)
        PROVE  /\ a = Attempt(w)
               /\ \/ Fails(w) /\ SettlesTask(w) /\ attempt'[a].state = "failed"
                  \/ RecordsStatus(w) /\ attempt'[a].state # "failed"
                  \/ RecordsSubmission(w) /\ ~Stale(w)
                     /\ attempt'[a].state # "failed"
    <2>1. attempt' # attempt /\ ~UNCHANGED vars
      BY <1>1, <1>8 DEF vars
    <2>2. CASE \E E \in ExpirySets : WorkerClaims(w, E)
      BY <1>8, <2>2, ClaimCalm DEF WorkerClaims
    <2>3. CASE Crashes(w) \/ CallFails(w) \/ TargetUnknown(w)
      BY <2>1, <2>3 DEF Crashes, CallFails, TargetUnknown, LoseProcess
    <2>4. CASE \/ ReadsAttemptState(w) \/ FindsJob(w) \/ SubmitsJob(w)
               \/ WritesReceipt(w) \/ Polls(w) \/ Collects(w) \/ Finalizes(w)
               \/ FinalizesFailed(w) \/ CancelsJob(w) \/ FinalizesCanceled(w)
               \/ BuildsRequest(w) \/ Stale(w)
      BY <2>1, <2>4
         DEF ReadsAttemptState, FindsJob, SubmitsJob, WritesReceipt, Polls,
             Collects, Finalizes, FinalizesFailed, CancelsJob,
             FinalizesCanceled, BuildsRequest, Stale, LoseProcess
    <2>5. CASE WritesIntent(w) \/ Releases(w) \/ MarksCanceled(w)
               \/ Completes(w)
      BY <1>8, <2>1, <2>4, <2>5, QuietCallCalm
         DEF WritesIntent, Releases, MarksCanceled, Completes
    <2>6. CASE Fails(w)
      BY <1>5, <1>8, <2>6 DEF Fails
    <2>7. CASE RecordsStatus(w)
      BY <1>6, <1>8, <2>4, <2>7 DEF RecordsStatus
    <2>8. CASE RecordsSubmission(w)
      BY <1>7, <1>8, <2>4, <2>8
    <2> QED
      BY <1>8, <2>2, <2>3, <2>4, <2>5, <2>6, <2>7, <2>8 DEF Acts, WorkerCall
  <1> QED
    BY <1>3, <1>4, <1>8, WhoActs

\* The receipt of an attempt names the handle on record, and an attempt at
\* the target has one.
Receipted ==
    \A a \in AttemptIds :
        /\ attempt[a].handle # NoHandle => receipt[a] = attempt[a].handle
        /\ attempt[a].state \in AtTarget => attempt[a].handle # NoHandle

Polling == {"poll", "record_target_status", "collect", "finalize", "complete"}

\* A process that polls or collects does so with the handle on record; one
\* that is about to fail a task that it could settle has seen its job end.
Justified(w) ==
    /\ lease[w] # NoLease /\ attempt[Attempt(w)].token = lease[w].token =>
          attempt[Attempt(w)].worker = w
    /\ pc[w] \in Polling => attempt[Attempt(w)].handle = handle[w]
    /\ pc[w] = "record_submission" => receipt[Attempt(w)] = handle[w]
    /\ pc[w] \in {"failing", "fail"} /\ SettlesTask(w) =>
          status[w] \in {"failed", "canceled"}

FInv ==
    /\ DInv
    /\ Receipted
    /\ \A w \in Workers : Justified(w)
    /\ FailureIsTheJobs

LEMMA InitFInv == AsyncInit => FInv
  <1> SUFFICES ASSUME AsyncInit PROVE FInv
    OBVIOUS
  <1>1. Receipted /\ FailureIsTheJobs /\ \A w \in Workers : Justified(w)
    BY DEF AsyncInit, Init, NoAttempt, Receipted, FailureIsTheJobs, Justified,
       AtTarget, Polling
  <1> QED
    BY <1>1, InitDInv DEF FInv

LEMMA Goes ==
    ASSUME AInv, NEW w \in Workers, NEW p, NEW h, NEW s, Goto(w, p, h, s)
    PROVE  pc'[w] = p /\ handle'[w] = h /\ status'[w] = s
  BY DEF AInv, AsyncTypes, Goto

\* Only the process that claimed an attempt carries its token.
LEMMA SettlerHolds ==
    ASSUME FInv, NEW w \in Workers, lease[w] # NoLease, SettlesTask(w)
    PROVE  HoldsLease(w)
  BY DEF FInv, Justified, SettlesTask, HoldsLease, Attempt

\* A process that polls has a job in hand, its receipt names it, and it stays
\* on record.
LEMMA PollingFacts ==
    ASSUME FInv, AsyncNext, NEW w \in Workers, pc[w] \in Polling
    PROVE  /\ lease[w] # NoLease /\ Attempt(w) \in AttemptIds
           /\ handle[w] \in Handles /\ CheckedReceipt(w)
           /\ attempt'[Attempt(w)].handle = handle[w]
  <1>1. AInv
    BY DEF FInv, DInv
  <1>2. lease[w] # NoLease /\ handle[w] \in Handles /\ handle[w] # NoHandle
    BY <1>1 DEF AInv, AsyncTypes, Local, Polling, WithHandle
  <1>3. Attempt(w) \in AttemptIds
    BY <1>1, <1>2, LeaseAttempt DEF AInv
  <1>4. attempt[Attempt(w)].handle = handle[w]
    BY DEF FInv, Justified
  <1>5. CheckedReceipt(w)
    BY <1>2, <1>3, <1>4 DEF FInv, Receipted, CheckedReceipt
  <1>6. attempt'[Attempt(w)].handle = handle[w]
    BY <1>1, <1>2, <1>3, <1>4, StepKeepsHandles
  <1> QED
    BY <1>2, <1>3, <1>5, <1>6

\* A process whose lease is stale cannot settle the task either.
LEMMA StaleJustified ==
    ASSUME FInv, AsyncNext, NEW w \in Workers, lease[w] # NoLease, Stale(w)
    PROVE  /\ pc'[w] = "failing" /\ lease'[w] = lease[w]
           /\ ~SettlesTask(w)'
  <1>1. AInv /\ TokensGo
    BY StepTokens DEF FInv, DInv
  <1>2. pc'[w] = "failing" /\ lease'[w] = lease[w] /\ ~HoldsLease(w)
    BY <1>1, Goes DEF Stale, Continue, vars
  <1>3. ~SettlesTask(w)
    BY <1>2, SettlerHolds
  <1> QED
    BY <1>1, <1>2, <1>3, SettlerWas

\* What Justified says of the process that acts.
Excused(w) ==
    /\ pc'[w] \in Polling => attempt'[Attempt(w)'].handle = handle'[w]
    /\ pc'[w] = "record_submission" => receipt'[Attempt(w)'] = handle'[w]
    /\ pc'[w] \in {"failing", "fail"} /\ SettlesTask(w)' =>
          status'[w] \in {"failed", "canceled"}

\* The calls up to the submission.
LEMMA SubmittingExcused ==
    ASSUME FInv, AsyncNext, NEW w \in Workers,
           \/ ReadsAttemptState(w) \/ WritesIntent(w) \/ FindsJob(w)
           \/ SubmitsJob(w) \/ WritesReceipt(w)
    PROVE  Excused(w)
  <1> USE DEF Polling
  <1>1. AInv /\ TokensGo /\ IInv
    BY StepTokens DEF FInv, DInv, AInv
  <1>2. /\ lease[w] # NoLease /\ Local(w)
        /\ receipt \in [AttemptIds -> Handles \cup {NoHandle}]
    BY <1>1 DEF AInv, AsyncTypes, Local, ReadsAttemptState, WritesIntent,
       FindsJob, SubmitsJob, WritesReceipt
  <1>3. Attempt(w) \in AttemptIds
    BY <1>1, <1>2, LeaseAttempt
  <1>4. CASE Stale(w)
    BY <1>2, <1>4, StaleJustified DEF Excused
  <1>5. CASE ReadsAttemptState(w) /\ ~Stale(w)
    <2>1. PICK p \in {"cancel", "mark_canceled", "mark_submitting", "poll"} :
             /\ Goto(w, p, lease[w].handle, status[w])
             /\ p = "poll" => lease[w].handle # NoHandle
             /\ UNCHANGED vars
      BY <1>5 DEF ReadsAttemptState
    <2>2. pc'[w] = p /\ handle'[w] = lease[w].handle
      BY <1>1, <2>1, Goes
    <2>3. p = "poll" => attempt[Attempt(w)].handle = lease[w].handle
      BY <1>2, <2>1 DEF Local
    <2> QED
      BY <2>1, <2>2, <2>3 DEF Excused, vars, Attempt
  <1>6. CASE WritesIntent(w) /\ ~Stale(w)
    <2>1. CASE Continue(w, "find_job")
      BY <1>1, <2>1, Goes DEF Continue, Excused
    <2>2. CASE /\ HoldsLease(w) /\ UNCHANGED vars
               /\ attempt[Attempt(w)].state
                    \notin {"leased", "submitting", "cancel_requested"}
      <3>1. attempt[Attempt(w)].state \in LiveStates
        BY <1>1, <2>2, HeldIsLive DEF HoldsLease, Attempt
      <3>2. attempt[Attempt(w)].state \in AtTarget
        BY <2>2, <3>1 DEF LiveStates, AtTarget
      <3>3. attempt[Attempt(w)].handle # NoHandle
        BY <1>3, <3>2 DEF FInv, Receipted
      <3>4. attempt[Attempt(w)].handle = NoHandle
        BY <1>2, <1>6, <2>2 DEF WritesIntent, Local, Submitting
      <3> QED
        BY <3>3, <3>4
    <2> QED
      BY <1>6, <2>1, <2>2 DEF WritesIntent
  <1>7. CASE FindsJob(w)
    <2>1. Attempt(w)' = Attempt(w)
      BY <1>7 DEF FindsJob, vars, Attempt
    <2>2. ASSUME NEW h, NEW s, Goto(w, "record_submission", h, s),
                 receipt'[Attempt(w)] = h
          PROVE  Excused(w)
      BY <1>1, <2>1, <2>2, Goes DEF Excused
    <2>3. CASE Continue(w, "sbatch")
      BY <1>1, <2>3, Goes DEF Continue, Excused
    <2>4. ASSUME NEW h, receipt' = [receipt EXCEPT ![Attempt(w)] = h]
          PROVE  receipt'[Attempt(w)] = h
      BY <1>2, <1>3, <2>4
    <2> QED
      BY <1>7, <2>2, <2>3, <2>4 DEF FindsJob
  <1>8. CASE SubmitsJob(w)
    <2>1. PICK h : Goto(w, "write_receipt", h, "queued")
      BY <1>8 DEF SubmitsJob
    <2> QED
      BY <1>1, <2>1, Goes DEF Excused
  <1>9. CASE WritesReceipt(w)
    <2>1. /\ Attempt(w)' = Attempt(w)
          /\ receipt' = [receipt EXCEPT ![Attempt(w)] = handle[w]]
          /\ Goto(w, "record_submission", handle[w], status[w])
      BY <1>9 DEF WritesReceipt, vars, Attempt, Continue
    <2>2. receipt'[Attempt(w)] = handle[w]
      BY <1>2, <1>3, <2>1
    <2> QED
      BY <1>1, <2>1, <2>2, Goes DEF Excused
  <1> QED
    BY <1>4, <1>5, <1>6, <1>7, <1>8, <1>9

\* The report of the target, and the calls that follow it.
LEMMA ReportingExcused ==
    ASSUME FInv, AsyncNext, NEW w \in Workers,
           \/ RecordsSubmission(w) \/ Polls(w) \/ RecordsStatus(w)
           \/ Collects(w) \/ Finalizes(w)
    PROVE  Excused(w)
  <1>1. AInv /\ TokensGo /\ IInv
    BY StepTokens DEF FInv, DInv, AInv
  <1>2. /\ lease[w] # NoLease /\ Local(w)
        /\ handle[w] \in Handles /\ status[w] \in TargetStates
    BY <1>1 DEF AInv, AsyncTypes, Local, WithHandle, RecordsSubmission, Polls,
       RecordsStatus, Collects, Finalizes
  <1>3. CASE Stale(w)
    BY <1>2, <1>3, StaleJustified DEF Excused, Polling
  <1>4. ASSUME NEW p \in {"cancel", AfterStatus(status[w])}, Continue(w, p),
               lease'[w] = lease[w], attempt'[Attempt(w)].handle = handle[w]
        PROVE  Excused(w)
    <2>1. /\ pc'[w] = p /\ handle'[w] = handle[w] /\ status'[w] = status[w]
          /\ Attempt(w)' = Attempt(w)
      BY <1>1, <1>4, Goes DEF Continue, Attempt
    <2>2. \/ p \in {"cancel", "collect", "release"}
          \/ p = "failing" /\ status[w] \in {"failed", "canceled"}
      BY DEF AfterStatus
    <2> QED
      BY <1>4, <2>1, <2>2 DEF Excused, Polling
  <1>5. ASSUME NEW p \in Polling, NEW s, Goto(w, p, handle[w], s),
               lease'[w] = lease[w], pc[w] \in Polling
        PROVE  Excused(w)
    <2>1. pc'[w] = p /\ handle'[w] = handle[w] /\ Attempt(w)' = Attempt(w)
      BY <1>1, <1>5, Goes DEF Attempt
    <2>2. attempt'[Attempt(w)].handle = handle[w]
      BY <1>5, PollingFacts
    <2> QED
      BY <2>1, <2>2 DEF Excused, Polling
  <1>6. CASE RecordsSubmission(w) /\ ~Stale(w)
    <2>1. RecordSubmission(w, handle[w], status[w])
      BY <1>6 DEF RecordsSubmission
    <2>2. attempt'[Attempt(w)].handle = handle[w] /\ lease'[w] = lease[w]
      BY <1>1, <1>2, <2>1, RecordSubmissionWrites
    <2>3. PICK p \in {"cancel", AfterStatus(status[w])} : Continue(w, p)
      BY <1>6 DEF RecordsSubmission
    <2> QED
      BY <1>4, <2>2, <2>3
  <1>7. CASE RecordsStatus(w) /\ ~Stale(w)
    <2>1. /\ RecordTargetStatus(w, status[w])
          /\ Continue(w, AfterStatus(status[w]))
          /\ pc[w] \in Polling
      BY <1>7 DEF RecordsStatus, Polling
    <2>2. attempt'[Attempt(w)].handle = handle[w] /\ lease'[w] = lease[w]
      BY <2>1, PollingFacts DEF RecordTargetStatus
    <2> QED
      BY <1>4, <2>1, <2>2
  <1>8. CASE \/ Polls(w) \/ Collects(w)
             \/ Finalizes(w) /\ ~Stale(w)
    <2>1. pc[w] \in Polling /\ lease'[w] = lease[w]
      BY <1>8 DEF Polls, Collects, Finalizes, Polling, vars
    <2>2. CheckedReceipt(w)
      BY <2>1, PollingFacts
    <2>3. \E p \in Polling : \E s : Goto(w, p, handle[w], s)
      BY <1>8, <2>2 DEF Polls, Collects, Finalizes, Continue, Polling
    <2> QED
      BY <1>5, <2>1, <2>3
  <1> QED
    BY <1>3, <1>6, <1>7, <1>8

\* The calls at both ends of run_once, and those of _cancel and _fail.
LEMMA EndingExcused ==
    ASSUME FInv, AsyncNext, NEW w \in Workers,
           \/ \E E \in ExpirySets : WorkerClaims(w, E)
           \/ BuildsRequest(w) \/ Completes(w) \/ FinalizesFailed(w)
           \/ Fails(w) \/ Releases(w) \/ CancelsJob(w)
           \/ FinalizesCanceled(w) \/ MarksCanceled(w) \/ Crashes(w)
    PROVE  Excused(w)
  <1> USE DEF Polling
  <1>1. AInv /\ TokensGo
    BY StepTokens DEF FInv, DInv
  <1>2. ASSUME NEW p, NEW h, NEW s, Goto(w, p, h, s),
               p \notin Polling \cup {"record_submission", "failing", "fail"}
        PROVE  Excused(w)
    BY <1>1, <1>2, Goes DEF Excused
  <1>3. CASE \E E \in ExpirySets : WorkerClaims(w, E)
    <2>1. CASE UNCHANGED locals
      BY <1>3, <2>1 DEF WorkerClaims, locals, Excused
    <2>2. CASE Continue(w, "task_request")
      BY <1>2, <2>2 DEF Continue
    <2> QED
      BY <1>3, <2>1, <2>2 DEF WorkerClaims
  <1>4. CASE Return(w)
    BY <1>2, <1>4 DEF Return
  <1>5. CASE BuildsRequest(w)
    BY <1>2, <1>4, <1>5 DEF BuildsRequest, Continue
  <1>6. CASE Stale(w) /\ pc[w] # "idle"
    <2>1. lease[w] # NoLease
      BY <1>1, <1>6 DEF AInv, Local
    <2> QED
      BY <1>6, <2>1, StaleJustified DEF Excused
  <1>7. CASE Completes(w)
    <2>1. CASE ~SettlesTask(w) /\ UNCHANGED vars /\ Continue(w, "failing")
      <3>1. ~SettlesTask(w)'
        BY <2>1 DEF vars, SettlesTask
      <3>2. pc'[w] = "failing"
        BY <1>1, <2>1, Goes DEF Continue
      <3> QED
        BY <3>1, <3>2 DEF Excused
    <2> QED
      BY <1>4, <1>7, <2>1 DEF Completes
  <1>8. CASE FinalizesFailed(w)
    <2>1. /\ pc[w] = "failing" /\ pc'[w] = "fail" /\ status'[w] = status[w]
          /\ UNCHANGED vars
      BY <1>1, <1>8, Goes DEF FinalizesFailed, Continue
    <2>2. SettlesTask(w)' => status[w] \in {"failed", "canceled"}
      BY <2>1 DEF FInv, Justified, vars, SettlesTask
    <2> QED
      BY <2>1, <2>2 DEF Excused
  <1>9. CASE CancelsJob(w)
    BY <1>2, <1>9 DEF CancelsJob, Continue
  <1>10. CASE FinalizesCanceled(w)
    BY <1>2, <1>6, <1>10 DEF FinalizesCanceled, Continue
  <1>11. CASE Fails(w) \/ Releases(w) \/ MarksCanceled(w) \/ Crashes(w)
    BY <1>4, <1>6, <1>11 DEF Fails, Releases, MarksCanceled, Crashes
  <1> QED
    BY <1>3, <1>5, <1>7, <1>8, <1>9, <1>10, <1>11

LEMMA StepExcused ==
    ASSUME FInv, AsyncNext, MaxErrors = 0, NEW w \in Workers, Acts(w)
    PROVE  Excused(w)
  <1>1. errors \in Nat
    BY DEF FInv, DInv, AInv, AsyncTypes
  <1>2. ~CallFails(w) /\ ~TargetUnknown(w)
    BY <1>1 DEF CallFails, TargetUnknown
  <1> QED
    BY <1>2, SubmittingExcused, ReportingExcused, EndingExcused
       DEF Acts, WorkerCall

\* A lease stays, goes, or is the one that was just granted.
LEMMA LeaseGoes ==
    ASSUME AInv, AsyncNext, NEW w \in Workers
    PROVE  lease'[w] \in {lease[w], NoLease} \/ LeaseTaken(w)
  <1>1. CASE UserStep
    BY <1>1 DEF UserStep, SubmitRun, CancelRun, RetryTask
  <1>2. CASE \E h \in Handles : SchedulerStep(h)
    BY <1>2 DEF SchedulerStep, JobStarts, JobEnds, vars
  <1>3. ASSUME NEW v \in Workers, Acts(v)
        PROVE  lease'[w] \in {lease[w], NoLease} \/ LeaseTaken(w)
    <2>1. CASE v # w
      BY <1>3, <2>1, ActsWrites DEF OthersKeep
    <2>2. CASE v = w /\ \E E \in ExpirySets : WorkerClaims(v, E)
      BY <2>2, ClaimTaskWrites DEF WorkerClaims, ClaimWrites, AInv
    <2>3. CASE v = w /\ ~(\E E \in ExpirySets : WorkerClaims(v, E))
      <3>1. \/ lease' = lease \/ lease' = [lease EXCEPT ![w] = NoLease]
        BY <1>3, <2>3
           DEF Acts, WorkerCall, Crashes, CallFails, TargetUnknown,
               BuildsRequest, ReadsAttemptState, WritesIntent, FindsJob,
               SubmitsJob, WritesReceipt, RecordsSubmission, Polls,
               RecordsStatus, Collects, Finalizes, Completes,
               FinalizesFailed, Fails, Releases, CancelsJob,
               FinalizesCanceled, MarksCanceled, Stale, vars, LoseProcess,
               MarkSubmitting, RecordSubmission, RecordTargetStatus,
               CompleteTask, FailTask, ReleaseLease, MarkAttemptCanceled
      <3> QED
        BY <3>1, SMTT(30) DEF AInv, IInv
    <2> QED
      BY <2>1, <2>2, <2>3
  <1> QED
    BY <1>1, <1>2, <1>3, WhoActs

\* A job that has ended stays as it is.
LEMMA EndedStays ==
    ASSUME AInv, AsyncNext, NEW h \in Handles, job[h].state \in EndedJob
    PROVE  job'[h].state = job[h].state
  <1>1. CASE job' = job
    BY <1>1
  <1>2. ASSUME NEW g \in Handles, NEW s, job[g].state \in ActiveJob,
               job' = [job EXCEPT ![g].state = s]
        PROVE  job'[h].state = job[h].state
    BY <1>2 DEF AInv, AsyncTypes, ActiveJob, EndedJob
  <1>3. ASSUME NEW w \in Workers, SubmitsJob(w)
        PROVE  job'[h].state = job[h].state
    <2> DEFINE unused == {x \in Handles : job[x] = NoJob}
               g == CHOOSE x \in unused : TRUE
               new == [name |-> Attempt(w), state |-> "queued"]
    <2>1. unused # {} /\ job' = [job EXCEPT ![g] = new]
      BY <1>3 DEF SubmitsJob
    <2>2. g # h
      BY <2>1 DEF NoJob, EndedJob
    <2> HIDE DEF unused, g, new
    <2> QED
      BY <2>1, <2>2 DEF AInv, AsyncTypes
  <1>4. CASE UserStep
    BY <1>1, <1>4 DEF UserStep, target
  <1>5. ASSUME NEW g \in Handles, SchedulerStep(g)
        PROVE  job'[h].state = job[h].state
    BY <1>2, <1>5 DEF SchedulerStep, JobStarts, JobEnds, ActiveJob
  <1>6. ASSUME NEW w \in Workers, CancelsJob(w)
        PROVE  job'[h].state = job[h].state
    <2>1. handle[w] \in Handles
      BY <1>6 DEF CancelsJob, AInv, AsyncTypes, Local, WithHandle
    <2>2. job[handle[w]].state \notin ActiveJob =>
             [job EXCEPT ![handle[w]].state =
                IF @ \in ActiveJob THEN "canceled" ELSE @] = job
      BY <2>1 DEF AInv, AsyncTypes, JobRow
    <2>3. job[handle[w]].state \in ActiveJob =>
             [job EXCEPT ![handle[w]].state =
                IF @ \in ActiveJob THEN "canceled" ELSE @]
               = [job EXCEPT ![handle[w]].state = "canceled"]
      BY <2>1 DEF AInv, AsyncTypes
    <2> QED
      BY <1>1, <1>2, <1>6, <2>1, <2>2, <2>3 DEF CancelsJob
  <1>7. ASSUME NEW w \in Workers, Acts(w), ~CancelsJob(w), ~SubmitsJob(w)
        PROVE  job' = job
    BY <1>7
       DEF Acts, WorkerClaims, WorkerCall, Crashes, CallFails, TargetUnknown,
           BuildsRequest, ReadsAttemptState, WritesIntent, FindsJob,
           WritesReceipt, RecordsSubmission, Polls, RecordsStatus, Collects,
           Finalizes, Completes, FinalizesFailed, Fails, Releases,
           FinalizesCanceled, MarksCanceled, Stale, target
  <1> QED
    BY <1>1, <1>3, <1>4, <1>5, <1>6, <1>7, WhoActs

\* With cleanup "never" a receipt is only written, and only by a process
\* that is submitting the attempt.
LEMMA ReceiptsGo ==
    ASSUME FInv, AsyncNext, Cleanup = "never", NEW a \in AttemptIds
    PROVE  \/ receipt'[a] = receipt[a]
           \/ \E w \in Workers :
                 /\ a = Attempt(w) /\ HoldsLease(w) /\ Acts(w)
                 /\ attempt[a].handle = NoHandle /\ attempt' = attempt
  <1>1. AInv
    BY DEF FInv, DInv
  <1>2. CASE receipt' = receipt
    BY <1>2
  <1>3. CASE UserStep
    BY <1>2, <1>3 DEF UserStep, target
  <1>4. CASE \E h \in Handles : SchedulerStep(h)
    BY <1>2, <1>4 DEF SchedulerStep, JobStarts, JobEnds
  <1>5. ASSUME NEW w \in Workers, FindsJob(w) \/ WritesReceipt(w),
               receipt'[a] # receipt[a]
        PROVE  /\ a = Attempt(w) /\ HoldsLease(w) /\ Acts(w)
               /\ attempt[a].handle = NoHandle /\ attempt' = attempt
    <2>1. pc[w] \in Submitting /\ attempt' = attempt /\ Acts(w)
      BY <1>5 DEF FindsJob, WritesReceipt, Submitting, vars, Acts, WorkerCall
    <2>2. HoldsLease(w)
      BY <2>1 DEF FInv, DInv, Sole
    <2>3. attempt[Attempt(w)].handle = NoHandle
      BY <1>1, <2>1, <2>2 DEF AInv, Local
    <2>4. a = Attempt(w)
      BY <1>1, <1>5 DEF FindsJob, WritesReceipt, AInv, AsyncTypes
    <2> QED
      BY <2>1, <2>2, <2>3, <2>4
  <1>6. ASSUME NEW w \in Workers, Acts(w), ~FindsJob(w), ~WritesReceipt(w)
        PROVE  receipt' = receipt
    BY <1>6
       DEF Acts, WorkerClaims, WorkerCall, Crashes, CallFails, TargetUnknown,
           BuildsRequest, ReadsAttemptState, WritesIntent, SubmitsJob,
           RecordsSubmission, Polls, RecordsStatus, Collects,
           Finalizes, Completes, FinalizesFailed, Fails, Releases, CancelsJob,
           FinalizesCanceled, MarksCanceled, Stale, target, FinalizedReceipt
  <1> QED
    BY <1>2, <1>3, <1>4, <1>5, <1>6, WhoActs

LEMMA StepReceipted ==
    ASSUME FInv, AsyncNext, Cleanup = "never"
    PROVE  Receipted'
  <1>1. AInv
    BY DEF FInv, DInv
  <1> SUFFICES ASSUME NEW a \in AttemptIds
               PROVE  /\ attempt'[a].handle # NoHandle =>
                            receipt'[a] = attempt'[a].handle
                      /\ attempt'[a].state \in AtTarget =>
                            attempt'[a].handle # NoHandle
    BY DEF Receipted
  <1>2. ASSUME NEW w \in Workers, RecordsSubmission(w), ~Stale(w),
               a = Attempt(w)
        PROVE  /\ attempt'[a].handle = handle[w] /\ handle[w] # NoHandle
               /\ receipt'[a] = handle[w]
    <2>1. /\ RecordSubmission(w, handle[w], status[w])
          /\ handle[w] \in Handles /\ status[w] \in TargetStates
          /\ receipt' = receipt /\ pc[w] = "record_submission"
      BY <1>1, <1>2 DEF RecordsSubmission, target, AInv, AsyncTypes, Local,
         WithHandle
    <2>2. attempt'[a].handle = handle[w]
      BY <1>1, <1>2, <2>1, RecordSubmissionWrites DEF AInv
    <2>3. receipt[a] = handle[w]
      BY <1>2, <2>1 DEF FInv, Justified
    <2> QED
      BY <2>1, <2>2, <2>3, ConstantFacts
  <1>3. attempt'[a].handle # NoHandle => receipt'[a] = attempt'[a].handle
    <2> SUFFICES ASSUME attempt'[a].handle # NoHandle
                 PROVE  receipt'[a] = attempt'[a].handle
      OBVIOUS
    <2>1. CASE attempt'[a].handle = attempt[a].handle
      <3>1. receipt[a] = attempt[a].handle
        BY <2>1 DEF FInv, Receipted
      <3>2. receipt'[a] = receipt[a]
        BY <2>1, ReceiptsGo
      <3> QED
        BY <2>1, <3>1, <3>2
    <2>2. CASE attempt'[a].handle # attempt[a].handle
      BY <1>1, <1>2, <2>2, StepHandles
    <2> QED
      BY <2>1, <2>2
  <1>4. attempt'[a].state \in AtTarget => attempt'[a].handle # NoHandle
    <2> SUFFICES ASSUME attempt'[a].state \in AtTarget
                 PROVE  attempt'[a].handle # NoHandle
      OBVIOUS
    <2>1. CASE Calm(a)
      <3>1. attempt[a].handle # NoHandle
        BY <2>1 DEF Calm, FInv, Receipted
      <3> QED
        BY <1>1, <3>1, StepKeepsHandles
    <2>2. ASSUME NEW w \in Workers, a = Attempt(w), RecordsStatus(w)
          PROVE  attempt'[a].handle # NoHandle
      <3>1. pc[w] \in Polling
        BY <2>2 DEF RecordsStatus, Polling
      <3> QED
        BY <2>2, <3>1, PollingFacts, ConstantFacts
    <2>3. attempt'[a].state # "failed"
      BY DEF AtTarget
    <2> QED
      BY <1>1, <1>2, <2>1, <2>2, <2>3, StepCalm
  <1> QED
    BY <1>3, <1>4

LEMMA StepJustified ==
    ASSUME LeaseOutlivesStep, MaxErrors = 0, Cleanup = "never",
           FInv, AsyncNext, NEW w \in Workers
    PROVE  Justified(w)'
  <1>1. AInv /\ PInv /\ TokensGo /\ Justified(w)
    BY StepTokens DEF FInv, DInv
  <1>2. lease'[w] # NoLease
          /\ attempt'[lease'[w].attempt].token = lease'[w].token
        => attempt'[lease'[w].attempt].worker = w
    <2> SUFFICES ASSUME lease'[w] # NoLease,
                        attempt'[lease'[w].attempt].token = lease'[w].token
                 PROVE  attempt'[lease'[w].attempt].worker = w
      OBVIOUS
    <2>1. CASE lease'[w] = lease[w]
      <3>1. /\ Attempt(w) \in AttemptIds /\ lease[w].token # NoToken
            /\ lease[w] # NoLease
        BY <1>1, <2>1, LeaseAttempt, ConstantFacts DEF AInv
      <3>2. TokenKept(Attempt(w)) /\ \A v \in Workers : ~RowTaken(Attempt(w), v)
        BY <1>1, <2>1, <3>1, FreshTokenFacts DEF TokensGo, RowTaken, Attempt
      <3> QED
        BY <1>1, <2>1, <3>1, <3>2 DEF TokenKept, Justified, Attempt
    <2>2. CASE LeaseTaken(w)
      BY <2>2 DEF LeaseTaken, RowTaken
    <2> QED
      BY <1>1, <2>1, <2>2, LeaseGoes
  <1>3. Excused(w)
    <2>1. CASE Acts(w)
      BY <2>1, StepExcused
    <2>2. CASE ~Acts(w)
      <3>1. /\ pc'[w] = pc[w] /\ handle'[w] = handle[w]
            /\ status'[w] = status[w] /\ lease'[w] = lease[w]
            /\ Attempt(w)' = Attempt(w)
        BY <1>1, <2>2, BystanderHolds DEF Attempt
      <3>2. pc[w] \in Polling => attempt'[Attempt(w)].handle = handle[w]
        BY PollingFacts
      <3>3. ASSUME pc[w] = "record_submission"
            PROVE  receipt'[Attempt(w)] = handle[w]
        <4>1. HoldsLease(w) /\ receipt[Attempt(w)] = handle[w]
          BY <1>1, <3>3 DEF FInv, DInv, Sole, Submitting, Justified
        <4>2. Attempt(w) \in AttemptIds
          BY <1>1, <4>1, LeaseAttempt DEF AInv, HoldsLease
        <4>3. ASSUME NEW v \in Workers, Attempt(v) = Attempt(w),
                     HoldsLease(v)
              PROVE  v = w
          BY <4>1, <4>3 DEF HoldsLease, Attempt
        <4> QED
          BY <2>2, <4>1, <4>2, <4>3, ReceiptsGo
      <3>4. pc[w] \in {"failing", "fail"} /\ SettlesTask(w)' =>
               status[w] \in {"failed", "canceled"}
        <4> SUFFICES ASSUME pc[w] \in {"failing", "fail"}, SettlesTask(w)'
                     PROVE  status[w] \in {"failed", "canceled"}
          OBVIOUS
        <4>1. lease[w] # NoLease
          BY <1>1 DEF AInv, Local
        <4>2. SettlesTask(w)
          BY <1>1, <3>1, <4>1, SettlerWas
        <4> QED
          BY <1>1, <4>2 DEF Justified
      <3> QED
        BY <3>1, <3>2, <3>3, <3>4 DEF Excused
    <2> QED
      BY <2>1, <2>2
  <1> QED
    BY <1>2, <1>3 DEF Justified, Excused, Attempt

LEMMA StepFailures ==
    ASSUME FInv, AsyncNext
    PROVE  FailureIsTheJobs'
  <1>1. AInv /\ NoDuplicateJob
    BY DEF FInv, DInv
  <1> SUFFICES ASSUME NEW a \in AttemptIds, NEW h \in Handles,
                      attempt'[a].state = "failed", job'[h].name = a
               PROVE  job'[h].state \in {"failed", "canceled"}
    BY DEF FailureIsTheJobs
  <1>2. CASE attempt[a].state = "failed"
    <2>1. job[h].name = a
      <3>1. CASE \A w \in Workers : ~SubmitsJob(w)
        BY <1>1, <3>1, NamesStay
      <3>2. ASSUME NEW w \in Workers, SubmitsJob(w)
            PROVE  job[h].name = a
        <4>1. HoldsLease(w)
          BY <3>2 DEF SubmitsJob, FInv, DInv, Sole, Submitting
        <4>2. attempt[Attempt(w)].state \in LiveStates
          BY <1>1, <4>1, HeldIsLive DEF AInv, HoldsLease, Attempt
        <4>3. Attempt(w) # a
          BY <1>2, <4>2 DEF LiveStates
        <4> QED
          BY <1>1, <3>2, <4>3, SubmitsJobNames
      <3> QED
        BY <3>1, <3>2
    <2>2. job[h].state \in {"failed", "canceled"}
      BY <1>2, <2>1 DEF FInv, FailureIsTheJobs
    <2> QED
      BY <1>1, <2>2, EndedStays DEF EndedJob
  <1>3. ASSUME NEW w \in Workers, a = Attempt(w), Fails(w), SettlesTask(w)
        PROVE  job'[h].state \in {"failed", "canceled"}
    <2>1. job' = job /\ pc[w] = "fail"
      BY <1>3 DEF Fails, target
    <2>2. status[w] \in {"failed", "canceled"}
      BY <1>3, <2>1 DEF FInv, Justified
    <2>3. /\ handle[w] \in Handles /\ job[handle[w]].name = a
          /\ job[handle[w]].state = status[w]
      BY <1>1, <1>3, <2>2 DEF AInv, AsyncTypes, Local, EndedJob
    <2>4. a # <<>>
      BY EmptyName
    <2>5. h = handle[w]
      BY <1>1, <2>1, <2>3, <2>4 DEF NoDuplicateJob, NoJob
    <2> QED
      BY <2>1, <2>2, <2>3, <2>5
  <1> QED
    BY <1>1, <1>2, <1>3, StepCalm DEF Calm

LEMMA NextFInv ==
    ASSUME LeaseOutlivesStep, MaxRetries = 0, MaxErrors = 0,
           Cleanup = "never"
    PROVE  FInv /\ [AsyncNext]_avars => FInv'
  <1>1. ASSUME FInv, [AsyncNext]_avars
        PROVE  DInv'
    BY <1>1, NextDInv DEF FInv
  <1>2. ASSUME FInv, UNCHANGED avars
        PROVE  Receipted' /\ FailureIsTheJobs' /\ \A w \in Workers : Justified(w)'
    BY <1>2 DEF FInv, avars, Receipted, FailureIsTheJobs, Justified, Attempt,
       SettlesTask
  <1> QED
    BY <1>1, <1>2, StepReceipted, StepFailures, StepJustified DEF FInv

\* A process that is about to call fail_task (worker.py:409) and whose lease
\* would be accepted has seen its job fail or be canceled, and an attempt at
\* the target has the handle of its receipt on record, in every reachable
\* state.
THEOREM FailureInvariance ==
    ASSUME LeaseOutlivesStep, MaxRetries = 0, MaxErrors = 0,
           Cleanup = "never"
    PROVE  AsyncSpec => []FInv
  <1>1. FInv /\ [AsyncNext]_avars => FInv'
    BY NextFInv
  <1> QED
    BY <1>1, InitFInv, PTL DEF AsyncSpec

\* docs/hpc-execution.md:28: a worker restart adopts the scheduler handle.
\* When the calls of the scheduler and of the storage do not fail, receipts
\* are not cleaned up and leases outlive the steps of their processes, no
\* crash of a worker, however many there are and wherever they strike, fails
\* an attempt whose job runs or ran to success.
THEOREM FailuresAreTheJobs ==
    ASSUME LeaseOutlivesStep, MaxRetries = 0, MaxErrors = 0,
           Cleanup = "never"
    PROVE  AsyncSpec => []FailureIsTheJobs
  <1>1. FInv => FailureIsTheJobs
    BY DEF FInv
  <1> QED
    BY <1>1, FailureInvariance, PTL
=============================================================================
