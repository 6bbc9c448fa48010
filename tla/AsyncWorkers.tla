---------------------------- MODULE AsyncWorkers ----------------------------
(***************************************************************************)
(* Target workers over a Slurm scheduler: AsyncWorker.run_once of          *)
(* src/qhpc_ecosystem/worker.py, with SlurmApptainerRunner of              *)
(* slurm_runner.py as its runner, composed with the orchestration database *)
(* of WorkflowEngine and with users who submit, cancel and retry.          *)
(*                                                                         *)
(* A worker process is a program counter and its local variables.  One     *)
(* step is one engine transaction or one call of the scheduler or of the   *)
(* staging file system, so everything may happen between two calls.  An    *)
(* exception inside run_once leads to AsyncWorker._fail (pc "failing"),    *)
(* one before its try block ends the process (its lease is left behind).   *)
(* record_stage and record_reported_stages only assert the lease and       *)
(* append an event; they are merged with the engine call that follows.     *)
(*                                                                         *)
(* The scheduler is external: what sbatch, squeue, sacct and scancel do is *)
(* modelled from how slurm.py uses them.  A job carries the name of its    *)
(* attempt.  The staging directory of an attempt is its receipt file.      *)
(***************************************************************************)
EXTENDS WorkflowEngine

CONSTANTS
    Cleanup,            \* storage profile: "never", "on-success" or "always"
    LeaseOutlivesStep,  \* TRUE: no lease expires while its process runs on
    MaxCrashes,         \* bound: crashes of worker processes
    MaxErrors           \* bound: failing calls of scheduler or storage

ASSUME AsyncAssumption ==
    /\ Cleanup \in {"never", "on-success", "always"}
    /\ LeaseOutlivesStep \in BOOLEAN
    /\ MaxCrashes \in Nat /\ MaxErrors \in Nat

VARIABLES
    pc,         \* pc[w]: the next call of worker process w
    handle,     \* handle[w]: local variable, the scheduler job in hand
    status,     \* status[w]: local variable, what the target last reported
    job,        \* job[h]: scheduler job h, its name and state
    receipt,    \* receipt[a]: submission-receipt file of attempt a
    crashes, errors

locals == <<pc, handle, status>>
target == <<job, receipt>>
faults == <<crashes, errors>>
avars == <<run, task, attempt, lease, clock, cancels, retries,
           pc, handle, status, job, receipt, crashes, errors>>

PCs == {"idle", "task_request", "attempt_state", "mark_submitting",
        "find_job", "sbatch", "write_receipt", "record_submission", "poll",
        "record_target_status", "collect", "finalize", "complete", "failing",
        "fail", "cancel", "finalize_canceled", "mark_canceled", "release"}
ActiveJob == {"queued", "running"}
EndedJob == {"succeeded", "failed", "canceled"}
NoJob == [name |-> <<>>, state |-> "none"]

AsyncInit ==
    /\ Init
    /\ pc = [w \in Workers |-> "idle"]
    /\ handle = [w \in Workers |-> NoHandle]
    /\ status = [w \in Workers |-> "unknown"]
    /\ job = [h \in Handles |-> NoJob]
    /\ receipt = [a \in AttemptIds |-> NoHandle]
    /\ crashes = 0
    /\ errors = 0

\* Control passes to call p; the local variables hold h and s.
Goto(w, p, h, s) ==
    /\ pc' = [pc EXCEPT ![w] = p]
    /\ handle' = [handle EXCEPT ![w] = h]
    /\ status' = [status EXCEPT ![w] = s]
Continue(w, p) == Goto(w, p, handle[w], status[w])
\* run_once returns: its local variables are gone.
Return(w) == Goto(w, "idle", NoHandle, "unknown")

Attempt(w) == lease[w].attempt

\* Raises "stale or invalid task lease" inside the try block.
Stale(w) ==
    /\ ~HoldsLease(w)
    /\ Continue(w, "failing")
    /\ UNCHANGED <<vars, target, faults>>

\* Variant: the storage profile is not looked at.
ReceiptRemoved(a, succeeded) == [receipt EXCEPT ![a] = NoHandle]

\* The receipt file after finalize(request, succeeded): the policy may
\* remove the staging directory of the attempt.
FinalizedReceipt(a, succeeded) ==
    IF Cleanup = "always" \/ (Cleanup = "on-success" /\ succeeded)
    THEN [receipt EXCEPT ![a] = NoHandle]
    ELSE receipt

-----------------------------------------------------------------------------
(* run_once up to its try block. *)

\* Leases of processes that crashed or returned without settling them.
OrphanTokens ==
    RecordedTokens
      \ {lease[w].token : w \in {v \in Workers : lease[v] # NoLease}}

ExpirySets ==
    IF LeaseOutlivesStep THEN SUBSET OrphanTokens ELSE SUBSET RecordedTokens

WorkerClaims(w, E) ==
    /\ pc[w] = "idle"
    /\ ClaimTask(w, E)
    /\ IF lease'[w] = NoLease THEN UNCHANGED locals
                              ELSE Continue(w, "task_request")
    /\ UNCHANGED <<target, faults>>

\* _task_request reads the output artifact of every parent task.
InputsRecorded(w) ==
    LET t == Attempt(w)[1] IN
    \A p \in Parents[t[2]] : task[<<t[1], p>>].outputs # 0

\* task_request is called before the try block: an exception there ends the
\* worker process, and the attempt keeps its lease.
BuildsRequest(w) ==
    /\ pc[w] = "task_request"
    /\ \/ /\ HoldsLease(w) /\ InputsRecorded(w)
          /\ Continue(w, "attempt_state")
          /\ UNCHANGED vars
       \/ /\ ~(HoldsLease(w) /\ InputsRecorded(w))
          /\ LoseProcess(w)
          /\ Return(w)
    /\ UNCHANGED <<target, faults>>

\* attempt_state, and the branch that run_once takes on it.
ReadsAttemptState(w) ==
    LET h == lease[w].handle
        canceling == attempt[Attempt(w)].state = "cancel_requested"
    IN
    /\ pc[w] = "attempt_state"
    /\ \/ Stale(w)
       \/ /\ HoldsLease(w)
          /\ Goto(w, CASE canceling /\ h # NoHandle -> "cancel"
                       [] canceling /\ h = NoHandle -> "mark_canceled"
                       [] ~canceling /\ h = NoHandle -> "mark_submitting"
                       [] ~canceling /\ h # NoHandle -> "poll",
                  h, status[w])
          /\ UNCHANGED <<vars, target, faults>>

-----------------------------------------------------------------------------
(* Submission: the intent, the runner's submit, the handle. *)

WritesIntent(w) ==
    /\ pc[w] = "mark_submitting"
    /\ \/ Stale(w)
       \/ /\ MarkSubmitting(w)
          /\ Continue(w, "find_job")
          /\ UNCHANGED <<target, faults>>
       \/ /\ HoldsLease(w)
          /\ attempt[Attempt(w)].state
               \notin {"leased", "submitting", "cancel_requested"}
          /\ Continue(w, "failing")
          /\ UNCHANGED <<vars, target, faults>>

\* Variants: the name is that of the task; finished jobs are not looked for.
JobsNamedByTask(a, states) ==
    {h \in Handles : job[h].state \in states /\ job[h].name[1] = a[1]}

\* squeue --name, then sacct --name.
JobsNamed(a, states) ==
    {h \in Handles : job[h].name = a /\ job[h].state \in states}
FoundActive(a) == JobsNamed(a, ActiveJob)
FoundByName(a) ==
    IF JobsNamed(a, ActiveJob) # {} THEN JobsNamed(a, ActiveJob)
                                    ELSE JobsNamed(a, EndedJob)

\* submit looks for a receipt, then for a job with the attempt's name (and
\* writes the receipt of a job it finds).
FindsJob(w) ==
    LET a == Attempt(w) IN
    /\ pc[w] = "find_job"
    /\ \/ /\ receipt[a] # NoHandle
          /\ Goto(w, "record_submission", receipt[a], job[receipt[a]].state)
          /\ UNCHANGED receipt
       \/ /\ receipt[a] = NoHandle
          /\ \E h \in FoundByName(a) :
                /\ receipt' = [receipt EXCEPT ![a] = h]
                /\ Goto(w, "record_submission", h, job[h].state)
       \/ /\ receipt[a] = NoHandle /\ FoundByName(a) = {}
          /\ Continue(w, "sbatch")
          /\ UNCHANGED receipt
    /\ UNCHANGED <<vars, job, faults>>

\* sbatch returns a new job id.  (An unused handle is the bound on jobs.)
SubmitsJob(w) ==
    LET unused == {h \in Handles : job[h] = NoJob}
        h == CHOOSE x \in unused : TRUE
    IN
    /\ pc[w] = "sbatch"
    /\ unused # {}
    /\ job' = [job EXCEPT ![h] = [name |-> Attempt(w), state |-> "queued"]]
    /\ Goto(w, "write_receipt", h, "queued")
    /\ UNCHANGED <<vars, receipt, faults>>

WritesReceipt(w) ==
    /\ pc[w] = "write_receipt"
    /\ receipt' = [receipt EXCEPT ![Attempt(w)] = handle[w]]
    /\ Continue(w, "record_submission")
    /\ UNCHANGED <<vars, job, faults>>

\* Variants: a job that runs is collected; the lease of a job that is not
\* finished is kept.
AfterStatusTooEarly(s) ==
    CASE s \in {"running", "succeeded"} -> "collect"
      [] s \in {"failed", "canceled"} -> "failing"
      [] OTHER -> "release"
AfterStatusKeepsLease(s) ==
    CASE s = "succeeded" -> "collect"
      [] s \in {"failed", "canceled"} -> "failing"
      [] OTHER -> "idle"

\* What run_once does with a target state it has just recorded.
AfterStatus(s) ==
    CASE s = "succeeded" -> "collect"
      [] s \in {"failed", "canceled"} -> "failing"
      [] OTHER -> "release"

RecordsSubmission(w) ==
    /\ pc[w] = "record_submission"
    /\ \/ Stale(w)
       \/ /\ RecordSubmission(w, handle[w], status[w])
          /\ Continue(w, IF attempt'[Attempt(w)].state = "cancel_requested"
                         THEN "cancel" ELSE AfterStatus(status[w]))
          /\ UNCHANGED <<target, faults>>

-----------------------------------------------------------------------------
(* Polling and collection. *)

\* poll and collect refuse a handle that the receipt does not name.
CheckedReceipt(w) == receipt[Attempt(w)] = handle[w]

Polls(w) ==
    /\ pc[w] = "poll"
    /\ IF CheckedReceipt(w)
       THEN Goto(w, "record_target_status", handle[w], job[handle[w]].state)
       ELSE Continue(w, "failing")
    /\ UNCHANGED <<vars, target, faults>>

RecordsStatus(w) ==
    /\ pc[w] = "record_target_status"
    /\ \/ Stale(w)
       \/ /\ RecordTargetStatus(w, status[w])
          /\ Continue(w, AfterStatus(status[w]))
          /\ UNCHANGED <<target, faults>>

Collects(w) ==
    /\ pc[w] = "collect"
    /\ Continue(w, IF CheckedReceipt(w) THEN "finalize" ELSE "failing")
    /\ UNCHANGED <<vars, target, faults>>

Finalizes(w) ==
    /\ pc[w] = "finalize"
    /\ \/ Stale(w)
       \/ /\ HoldsLease(w)
          /\ receipt' = FinalizedReceipt(Attempt(w), TRUE)
          /\ Continue(w, "complete")
          /\ UNCHANGED <<vars, job, faults>>

\* complete_task raises when the lease no longer settles the task.
Completes(w) ==
    /\ pc[w] = "complete"
    /\ \/ /\ CompleteTask(w)
          /\ Return(w)
       \/ /\ ~SettlesTask(w) /\ task[Attempt(w)[1]].state # "succeeded"
          /\ Continue(w, "failing")
          /\ UNCHANGED vars
    /\ UNCHANGED <<target, faults>>

\* _fail: finalize, with or without the lease, then fail_task.
FinalizesFailed(w) ==
    /\ pc[w] = "failing"
    /\ receipt' = FinalizedReceipt(Attempt(w), FALSE)
    /\ Continue(w, "fail")
    /\ UNCHANGED <<vars, job, faults>>

Fails(w) ==
    /\ pc[w] = "fail"
    /\ FailTask(w)
    /\ Return(w)
    /\ UNCHANGED <<target, faults>>

\* Variant: the lease is given up without a look at who holds it.
ReleasesUnchecked(w) ==
    /\ pc[w] = "release"
    /\ attempt' = [attempt EXCEPT ![Attempt(w)] = Unleased(@)]
    /\ lease' = [lease EXCEPT ![w] = NoLease]
    /\ Return(w)
    /\ UNCHANGED <<run, task, clock, bounds, target, faults>>

Releases(w) ==
    /\ pc[w] = "release"
    /\ \/ Stale(w)
       \/ /\ ReleaseLease(w)
          /\ Return(w)
          /\ UNCHANGED <<target, faults>>

-----------------------------------------------------------------------------
(* Cancellation: AsyncWorker._cancel. *)

\* scancel, if the receipt names the job; an error releases the lease.
CancelsJob(w) ==
    /\ pc[w] = "cancel"
    /\ IF CheckedReceipt(w)
       THEN /\ job' = [job EXCEPT ![handle[w]].state =
                         IF @ \in ActiveJob THEN "canceled" ELSE @]
            /\ Continue(w, "finalize_canceled")
       ELSE /\ Continue(w, "release")
            /\ UNCHANGED job
    /\ UNCHANGED <<vars, receipt, faults>>

FinalizesCanceled(w) ==
    /\ pc[w] = "finalize_canceled"
    /\ \/ Stale(w)
       \/ /\ HoldsLease(w)
          /\ receipt' = FinalizedReceipt(Attempt(w), FALSE)
          /\ Continue(w, "mark_canceled")
          /\ UNCHANGED <<vars, job, faults>>

MarksCanceled(w) ==
    /\ pc[w] = "mark_canceled"
    /\ \/ Stale(w)
       \/ /\ MarkAttemptCanceled(w)
          /\ Return(w)
          /\ UNCHANGED <<target, faults>>

-----------------------------------------------------------------------------
(* Faults, the scheduler and the users. *)

\* The process dies at any point and a new one takes its place.
Crashes(w) ==
    /\ pc[w] # "idle"
    /\ crashes < MaxCrashes
    /\ LoseProcess(w)
    /\ Return(w)
    /\ crashes' = crashes + 1
    /\ UNCHANGED <<target, errors>>

\* A call of the runner raises and has no effect: staging, squeue, sacct,
\* sbatch or an output file.  _cancel releases the lease, every other caller
\* fails the task.
CallFails(w) ==
    /\ pc[w] \in {"find_job", "sbatch", "poll", "collect", "cancel"}
    /\ errors < MaxErrors
    /\ Continue(w, IF pc[w] = "cancel" THEN "release" ELSE "failing")
    /\ errors' = errors + 1
    /\ UNCHANGED <<vars, target, crashes>>

\* Neither squeue nor sacct knows the job at the moment: state "unknown".
TargetUnknown(w) ==
    /\ pc[w] = "poll"
    /\ CheckedReceipt(w)
    /\ errors < MaxErrors
    /\ Goto(w, "record_target_status", handle[w], "unknown")
    /\ errors' = errors + 1
    /\ UNCHANGED <<vars, target, crashes>>

JobStarts(h) ==
    /\ job[h].state = "queued"
    /\ job' = [job EXCEPT ![h].state = "running"]
    /\ UNCHANGED <<vars, locals, receipt, faults>>

JobEnds(h, s) ==
    /\ job[h].state = "running"
    /\ job' = [job EXCEPT ![h].state = s]
    /\ UNCHANGED <<vars, locals, receipt, faults>>

\* A job may also be preempted, which classify_state calls canceled.
SchedulerStep(h) == JobStarts(h) \/ \E s \in EndedJob : JobEnds(h, s)

UserStep ==
    /\ \/ \E r \in Runs : SubmitRun(r) \/ CancelRun(r)
       \/ \E t \in Tasks : RetryTask(t)
    /\ UNCHANGED <<locals, target, faults>>

WorkerCall(w) ==
    \/ BuildsRequest(w) \/ ReadsAttemptState(w)
    \/ WritesIntent(w) \/ FindsJob(w) \/ SubmitsJob(w) \/ WritesReceipt(w)
    \/ RecordsSubmission(w) \/ Polls(w) \/ RecordsStatus(w) \/ Collects(w)
    \/ Finalizes(w) \/ Completes(w) \/ FinalizesFailed(w) \/ Fails(w)
    \/ Releases(w) \/ CancelsJob(w) \/ FinalizesCanceled(w) \/ MarksCanceled(w)

AsyncNext ==
    \/ \E w \in Workers :
          \/ \E E \in ExpirySets : WorkerClaims(w, E)
          \/ WorkerCall(w)
          \/ Crashes(w)
          \/ CallFails(w)
          \/ TargetUnknown(w)
    \/ \E h \in Handles : SchedulerStep(h)
    \/ UserStep

AsyncSpec == AsyncInit /\ [][AsyncNext]_avars
-----------------------------------------------------------------------------
(* Properties. *)

\* Type correctness of the workers' local state, the scheduler and the
\* receipts; outside a claim a process has no lease and no local state.
AsyncTypeOK ==
    /\ TypeOK
    /\ pc \in [Workers -> PCs]
    /\ handle \in [Workers -> Handles \cup {NoHandle}]
    /\ status \in [Workers -> TargetStates]
    /\ job \in [Handles -> [name : AttemptIds \cup {<<>>},
                            state : {"none"} \cup ActiveJob \cup EndedJob]]
    /\ receipt \in [AttemptIds -> Handles \cup {NoHandle}]
    /\ crashes \in Nat /\ errors \in Nat
    /\ \A w \in Workers :
          pc[w] = "idle" <=> lease[w] = NoLease

\* docs/hpc-execution.md:28: a crash between sbatch and database persistence
\* recovers through the receipt or the job name, preventing duplicate
\* submission.  One attempt never has two jobs at the scheduler.
NoDuplicateJob ==
    \A g, h \in Handles :
        g # h /\ job[g] # NoJob /\ job[h] # NoJob => job[g].name # job[h].name

\* The handle on record for an attempt, and the one its receipt names, are a
\* job that was submitted for this attempt, not for an earlier attempt of the
\* task, whoever recovered it.
HandleIsOwnJob ==
    \A a \in AttemptIds :
        /\ attempt[a].handle # NoHandle => job[attempt[a].handle].name = a
        /\ receipt[a] # NoHandle => job[receipt[a]].name = a

\* The result of a task is that of a job that ran to success.
SuccessHasJob ==
    \A t \in Tasks :
        task[t].state = "succeeded" =>
            \E h \in Handles : /\ job[h].name = <<t, task[t].outputs>>
                              /\ job[h].state = "succeeded"

\* docs/hpc-execution.md:28: a worker restart adopts an existing scheduler
\* handle.  No crash turns a job that runs, or has run to success, into a
\* failed attempt.
FailureIsTheJobs ==
    \A a \in AttemptIds, h \in Handles :
        attempt[a].state = "failed" /\ job[h].name = a =>
            job[h].state \in {"failed", "canceled"}

\* docs/architecture.md:233: retries never erase target handles; nor does
\* anything else.
HandlesKept ==
    [][\A a \in AttemptIds :
          attempt[a].handle # NoHandle =>
              attempt'[a].handle = attempt[a].handle]_avars

-----------------------------------------------------------------------------
(* Liveness. *)

\* A claim at a time when every lease left behind has expired.  Leases last
\* for a fixed number of seconds and run_forever claims at every poll
\* interval, so such claims never stop coming.
LateClaim(w) == WorkerClaims(w, OrphanTokens)
AnyClaim(w) == \E E \in ExpirySets : WorkerClaims(w, E)

\* The process keeps calling (run_forever, and a call that does not return is
\* a crash), it keeps claiming, and Slurm runs its jobs to an end.
Fairness ==
    /\ \A w \in Workers : /\ WF_avars(WorkerCall(w))
                           /\ WF_avars(AnyClaim(w))
                           /\ SF_avars(LateClaim(w))
    /\ \A h \in Handles : WF_avars(SchedulerStep(h))

FairAsyncSpec == AsyncSpec /\ Fairness

\* A run comes to an end in spite of crashes: run_forever goes on until its
\* tasks are settled, unless cancel_run ends it.
RunsEnd ==
    \A r \in Runs :
        run[r].state = "queued" ~>
            run[r].state \in {"succeeded", "failed", "canceled"}

\* Every attempt of claim_task is settled in the end, also those of a run
\* that failed because of another task, unless the run is canceled.
AttemptsSettle ==
    \A a \in AttemptIds :
        attempt[a].state \in LiveStates ~>
            \/ attempt[a].state \in SettledStates
            \/ run[a[1][1]].state = "canceled"

\* docs/worker.md:103: the worker propagates cancellation.  An attempt whose
\* cancellation is requested is settled in the end.
CancelRequestsSettle ==
    \A a \in AttemptIds :
        attempt[a].state = "cancel_requested" ~>
            attempt[a].state \in SettledStates

\* docs/hpc-execution.md:23: the worker propagates cancellation through
\* scancel.  Once its run is canceled, an attempt that is still live is
\* settled in the end.
CancellationSettles ==
    \A a \in AttemptIds :
        run[a[1][1]].state = "canceled" /\ attempt[a].state \in LiveStates
            ~> \/ attempt[a].state \in SettledStates
               \/ run[a[1][1]].state # "canceled"
=============================================================================
