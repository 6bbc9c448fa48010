--------------------------- MODULE WorkflowEngine ---------------------------
(***************************************************************************)
(* The orchestration database of src/qhpc_ecosystem/engine.py: runs, their *)
(* tasks, the append-only attempts of a task, and the leases that worker   *)
(* processes hold on attempts.                                             *)
(*                                                                         *)
(* Every public operation of WorkflowEngine runs in one SQLite             *)
(* transaction (BEGIN IMMEDIATE), so an operation is one action here.  An  *)
(* operation that raises rolls its transaction back; in this module it is  *)
(* simply not enabled, and AsyncWorker says what its caller does then.     *)
(* The clients are arbitrary: the API or the CLI may submit, cancel and    *)
(* retry at any time, and a worker process that holds a TaskLease may call *)
(* any operation with it, in any order, however old the lease is.          *)
(*                                                                         *)
(* Abstractions.                                                           *)
(*  - A run is its creation rank, a task <<run, node>> with the node its   *)
(*    rank in topological_nodes, an attempt <<task, number>>.              *)
(*  - A lease token is a uuid: a member of Tokens that no row and no       *)
(*    worker process holds.                                                *)
(*  - lease_expires_at is not stored.  Durations differ between workers    *)
(*    and renew_lease extends them, so at any claim_task any set of the    *)
(*    leases recorded in the rows may have expired.                        *)
(*  - The outputs of a task are the number of the attempt whose artifacts  *)
(*    they name, 0 standing for the empty object.                          *)
(*                                                                         *)
(* An operator whose comment starts with "Variant" is a version of the one *)
(* after it with a bug that its properties must notice; Next uses none.    *)
(***************************************************************************)
EXTENDS Naturals, FiniteSets

CONSTANTS
    NumRuns,        \* runs that may be submitted
    NumNodes,       \* nodes of the workflow, in topological order
    Parents,        \* Parents[n]: the nodes with an edge to n
    OutputNodes,    \* the nodes that the workflow's outputs come from
    Workers,        \* worker processes
    Serves,         \* Serves[w]: nodes whose target and class w advertises
    Tokens,         \* lease tokens
    Handles,        \* target-owned execution handles
    NoWorker, NoToken, NoHandle, NoLease,   \* SQL NULL and Python None
    MaxAttempts,    \* bound: attempts of one task
    MaxCancels,     \* bound: calls of cancel_run that take effect
    MaxRetries      \* bound: calls of retry_task

Runs == 1 .. NumRuns
Nodes == 1 .. NumNodes
Tasks == Runs \X Nodes
Numbers == 1 .. MaxAttempts
AttemptIds == Tasks \X Numbers

\* Runs, nodes and attempts are counted; a parent precedes its children in
\* the order of topological_nodes; each null is outside the set it extends.
ASSUME EngineAssumption ==
    /\ NumRuns \in Nat /\ NumNodes \in Nat /\ MaxAttempts \in Nat
    /\ MaxCancels \in Nat /\ MaxRetries \in Nat
    /\ Parents \in [Nodes -> SUBSET Nodes]
    /\ \A n \in Nodes : \A p \in Parents[n] : p < n
    /\ OutputNodes \subseteq Nodes
    /\ Serves \in [Workers -> SUBSET Nodes]
    /\ NoWorker \notin Workers
    /\ NoToken \notin Tokens
    /\ NoHandle \notin Handles
    /\ NoLease \notin [attempt : AttemptIds, token : Tokens,
                       handle : Handles \cup {NoHandle}]

VARIABLES
    run,        \* table runs
    task,       \* table tasks
    attempt,    \* table task_attempts
    lease,      \* lease[w]: the TaskLease object in the memory of process w
    clock,      \* attempts inserted so far: the next started_at
    cancels,    \* effective calls of cancel_run
    retries     \* calls of retry_task

dbvars == <<run, task, attempt, clock>>
bounds == <<cancels, retries>>
vars == <<run, task, attempt, lease, clock, cancels, retries>>

RunStates == {"none", "queued", "running", "succeeded", "failed", "canceled"}
TaskStates == {"none", "pending", "running", "succeeded", "failed", "canceled"}
LiveStates == {"leased", "submitting", "submitted", "running", "collecting",
               "cancel_requested"}
SettledStates == {"succeeded", "failed", "canceled", "abandoned"}
TargetStates == {"queued", "running", "succeeded", "failed", "canceled",
                 "unknown"}

Lease == [attempt : AttemptIds, token : Tokens,
          handle : Handles \cup {NoHandle}]
RunRow == [state : RunStates, outputs : [Nodes -> 0 .. MaxAttempts]]
TaskRow == [state : TaskStates, attempt : 0 .. MaxAttempts,
            token : Tokens \cup {NoToken}, outputs : 0 .. MaxAttempts]
AttemptRow == [state : {"none"} \cup LiveStates \cup SettledStates,
               worker : Workers \cup {NoWorker},
               token : Tokens \cup {NoToken},
               handle : Handles \cup {NoHandle},
               startedAt : Nat]

NoOutputs == [n \in Nodes |-> 0]
NoAttempt == [state |-> "none", worker |-> NoWorker, token |-> NoToken,
              handle |-> NoHandle, startedAt |-> 0]

TasksOf(r) == {r} \X Nodes

\* The attempt that the task row counts as its latest one.
Current(t) == <<t, task[t].attempt>>

\* Variant: giving up the lease forgets the job as well.
UnleasedAndDetached(row) == [row EXCEPT !.worker = NoWorker, !.token = NoToken,
                                        !.handle = NoHandle]

Unleased(row) == [row EXCEPT !.worker = NoWorker, !.token = NoToken]

Init ==
    /\ run = [r \in Runs |-> [state |-> "none", outputs |-> NoOutputs]]
    /\ task = [t \in Tasks |-> [state |-> "none", attempt |-> 0,
                                token |-> NoToken, outputs |-> 0]]
    /\ attempt = [a \in AttemptIds |-> NoAttempt]
    /\ lease = [w \in Workers |-> NoLease]
    /\ clock = 0
    /\ cancels = 0
    /\ retries = 0

-----------------------------------------------------------------------------
(* Requests of users. *)

\* submit_run: the run is queued and every task of it inserted as pending.
SubmitRun(r) ==
    /\ run[r].state = "none"
    /\ \A q \in Runs : q < r => run[q].state # "none"
    /\ run' = [run EXCEPT ![r].state = "queued"]
    /\ task' = [t \in Tasks |->
                  IF t[1] = r THEN [task[t] EXCEPT !.state = "pending"]
                              ELSE task[t]]
    /\ UNCHANGED <<attempt, lease, clock, bounds>>

\* Variant: cancel_run looks at settled attempts too.
CancelableOrSettled == LiveStates \cup SettledStates

\* The attempt states that cancel_run looks for ("submitting" is not one).
CancelableStates == {"leased", "submitted", "running", "collecting",
                     "cancel_requested"}

\* The attempt row that cancel_run leaves: an attempt with a target handle
\* is given up by its worker, so that any worker may cancel the job.
CanceledAttempt(row) ==
    IF row.state \notin CancelableStates
    THEN row
    ELSE IF row.handle = NoHandle
    THEN [row EXCEPT !.state = "cancel_requested"]
    ELSE [Unleased(row) EXCEPT !.state = "cancel_requested"]

\* cancel_run: no effect on a run that is already terminal.
CancelRun(r) ==
    /\ run[r].state \in {"queued", "running"}
    /\ cancels < MaxCancels
    /\ attempt' = [a \in AttemptIds |->
                     IF a[1][1] = r THEN CanceledAttempt(attempt[a])
                                    ELSE attempt[a]]
    /\ task' = [t \in Tasks |->
                  IF t[1] = r /\ task[t].state \in {"pending", "running"}
                  THEN [task[t] EXCEPT !.state = "canceled",
                                       !.token = NoToken]
                  ELSE task[t]]
    /\ run' = [run EXCEPT ![r].state = "canceled"]
    /\ cancels' = cancels + 1
    /\ UNCHANGED <<lease, clock, retries>>

\* The nodes that retry_task resets: the least set that holds the node and,
\* with a node, every node it has an edge to.
Descendants(n) ==
    {m \in Nodes :
        \A S \in SUBSET Nodes :
            (/\ n \in S
             /\ \A c \in Nodes : Parents[c] \cap S # {} => c \in S)
            => m \in S}

\* retry_task: the task and its descendants become pending whatever their
\* state and that of the run; the attempts are left as they are.
RetryTask(t) ==
    /\ run[t[1]].state # "none"
    /\ retries < MaxRetries
    /\ task' = [u \in Tasks |->
                  IF u[1] = t[1] /\ u[2] \in Descendants(t[2])
                  THEN [task[u] EXCEPT !.state = "pending",
                                       !.token = NoToken, !.outputs = 0]
                  ELSE task[u]]
    /\ run' = [run EXCEPT ![t[1]] = [state |-> "queued",
                                     outputs |-> NoOutputs]]
    /\ retries' = retries + 1
    /\ UNCHANGED <<attempt, lease, clock, cancels>>

-----------------------------------------------------------------------------
(* claim_task: expired leases are reset, then an attempt whose lease was   *)
(* given up is recovered or, when there is none, a ready task is started.  *)

\* The tokens that a row or a worker process still knows.
TokensInUse ==
    {attempt[a].token : a \in AttemptIds} \cup {task[t].token : t \in Tasks}
      \cup {lease[w].token : w \in {v \in Workers : lease[v] # NoLease}}

RecordedTokens ==
    ({attempt[a].token : a \in AttemptIds} \cup {task[t].token : t \in Tasks})
      \ {NoToken}

FreshToken == CHOOSE k \in Tokens : k \notin TokensInUse

\* Variant: the leases on tasks of runs that are over are not looked at.
ExpiredTasksOfOpenRuns(E) ==
    {t \in Tasks :
        /\ task[t].attempt > 0
        /\ run[t[1]].state \in {"queued", "running"}
        /\ task[t].token \in E \/ attempt[Current(t)].token \in E
        /\ task[t].state = "running"
             \/ attempt[Current(t)].state = "cancel_requested"}

\* The tasks that _reset_expired_leases selects when the leases with the
\* tokens E have expired: the lease of the task row or of its current
\* attempt is one of them.
ExpiredTasks(E) ==
    {t \in Tasks :
        /\ task[t].attempt > 0
        /\ task[t].token \in E \/ attempt[Current(t)].token \in E
        /\ task[t].state = "running"
             \/ attempt[Current(t)].state = "cancel_requested"}

\* Its three cases: a canceled run with nothing at the target, an attempt
\* that another worker can adopt, and an attempt that is given up.
\* (Variant: the first case is forgotten.)
NeverCanceledBeforeTarget(a) == FALSE
CanceledBeforeTarget(a) ==
    run[a[1][1]].state = "canceled" /\ attempt[a].handle = NoHandle
Adoptable(a) ==
    /\ ~CanceledBeforeTarget(a)
    /\ attempt[a].handle # NoHandle \/ attempt[a].state = "submitting"
Abandoned(a) == ~CanceledBeforeTarget(a) /\ ~Adoptable(a)

\* Variant: the task is made pending, its attempt left as it is.
AttemptsReleasedOnly(E) ==
    [a \in AttemptIds |->
        IF a[1] \notin ExpiredTasks(E) \/ a # Current(a[1])
        THEN attempt[a]
        ELSE Unleased(attempt[a])]

AttemptsAfterReset(E) ==
    [a \in AttemptIds |->
        IF a[1] \notin ExpiredTasks(E) \/ a # Current(a[1])
        THEN attempt[a]
        ELSE [Unleased(attempt[a]) EXCEPT
                !.state = IF CanceledBeforeTarget(a) THEN "canceled"
                          ELSE IF Abandoned(a) THEN "abandoned"
                          ELSE @]]

\* Variant: the attempt is abandoned, its task left running.
TasksReleasedOnly(E) ==
    [t \in Tasks |->
        IF t \in ExpiredTasks(E) THEN [task[t] EXCEPT !.token = NoToken]
                                 ELSE task[t]]

TasksAfterReset(E) ==
    [t \in Tasks |->
        IF t \notin ExpiredTasks(E)
        THEN task[t]
        ELSE [task[t] EXCEPT
                !.token = NoToken,
                !.state = IF Abandoned(Current(t)) THEN "pending" ELSE @]]

\* Variants: an intent without a handle, or a job to be canceled, is not
\* recovered.
RecoverableByHandle(w, att) ==
    {a \in AttemptIds :
        /\ att[a].token = NoToken /\ att[a].handle # NoHandle
        /\ att[a].state \in {"submitted", "running", "collecting",
                             "cancel_requested"}
        /\ a[1][2] \in Serves[w]}
RecoverableToFinish(w, att) ==
    {a \in AttemptIds :
        /\ att[a].token = NoToken
        /\ \/ att[a].handle # NoHandle
              /\ att[a].state \in {"submitted", "running", "collecting"}
           \/ att[a].handle = NoHandle /\ att[a].state = "submitting"
        /\ a[1][2] \in Serves[w]}

\* The attempts that worker w may take over: a scheduler handle, or the
\* intent to submit, is on record and nobody holds the lease.
Recoverable(w, att) ==
    {a \in AttemptIds :
        /\ att[a].token = NoToken
        /\ \/ att[a].handle # NoHandle
              /\ att[a].state \in {"submitted", "running", "collecting",
                                   "cancel_requested"}
           \/ att[a].handle = NoHandle /\ att[a].state = "submitting"
        /\ a[1][2] \in Serves[w]}

\* ORDER BY cancel_requested first, then started_at.
Sooner(x, y) ==
    \/ x.state = "cancel_requested" /\ y.state # "cancel_requested"
    \/ /\ x.state = "cancel_requested" <=> y.state = "cancel_requested"
       /\ x.startedAt <= y.startedAt

\* Variant: the parents are not looked at.
ReadyInAnyOrder(w, tsk) ==
    {t \in Tasks :
        /\ tsk[t].state = "pending"
        /\ run[t[1]].state \in {"queued", "running"}
        /\ t[2] \in Serves[w]
        /\ tsk[t].attempt < MaxAttempts}

\* The ready tasks: pending in a run that is not terminal, every parent
\* succeeded.  (attempt < MaxAttempts is the bound.)
Ready(w, tsk) ==
    {t \in Tasks :
        /\ tsk[t].state = "pending"
        /\ run[t[1]].state \in {"queued", "running"}
        /\ t[2] \in Serves[w]
        /\ \A p \in Parents[t[2]] : tsk[<<t[1], p>>].state = "succeeded"
        /\ tsk[t].attempt < MaxAttempts}

\* ORDER BY created_at of the run, then sequence of the task.
Earlier(t, u) == t[1] < u[1] \/ (t[1] = u[1] /\ t[2] <= u[2])

Recover(w, a, att, tsk) ==
    /\ attempt' = [att EXCEPT ![a].worker = w, ![a].token = FreshToken]
    /\ task' = [tsk EXCEPT ![a[1]].token = FreshToken]
    /\ lease' = [lease EXCEPT ![w] = [attempt |-> a, token |-> FreshToken,
                                      handle |-> att[a].handle]]
    /\ UNCHANGED <<run, clock, bounds>>

Start(w, t, att, tsk) ==
    LET a == <<t, tsk[t].attempt + 1>> IN
    /\ task' = [tsk EXCEPT ![t].state = "running", ![t].attempt = @ + 1,
                           ![t].token = FreshToken]
    /\ attempt' = [att EXCEPT ![a] = [state |-> "leased", worker |-> w,
                                      token |-> FreshToken,
                                      handle |-> NoHandle,
                                      startedAt |-> clock + 1]]
    /\ run' = [run EXCEPT ![t[1]].state = "running"]
    /\ lease' = [lease EXCEPT ![w] = [attempt |-> a, token |-> FreshToken,
                                      handle |-> NoHandle]]
    /\ clock' = clock + 1
    /\ UNCHANGED bounds

ClaimRecovered(w, E) ==
    /\ lease[w] = NoLease
    /\ Tokens \ TokensInUse # {}
    /\ LET att == AttemptsAfterReset(E) IN
       \E a \in Recoverable(w, att) :
          /\ \A b \in Recoverable(w, att) : Sooner(att[a], att[b])
          /\ Recover(w, a, att, TasksAfterReset(E))

ClaimReady(w, E) ==
    /\ lease[w] = NoLease
    /\ Tokens \ TokensInUse # {}
    /\ LET att == AttemptsAfterReset(E)
           tsk == TasksAfterReset(E)
       IN  /\ Recoverable(w, att) = {}
           /\ \E t \in Ready(w, tsk) :
                 /\ \A u \in Ready(w, tsk) : Earlier(t, u)
                 /\ Start(w, t, att, tsk)

\* Nothing to claim: the reset is committed all the same.
ClaimNothing(w, E) ==
    /\ lease[w] = NoLease
    /\ Recoverable(w, AttemptsAfterReset(E)) = {}
    /\ Ready(w, TasksAfterReset(E)) = {}
    /\ attempt' = AttemptsAfterReset(E)
    /\ task' = TasksAfterReset(E)
    /\ UNCHANGED <<run, lease, clock, bounds>>

ClaimTask(w, E) ==
    ClaimRecovered(w, E) \/ ClaimReady(w, E) \/ ClaimNothing(w, E)

-----------------------------------------------------------------------------
(* Operations of the process that holds a lease.                           *)

\* _assert_lease: the attempt row still carries the worker and the token.
\* Neither the expiry, nor the state of the task or of the run, is looked at.
HoldsLease(w) ==
    /\ lease[w] # NoLease
    /\ attempt[lease[w].attempt].worker = w
    /\ attempt[lease[w].attempt].token = lease[w].token

\* mark_submitting; it leaves a cancel_requested attempt as it is.
MarkSubmitting(w) ==
    /\ HoldsLease(w)
    /\ attempt[lease[w].attempt].state
         \in {"leased", "submitting", "cancel_requested"}
    /\ attempt' = [attempt EXCEPT ![lease[w].attempt].state =
                     IF @ = "cancel_requested" THEN @ ELSE "submitting"]
    /\ UNCHANGED <<run, task, lease, clock, bounds>>

SubmittedState(s) ==
    CASE s = "running" -> "running"
      [] s = "succeeded" -> "collecting"
      [] OTHER -> "submitted"

\* record_submission: the handle h that the target returned, in state s.
RecordSubmission(w, h, s) ==
    /\ HoldsLease(w)
    /\ attempt' = [attempt EXCEPT
                     ![lease[w].attempt].handle = h,
                     ![lease[w].attempt].state =
                        IF @ = "cancel_requested" THEN @ ELSE SubmittedState(s)]
    /\ UNCHANGED <<run, task, lease, clock, bounds>>

\* Variant: the target's state is stored as it was reported.
PolledStateAsReported(old, s) == IF s \in TargetStates THEN s ELSE old

PolledState(old, s) ==
    CASE s = "queued" -> "submitted"
      [] s = "running" -> "running"
      [] s = "succeeded" -> "collecting"
      [] OTHER -> old

\* record_target_status: the target reported state s.
RecordTargetStatus(w, s) ==
    /\ HoldsLease(w)
    /\ attempt' = [attempt EXCEPT ![lease[w].attempt].state =
                     PolledState(@, s)]
    /\ UNCHANGED <<run, task, lease, clock, bounds>>

\* release_lease: the task row is cleared only if it has the same token.
ReleaseLease(w) ==
    LET a == lease[w].attempt IN
    /\ HoldsLease(w)
    /\ attempt' = [attempt EXCEPT ![a] = Unleased(@)]
    /\ task' = [task EXCEPT ![a[1]].token =
                  IF @ = lease[w].token THEN NoToken ELSE @]
    /\ lease' = [lease EXCEPT ![w] = NoLease]
    /\ UNCHANGED <<run, clock, bounds>>

\* mark_attempt_canceled: the task row is written whatever it holds.
MarkAttemptCanceled(w) ==
    LET a == lease[w].attempt IN
    /\ HoldsLease(w)
    /\ attempt' = [attempt EXCEPT ![a] = [Unleased(@) EXCEPT
                                            !.state = "canceled"]]
    /\ task' = [task EXCEPT ![a[1]].state = "canceled",
                            ![a[1]].token = NoToken]
    /\ lease' = [lease EXCEPT ![w] = NoLease]
    /\ UNCHANGED <<run, clock, bounds>>

\* Variant: only the attempt must carry the token.
SettlesAttempt(w) ==
    LET a == lease[w].attempt IN
    /\ task[a[1]].state = "running"
    /\ attempt[a].token = lease[w].token

\* The test that _complete and _fail make before they settle a task: it is
\* the task row, not the attempt, that must carry the token.
SettlesTask(w) ==
    LET a == lease[w].attempt IN
    /\ task[a[1]].state = "running"
    /\ task[a[1]].token = lease[w].token
    /\ attempt[a].token = lease[w].token

\* Variants: the outputs are read before the task has its own; the run is
\* over as soon as no other task is running.
FinishedRunReadEarly(t, k) ==
    IF \A u \in TasksOf(t[1]) : u = t \/ task[u].state = "succeeded"
    THEN [state |-> "succeeded",
          outputs |-> [n \in Nodes |->
                         IF n \notin OutputNodes THEN 0
                         ELSE task[<<t[1], n>>].outputs]]
    ELSE run[t[1]]
FinishedRunWhenIdle(t, k) ==
    IF \A u \in TasksOf(t[1]) : u = t \/ task[u].state # "running"
    THEN [run[t[1]] EXCEPT !.state = "succeeded"]
    ELSE run[t[1]]

\* _finish_run_if_terminal, once task t has the outputs of attempt k.
FinishedRun(t, k) ==
    IF \A u \in TasksOf(t[1]) : u = t \/ task[u].state = "succeeded"
    THEN [state |-> "succeeded",
          outputs |-> [n \in Nodes |->
                         IF n \notin OutputNodes THEN 0
                         ELSE IF n = t[2] THEN k
                         ELSE task[<<t[1], n>>].outputs]]
    ELSE run[t[1]]

\* Variant: the outputs are credited to the latest attempt.
CompletedByLatest(row, k) ==
    [row EXCEPT !.state = "succeeded", !.token = NoToken,
                !.outputs = row.attempt]

\* The task row that attempt k completed.
CompletedTask(row, k) ==
    [row EXCEPT !.state = "succeeded", !.token = NoToken, !.outputs = k]

\* complete_task with acceptable outputs.  A task that already succeeded is
\* left alone without an error.
CompleteTask(w) ==
    LET a == lease[w].attempt
        t == a[1]
    IN
    /\ lease[w] # NoLease
    /\ lease' = [lease EXCEPT ![w] = NoLease]
    /\ \/ /\ task[t].state = "succeeded"
          /\ UNCHANGED <<run, task, attempt>>
       \/ /\ SettlesTask(w)
          /\ task' = [task EXCEPT ![t] = CompletedTask(@, a[2])]
          /\ attempt' = [attempt EXCEPT ![a] = [Unleased(@) EXCEPT
                                                  !.state = "succeeded"]]
          /\ run' = [run EXCEPT ![t[1]] = FinishedRun(t, a[2])]
    /\ UNCHANGED <<clock, bounds>>

\* fail_task: silent when the lease no longer settles the task.
FailTask(w) ==
    LET a == lease[w].attempt
        t == a[1]
    IN
    /\ lease[w] # NoLease
    /\ lease' = [lease EXCEPT ![w] = NoLease]
    /\ \/ /\ ~SettlesTask(w)
          /\ UNCHANGED <<run, task, attempt>>
       \/ /\ SettlesTask(w)
          /\ task' = [task EXCEPT ![t].state = "failed",
                                  ![t].token = NoToken]
          /\ attempt' = [attempt EXCEPT ![a] = [Unleased(@) EXCEPT
                                                  !.state = "failed"]]
          /\ run' = [run EXCEPT ![t[1]].state = "failed"]
    /\ UNCHANGED <<clock, bounds>>

\* The process dies, or returns without settling its lease: the TaskLease
\* object is gone, the rows keep the token until it expires.
LoseProcess(w) ==
    /\ lease[w] # NoLease
    /\ lease' = [lease EXCEPT ![w] = NoLease]
    /\ UNCHANGED <<run, task, attempt, clock, bounds>>

Next ==
    \/ \E r \in Runs : SubmitRun(r) \/ CancelRun(r)
    \/ \E t \in Tasks : RetryTask(t)
    \/ \E w \in Workers :
          \/ \E E \in SUBSET RecordedTokens : ClaimTask(w, E)
          \/ MarkSubmitting(w)
          \/ \E h \in Handles, s \in TargetStates : RecordSubmission(w, h, s)
          \/ \E s \in TargetStates : RecordTargetStatus(w, s)
          \/ ReleaseLease(w)
          \/ MarkAttemptCanceled(w)
          \/ CompleteTask(w)
          \/ FailTask(w)
          \/ LoseProcess(w)

Spec == Init /\ [][Next]_vars
-----------------------------------------------------------------------------
(* Properties. *)

\* Type correctness of the four tables and of the leases in memory.
TypeOK ==
    /\ run \in [Runs -> RunRow]
    /\ task \in [Tasks -> TaskRow]
    /\ attempt \in [AttemptIds -> AttemptRow]
    /\ lease \in [Workers -> Lease \cup {NoLease}]
    /\ clock \in Nat /\ cancels \in Nat /\ retries \in Nat

\* However leases expire, are recovered and are used late, at most one
\* process can settle a task at any time: _complete and _fail accept one
\* token, and no two processes know the same one.
ExclusiveSettlement ==
    \A v, w \in Workers :
        /\ lease[v] # NoLease /\ lease[w] # NoLease /\ v # w
        /\ lease[v].attempt[1] = lease[w].attempt[1]
        => ~(SettlesTask(v) /\ SettlesTask(w))

\* A running task is being worked on: its latest attempt is not settled, even
\* when the lease on the task row was taken over by the recovery of an older
\* attempt that a retry had left behind.
RunningTaskIsLive ==
    \A t \in Tasks :
        task[t].state = "running" =>
            task[t].attempt > 0 /\ attempt[Current(t)].state \in LiveStates

\* Nothing of a canceled run is ready or running, so no claim_task starts a
\* task of it and no complete_task is accepted for it (the reset of expired
\* leases makes tasks pending again, but not those of a canceled run).
CanceledRunIsQuiet ==
    \A t \in Tasks :
        run[t[1]].state = "canceled" =>
            task[t].state \notin {"pending", "running"}

\* The outputs of a succeeded task are the artifacts of one attempt of that
\* task, and that attempt is on record as succeeded.
ResultsAreCredited ==
    \A t \in Tasks :
        task[t].state = "succeeded" =>
            /\ task[t].outputs \in 1 .. task[t].attempt
            /\ attempt[<<t, task[t].outputs>>].state = "succeeded"

\* The outputs a succeeded run publishes stay the outputs of its tasks: no
\* late completion replaces the result of a task behind a finished run.
PublishedOutputs ==
    \A r \in Runs :
        run[r].state = "succeeded" =>
            /\ \A t \in TasksOf(r) : task[t].state # "running"
            /\ \A n \in OutputNodes :
                  run[r].outputs[n] = task[<<r, n>>].outputs

\* docs/worker.md:54: expired leases are recovered without rewriting prior
\* attempt history.  A settled attempt never changes again.
HistoryKept ==
    [][\A a \in AttemptIds :
          attempt[a].state \in SettledStates => attempt'[a] = attempt[a]]_vars

\* Without retries a task has one attempt at a time, the latest, and the task
\* row is a projection of it (docs/architecture.md:233).  A canceled task may
\* still have an attempt at the target, waiting for its cancellation.
TaskProjectsAttempt ==
    MaxRetries = 0 =>
      \A t \in Tasks :
        /\ \A k \in Numbers :
              k < task[t].attempt => attempt[<<t, k>>].state = "abandoned"
        /\ task[t].attempt > 0 =>
             LET s == attempt[Current(t)].state IN
             CASE task[t].state = "pending" -> s = "abandoned"
               [] task[t].state = "running" ->
                    s \in LiveStates \ {"cancel_requested"}
               [] task[t].state = "canceled" ->
                    s \notin {"none", "succeeded", "failed"}
               [] OTHER -> s = task[t].state

\* docs/architecture.md:233: Task is the workflow node's current projection.
\* The tasks of a run that succeeded are succeeded; nothing revokes a result
\* behind a finished run.
SucceededRunIsComplete ==
    \A t \in Tasks :
        run[t[1]].state = "succeeded" => task[t].state = "succeeded"

\* Without retries a task that has started had all its parents succeed, and
\* they stay succeeded: nothing revokes a result that a child has consumed.
ParentsFirst ==
    MaxRetries = 0 =>
      \A t \in Tasks :
        task[t].attempt > 0 =>
          \A p \in Parents[t[2]] : task[<<t[1], p>>].state = "succeeded"
=============================================================================
