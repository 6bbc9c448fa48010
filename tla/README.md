# A TLA+ model of the QHPC ecosystem

This directory holds TLA+ specifications of the QHPC ecosystem (paths below are
relative to the repository root), the TLC configurations that check them on
small instances, and proofs checked by TLAPS. `PROJECT.json` lists components,
runs, the source lines of every definition, hazards and theorems in
machine-readable form.

    tlc -workers 2 -config EngineRetry.cfg MCWorkflowEngine.tla
    tlapm WorkflowEngineProofs.tla
    tlapm PilotStoreProofs.tla

The other `MC` modules and `*Proofs` modules are called in the same way.

## 1. The system

The ecosystem runs scientific workflows: users compose a workflow, submit runs
of it, and worker processes execute the tasks locally or through Slurm on an
HPC site.

| Component (`src/qhpc_ecosystem/`) | State | Operations | Hard parts |
| --- | --- | --- | --- |
| `engine.py`, runs and tasks | SQLite tables `runs`, `tasks`, `task_attempts`, `execution_events` | submit, claim (with the reset of expired leases), mark submitting, record submission and status, release, complete, fail, cancel, retry | leases that expire under live workers, recovery of attempts, retries next to old attempts, late calls |
| `worker.py`, `AsyncWorker` | local variables of `run_once`, a lease object | one bounded transition per call: claim, submit or poll, record, collect, settle or release | crashes between two calls, stale leases, cancellation |
| `slurm_runner.py`, `slurm.py` | staging directory and receipt per attempt; the scheduler's jobs | submit (receipt, job name, `sbatch`), poll, collect, cancel, finalize | crash between `sbatch` and the receipt, cleanup |
| `engine.py`, drafts and versions | `workflow_versions`, `workflow_drafts` | create, update and delete at a revision, validate, publish, register | a call is several transactions: publication reads the draft twice, an update answers with a later read |
| `engine.py`, worker registry; `api.py` admission | `workers` | register, heartbeat, readiness, submit when ready | readiness is stale when the run is queued |
| `pilot.py` | `pilot_allocations`, `pilot_reservations` | request, assign, ready, heartbeat, reserve, release, drain, reconcile, terminate | capacity through expiry and drain |
| `repository_updates.py` with the update view of `workbench/app.js` | a state file, cached checkouts; data and flags of each page | check, stage, discard, list; load, refresh, leave | git commands outside the lock, pushes and upgrades in between, stale pages |
| `security.py` | audit log file | append, verify | append without a lock |
| `chatqec_service.py`, `service_adapters.py` | a pinned source tree, service streams | prepare, verify; parse a stream | partial downloads |
| `dev_stack.py`, `slurm_test_cluster.py` | child processes, containers | start, watch, stop | start-up and shutdown order |
| `workflow.py`, `contract.py` | none | resolve, order nodes, validate | algorithms |
| `workbench/frontend/src/`, the composer | the open document, its draft and revision, save state, list of drafts, flows that wait; graph, undo history | edit, save, autosave, validate, publish, delete, switch documents; connect, rename, expose, undo, redo | continuations of awaits meet another document or newer edits; graph edits that are not validated |
| `api.py`, `cli.py`, `src/qhpc_workbench/` | none of their own | requests, commands | - |
| `knowledge.py`, `catalog.py`, `registry.py`, `assistant.py`, `integration.py`, `sync.py` | files | document processing | - |
| local runtimes and adapters | subprocesses | run an operation, check its outputs | sequential |

Workers meet only in the database, in the staging directories and at the
scheduler. Every public engine operation is one SQLite transaction
(`BEGIN IMMEDIATE`), so transactions interleave but do not overlap. A worker
makes several transactions and scheduler calls for one transition, and every
gap between two of them is a place where its lease may expire, the run may be
canceled or retried, the job may end or the process may die. Browsers meet in the
service: its HTTP server runs each request in a thread of its own, the draft
operations are several transactions each, and the update service lets go of its
lock while git works. In a page, one callback runs at a time, and everything
else may happen between the two sides of an `await`.

What makes the modelled parts correct:

- runs, tasks and attempts: one settlement per task at a time, results credited
  to the attempt that produced them, settled attempts never rewritten, parents
  before children, nothing of a canceled run claimable, running tasks always
  recoverable, published outputs equal to the outputs of the tasks;
- target workers: one job per attempt, recorded handles are the attempt's own
  jobs, a success stands for a job that succeeded, a failure for a job that did
  not, runs and attempts end, cancellations are carried out;
- pilots: capacity counted exactly and never exceeded, no pilot ended under a
  task, one reservation per attempt, no pilot revived, no task placed on an
  expired allocation, no eligible task turned away without reason, every ready
  pilot retired in the end;
- drafts and versions: of the updates that name one revision one is written, no
  deleted draft comes back, a version is valid and written once;
- the composer: no save removes what another has saved, "saved" and "published" are
  said only of what is stored, every save and flow ends, the graph stays valid, a
  canvas without issues is saved as what it is, undo and redo walk one timeline;
- repository updates: what is prepared has a checkout of exactly that commit, only
  a current commit is prepared, pages do not lock up.

## 2. Modules

| Module | Models |
| --- | --- |
| `WorkflowEngine` | the orchestration database: one action per operation, arbitrary clients |
| `AsyncWorkers` | `AsyncWorker.run_once` with the Slurm runner, composed with the database, the scheduler and users |
| `PilotStore` | the warm-pilot store and the agents, operators and dispatchers that call it |
| `DraftService` | what drafts and versions promise: registers with a revision, registers written once (abstract) |
| `WorkflowDrafts` | the draft operations as transactions of concurrent API calls; implements `DraftService` |
| `Composer` | composers in browsers on top of `WorkflowDrafts` |
| `UndoTimeline` | what undo and redo promise: a line of versions with the one that is shown (abstract) |
| `ComposerGraph` | the canvas, its edits, its conversion and the server's resolution; implements `UndoTimeline` |
| `RepositoryUpdates` | the update service and the pages that call it |
| `MC...` | small instances for TLC, one for each of the modules that runs check |
| `WorkflowEngineProofs`, `TaskProjectionProofs`, `AsyncWorkersProofs`, `PilotStoreProofs`, `WorkflowDraftsProofs`, `ComposerProofs`, `ComposerGraphProofs`, `RepositoryUpdatesProofs` | theorems |

### WorkflowEngine

`run`, `task` and `attempt` are the tables; a run is named by its creation rank,
a task by run and node, an attempt by task and number. `lease[w]` is the
`TaskLease` object in the memory of process `w`. An operation that raises rolls
back, so here it is just not enabled; `AsyncWorkers` says what its caller does.
A process with a lease object may call any operation with it, in any order and
however old it is, so the module covers `Worker`, `AsyncWorker` and
`run_once` alike.

`claim_task` is the action `ClaimTask(w, E)`: the leases with the tokens `E` have
expired and are reset, then the first recoverable attempt is granted
(`ClaimRecovered`), else the first ready task is started (`ClaimReady`), else only
the reset is committed (`ClaimNothing`). Expiry times are not stored: durations
differ and `renew_lease` extends them, so any set of recorded leases may have
expired at a claim. `renew_lease`, `record_stage` and `record_reported_stages`
change nothing the module keeps. The outputs of a task are the number of the
attempt that produced them.

An operator whose comment starts with "Variant" is a faulty version of the
operator below it. No specification uses one; substituting it must make the
property named in `PROJECT.json` fail, which shows that the property notices
that fault.

### AsyncWorkers

`pc[w]` is the next call of process `w` inside `run_once`, `handle[w]` and
`status[w]` its local variables. One step is one engine transaction or one call
of scheduler or storage. `receipt[a]` is the handle in the submission receipt
of attempt `a`, and `job[h]` the name and state of scheduler job `h`. A stale lease
raises inside the `try` block, which leads to `_fail`; `task_request` is called
before the `try` block and an exception there ends the process.

The scheduler is outside the repository. Assumed of it: `sbatch` returns a new
id and the job is visible at once; `squeue` and `sacct` by name together find
every job of that name; a job runs and then ends as succeeded, failed or canceled;
`scancel` ends an active job. `SubmitsJob` needs an unused handle, which bounds
the number of jobs.

`AsyncSpec` implements the engine specification: `Spec` is checked as a property
of it in the run `AsyncExpiry` and proved. So what is proved of the engine holds with
these workers.

### PilotStore

`pilot` and `reservation` are the tables of `pilot.py`; a row takes its id,
version, digest and target from the profile document that it was requested with.
`decision[a]` is the answer of `reserve` that the dispatcher of attempt `a` acts
on, and `beating[p]` a heartbeat between its check of the state and its `UPDATE`,
which do not share a transaction. All other operations are one action each.

`reserve` is three actions: `RefuseIneligible` (the policy does not admit the
task), `FallBack` (no candidate; the answer `batch-hpc` commits what `_reconcile`
did, the exception rolls it back) and `Reserve`. When the insert hits
`pilot_active_attempt_index` everything is rolled back and the dispatcher gets
an error; `MayReserve` is the guard for that.

Time is counted in ticks of `1 / TicksPerSecond` seconds. An operation reads the
clock before its transaction and may wait for the database, so it works with any
time of `Recent`, at most `LockWait` ticks old. SQL compares times as text; since
`isoformat` leaves out a zero fraction, a whole second sorts after every fraction
of it, which `TextRank` models. With `TicksPerSecond = 1` the two orders agree.

The dispatcher does not exist yet (`docs/hpc-execution.md:186`): it is modelled
as a client that asks, holds a reservation while its task runs, releases it, may
die and may ask again for the same attempt.

### WorkflowDrafts and DraftService

`draft` and `version` are the tables and `call[x]` is the request of client `x`, with
the stage that the server's thread has reached. Each stage is one transaction:
`update_workflow_draft` reads and compares (`ReadForUpdate`), writes where the
revision is still the same (`WriteUpdate`) and reads the row again for its answer
(`ReadBack`); `publish_workflow_draft` validates (`CheckForPublish`), reads the draft
again (`ReadAgain`) and calls `register_workflow`, which looks for the version
(`LookUp`) and inserts it or not (`InsertOrIgnore`). A lost request or answer is an
error to the client. A content is the version it names and the set of edits it
was made with, so that a lost edit is a missing mark.

`DraftService` says the same in four atomic steps: `Create`, `Save`, `Remove`,
`Register`. `ServiceSpec` is its specification over the tables of `WorkflowDrafts`.
That a publication registers what was validated is not promised, since the second
read may find a later revision (`engine.py:824`); that what it registers is valid is,
because `register_workflow` resolves it again.

`OneCallAtATime` says whether the transactions of two calls interleave. The server
allows it; the runs of the composer need the answer (see Runs).

### Composer

`ui[c]` is the React state and the refs of one mount: the canvas, `draftRef` with
its revision (`ref`), `saveState` (`save`), `published`, the list of drafts, whether
`changeVersion` has moved since the snapshot of the last save (`touched`), and how
far `validateDraft` and `publishDraft` are (`flow`). `savePromise` is set exactly while
the slot `save` of `c` has a request; what would start a second save joins it. An
action is what the browser runs without interruption: a click up to the first
`await`, a timer, a continuation. Unmounting clears the screen; the promises go on.
An edit adds a fresh mark, whatever it does.

React Flow asks `isValidConnection` before it calls `onConnect`, so the error branch of
`onConnect` is not reached and is left out.

### ComposerGraph and UndoTimeline

`graph` is a set of nodes and edges; the id of a node is its kind, base name and
suffix. `ValidConnection`, `NoIssues`, `ToWorkflow` and `ToCanvas` are `validateConnection`,
`validateCanvas`, `canvasToWorkflow` (with `layoutFromCanvas`) and `workflowToCanvas`;
`Resolves` is what the server checks (`_validate_workflow` and `resolve_workflow`). Some
edits go through `replaceGraph`, which keeps 80 steps (`Commit`), others push to the
history themselves without a limit (`CommitUnlimited`).

`UndoTimeline` is a line of versions of which one is shown: an edit cuts what is after
it, a limit forgets the oldest. The mapping reads the line off `history`, the graph and
`future` reversed; while a node is dragged the graph before the drag counts.

### RepositoryUpdates

`checks` and `staged` are the state file, `checkout[c][r]` is the commit found in the
cached directory named `r`. Commits of a tracked ref are numbered in push order.
A request is a thread: `Query` asks a remote, `WriteChecks` and `WriteStaged` take the
lock and write, `Choose`, `Fetch` and `Place` are `stage` and `_prepare_checkout` between
them. `Upgrade` is a deployment that pins a prepared candidate and restarts the
service with the state file it finds. A page has the flags of
`state.repositoryUpdates` and at most one load and one other request; `Become` renders
it, and a page that is rendered without data loads.

## 3. Runs

Every run is expected to pass. The engine and worker runs have one workflow run (`NumRuns = 1`), two attempts per task and tokens
`1..7`, more than rows and processes can hold at once, so a fresh one exists
whenever it is needed. `CHECK_DEADLOCK FALSE` is set because users stop and the
system then rests.

| Run | Instance | What it shows |
| --- | --- | --- |
| `EngineRetry` | 1 task, 2 workers, 2 cancellations, 2 retries | no double settlement, results credited, history kept, canceled runs quiet, outputs consistent, for arbitrary clients |
| `EngineNoRetry` | chain of 2, workers serving different nodes, 1 cancellation | task rows project the latest attempt, parents come first, succeeded runs are complete |
| `AsyncCrash` | 1 task, 2 workers, 2 crashes, 1 cancellation, cleanup `never` | no duplicate job and no failure without a failed job in spite of crashes at any call |
| `AsyncExpiry` | 1 task, 2 workers, 1 retry, leases may expire at any time, cleanup `always` | handles and results belong to the right job; refinement of `Spec` |
| `AsyncLive` | 2 independent tasks, 1 worker, 1 cancellation, 1 crash, 1 failing call, cleanup `never`, fair | runs end, attempts are settled, a requested cancellation is carried out |
| `PilotSafety` | 1 pilot of either of 2 versions of a profile, 2 attempts, 2 reservations, 1 crash, half seconds, waits of 1 tick and a margin of 2 | capacity counted right, one reservation per attempt, no pilot ended under a task or revived, no task on an expired allocation |
| `PilotRetire` | 1 pilot with room for 1, 2 attempts, whole seconds, fair | ready pilots are drained and their termination requested; refusals are justified |
| `DraftCalls` | 1 draft, 1 version, 2 edits of which one is invalid, 2 clients that send anything, revisions below 4, 1 lost message | `ServiceSpec`: the tables are the registers of `DraftService` however the transactions of two calls interleave |
| `Composer` | 2 composers, 1 draft, 1 version, 2 edits, publications, 1 lost message, saves up to revision 2, patient users, uninterrupted calls | no update is lost; what is shown as saved or published is stored |
| `ComposerSettles` | 1 composer, 1 draft, 2 versions, 1 edit that the server rejects, validations and publications, impatient user, interleaved calls, fair | every save, autosave and flow ends, mounted or not |
| `ComposerGraph` | 2 operations, an empty workflow and a chain, 3 edits, undos or redos, 2 steps of limited history | graphs stay valid, canvases are saved as what they are, one timeline |
| `RepositoryUpdates` | 1 component, 2 pages, 3 commits, 3 requests, 1 failure or restart, any cache left by an earlier service, fair | candidates exact and fresh, pages settle |

Why the bounds are enough to see the interesting cases: two workers are needed
for a stale holder and its successor; two attempts for a retry or an abandoned
attempt next to the next one; a second cancellation or retry for a canceled run
that is retried and canceled again; two nodes for parents, for a run that fails
because of another task and for the order of claims; three handles where a
second and a third submission are to be possible. With two crashes the process
that recovers may die as well. `EngineRetry` is the only run in which clients
are arbitrary and retries interleave with cancellations.

The pilot runs stop the clock after 5 to 10 ticks (`MaxClock`), and the profiles
have durations of 1 to 5 seconds, so that health, margin, idleness and lifetime
all run out within a run, in every order, with reservations held and given back.
Two reservations let two attempts share a pilot, one attempt reserve again after
a release, and two reservations name one attempt if the index did not forbid
it. Under the first version a pilot with two reservations is full, under the
second with one; each is reconciled with the durations of the other as well. Pilots
meet only in the choice of a candidate and in the index on attempts; one pilot is
checked, and the safety properties are proved for any number.

In `DraftCalls` two clients suffice for every race between two calls on a row, and a
third revision for an answer that is two writes late. In `Composer` one draft and
two composers give conflicts on a revision, a draft deleted under a composer,
stale lists of drafts, and lost answers after which a save was done all the same.
`MaxRevision` is not used by composers: `MaxSaves` bounds what users ask for, and
autosaves end because edits are fresh. In `ComposerGraph` the interesting mixes
(rename, then undo, then edit; expose twice; open what was saved) need at most three
steps; types, a required and an optional input, an operation without inputs and
a chain give every kind of issue. In `RepositoryUpdates` three commits allow a pinned,
an outdated and a current one; three requests over two pages allow two stages with a
check or discard in between; components meet only in a check, which writes each
separately, so one is checked and the safety properties are proved for any number.

Some runs hold because a constant excludes a case in which the code breaks the property.
Changing that constant shows the behaviour; each contradicts a statement of the
repository or what its interface says:

| Run, changed constant | Breaks | Behaviour |
| --- | --- | --- |
| `AsyncCrash`, `LeaseOutlivesStep = FALSE` | `NoDuplicateJob`; `docs/hpc-execution.md:28-30`, "preventing duplicate submission" | `run_once` never renews: a lease expires while its worker is in `submit`, and a second worker submits too (`worker.py:354`) |
| `AsyncCrash`, `MaxRetries = 1` | `NoDuplicateJob` | after a retry the expired lease of the old attempt resets the lease of the current one (`engine.py:1310`) |
| `AsyncCrash`, `Cleanup = "on-success"` | `FailureIsTheJobs`; `docs/hpc-execution.md:28`, "adopts an existing scheduler handle" | a crash between `finalize`, which removes the receipt, and `complete_task` fails a task whose job succeeded (`worker.py:326`) |
| `AsyncCrash`, `MaxRetries = 1`, with the invariant `SucceededRunIsComplete` | that invariant; `docs/architecture.md:233`, a task is the current projection | a late `mark_attempt_canceled` cancels the task of a succeeded run (`engine.py:2024`) |
| `AsyncLive`, with the property `CancellationSettles` | that property; `docs/hpc-execution.md:23`, "propagates cancellation" | `cancel_run` passes over an attempt in `submitting`; its job runs on (`engine.py:2317`) |
| `AsyncLive`, `Cleanup = "on-success"` | `CancelRequestsSettle` | a cancellation between `finalize` and `complete_task` is retried for ever, since the receipt that `cancel` checks is gone (`slurm_runner.py:653`) |
| `PilotRetire`, `TicksPerSecond = 2`, `MaxClock = 10` | `FallbackIsJustified`; `docs/architecture.md:142-144`, fall back when capacity is unavailable | times are compared as text: a healthy pilot is passed over at a whole second (`pilot.py:341`) |
| `PilotRetire`, `MaxCrashes = 1` | `PilotsRetire` | the reservation of a dead dispatcher is never given back (`pilot.py:518`) |
| `PilotSafety`, `LockWait = 3` | `NeverPlacedLate` | the clock is read before a wait that is longer than the margin (`pilot.py:323`) |
| `Composer`, `PatientUser = FALSE` | `NoLostUpdate` and `ShownIsStored`; `docs/contracts.md:37`, "A stale revision is rejected instead of silently overwriting newer state" | another document is opened while a save is in flight; its answer makes the old draft current again (`ComposerApp.tsx:1004`) and the next save writes the new canvas over it, at the right revision |
| `Composer`, `OneCallAtATime = FALSE` | `NoLostUpdate` and `ShownIsStored`; the same statement | the answer of an update is read later and may be the revision that another client has written (`engine.py:741`); the next save then overwrites it. A publication may register what was saved after its validation (`engine.py:824`) |

So the passing runs avoid exactly these conditions: `AsyncCrash` has no
expiry under a live process and no retry, and keeps staging directories;
`AsyncLive` keeps them too, and its attempts of a canceled run need to be settled
only once their cancellation is requested. `FailureIsTheJobs` is checked without failing
calls, since the code fails a task on any error of a call by design.
`FallbackIsJustified` is checked with whole seconds, `PilotsRetire` without
crashes, `NeverPlacedLate` with a wait no longer than the margin. `NoLostUpdate` and
`ShownIsStored` are checked for patient users, who wait for their requests before they
switch documents, for validations before they edit, and for a save of older
changes before they validate or publish, and for calls that do not interleave; two
browsers still race for revisions, and messages are lost. `Settles`, the types of
the composer and the service underneath are checked or proved without either
assumption.

`CanvasIsSaved` leaves out one canvas: `onConnect` lets a workflow input feed two ports,
`validateCanvas` has no issue with it, and `canvasToWorkflow` keeps one connection
(`graph.ts:383`), so that the canvas that is opened again is another one; `NoFanOut` is the
condition. A stage that was under way when its component was discarded prepares it all the same
(`repository_updates.py:592`); what it prepares is exact and fresh.

### Fairness

`FairAsyncSpec` assumes weak fairness of each worker's next call (`run_forever`
keeps calling; a call that does not return is a crash, and another process takes
over), weak fairness of claiming (it claims at every poll interval), weak fairness
of every job's progress (the site runs its jobs), and strong fairness of claims
at a time when every lease left behind by a dead process has expired: leases
last a fixed number of seconds and claims never stop coming. Nothing is assumed
of users. Crashes and failing calls are bounded, which stands for faults that
are not repeated for ever. Liveness is checked without symmetry.

`FairSpec` of `PilotStore` assumes that time passes, that `reconcile` is called again
and again for every profile (an operator or a timer; `reserve` does it too, but
only when tasks come) and that a living dispatcher releases what it reserved,
since its task ends.

`FairSpec` of `Composer` assumes that a thread of the server runs its call to the end,
that a browser gets to an expired timer and to answers that are there. Nothing is
assumed of users, who may leave at any time, and a lost request is answered with an
error. `Spec` of `RepositoryUpdates` assumes the same of its threads, whose git commands have
timeouts, and of pages; failures are bounded, since a page that fails to load asks
again at once and would do so for ever while the service is down (`app.js:1258` calls
`renderRepositoryUpdates`, which loads, so that its error screen is never reached).

## 4. Proofs

### WorkflowEngine

`WorkflowEngineProofs` proves, for every workflow, set of workers, tokens and
bounds that satisfy `EngineAssumption`, with arbitrary cancellations and retries:

- `TypeCorrect`: `Spec => []TypeOK`
- `OneSettler`: `Spec => []ExclusiveSettlement`
- `RunningIsLive`: `Spec => []RunningTaskIsLive`
- `CanceledStaysQuiet`: `Spec => []CanceledRunIsQuiet`
- `ResultsCredited`: `Spec => []ResultsAreCredited`
- `OutputsStayPublished`: `Spec => []PublishedOutputs`
- `HistoryIsKept`: `Spec => HistoryKept`

They follow from one inductive invariant, `IInv`. Beyond the properties it says
that only live attempts carry a token (`OnlyLiveLeased`: the holder of a lease
that is still on its row works on a live attempt, so no holder can touch a settled
one), that attempt numbers are handed out in order (`NumberedInOrder`: the attempt
that a claim starts was not there before), and that no two processes know the
same token (`TokensApart`). It is stated over values of the three tables, `Rows(rn,
tsk, att)`, because `claim_task` has two halves: `ResetInv` shows that the tables
after the reset of expired leases satisfy it, and the grant is then a step from
those tables. `LiveRowInv`, `SettledRowInv`, `TaskTokenInv` and `StartedRowsInv`
state the four ways in which an operation changes rows; the lemma of each
operation applies them.

`EngineAssumption` says that counts are natural numbers, that a parent precedes
its children in topological order and that each null value is outside the set
it extends. TLC evaluates it in every run.

`TaskProjectionProofs` proves the three properties of the run `EngineNoRetry` under
the hypothesis `MaxRetries = 0`, still for every workflow and number of cancellations:

- `TaskIsProjection`: `Spec => []TaskProjectsAttempt`
- `ParentsStayDone`: `Spec => []ParentsFirst`
- `SucceededRunStaysComplete`: `Spec => []SucceededRunIsComplete`

The inductive invariant `PInv` adds to `IInv` that each task row is in line with
its attempts (`Line`): all but the latest were abandoned, the state of the task mirrors
that of the latest attempt, and a token on the task row is the one on that attempt.
The last part is what fails after a retry: a retry leaves a live attempt behind,
whose recovery writes its token on the row of a task that has moved on, and
whatever happens to the old attempt then happens to the task. So the hypothesis is
necessary; section 3 names the run that shows it. The clause on canceled tasks (a live
attempt below one only in a canceled run) keeps an expired lease from making a
canceled task pending again. A parent that succeeded stays so, because only the holder of
a live latest attempt, or an expiry that finds its token, changes its row.

### AsyncWorkers

`AsyncWorkersProofs` proves for any number of workers, jobs, crashes, failing
calls, cancellations and retries, with leases that may expire at any time and every storage
profile:

- `WorkersRefineEngine`: `AsyncSpec => Spec`
- `AsyncTypeCorrect`: `AsyncSpec => []AsyncTypeOK`
- `HandlesAreOwnJobs`: `AsyncSpec => []HandleIsOwnJob`
- `SuccessesHaveJobs`: `AsyncSpec => []SuccessHasJob`
- `HandlesAreKept`: `AsyncSpec => HandlesKept`

Their inductive invariant `AInv` joins `IInv` with the local variables of each process
(`Local`): the process is idle exactly when it holds no lease; a handle it knows
is that of a job of its attempt; a status it saw is that of an ended job, which does
not change any more; a lease of an attempt at the target carries the handle on
record, and one that is still good and has none is that of an attempt that has none,
so that `record_submission` never replaces a handle. `HandleIsOwnJob` says the same of handles on record and of receipts,
which is why the adoption of a receipt is as good as a submission. The step of a worker is then one action of `Next` or leaves the database
alone (`StepIsNext`).

With hypotheses on the constants:

- `NoDuplicateJobs`: `AsyncSpec => []NoDuplicateJob`, if `LeaseOutlivesStep` and `MaxRetries = 0`
- `FailuresAreTheJobs`: `AsyncSpec => []FailureIsTheJobs`, if besides `MaxErrors = 0` and
  `Cleanup = "never"`

`DInv` adds to `PInv` and `AInv` that a process between `mark_submitting` and
`record_submission` holds its lease, and that no job has the name of its attempt when
it calls `sbatch` (`Sole`). It needs `PInv`: the lease of a process that runs on must not be
reset through the task row because of an older attempt, which is what a retry makes
possible. `FInv` adds that what is on record has a receipt (`Receipted`) and that a
process about to call `fail_task` with a lease that would be accepted has seen
its job end badly (`Justified`); the ways into `_fail` through a stale lease
are harmless because `fail_task` refuses the same lease. Each hypothesis excludes a
behaviour of the code, listed in section 3 with the run that shows it: expiry under a
live process, the recovery of an attempt that a retry left behind, the removal of
the receipt before `complete_task`, and an error of a call while the job runs on.

### PilotStore

`PilotStoreProofs` proves, for all pilots, attempts, profiles and bounds that
satisfy `PilotAssumption` (finitely many reservations, natural durations):

- `PilotTypeCorrect`: `Spec => []PilotTypeOK`
- `CapacityIsKept`: `Spec => []CapacityHolds`
- `TasksStayPlaced`: `Spec => []PlacedOnLivePilot`
- `AttemptReservesOnce`: `Spec => []OneReservationPerAttempt`
- `PilotsMoveForward`: `Spec => LifecycleForward`
- `PlacedInTime`: `Spec => NeverPlacedLate`, if `LockWait` is at most every margin
- `RefusalsAreJustified`: `Spec => FallbackIsJustified`, if `TicksPerSecond = 1`

The conjunction `PilotInv` of the four invariants is inductive. None is inductive
alone: `_reconcile` and `mark_terminated` look at the counter and not at the
reservations, so that no pilot ends under a task needs the counter to be exact,
and the counter of a new row is zero because nothing is placed on a row that is
not there. `QuietStep` deals with all operations but `reserve` and `release` at
once: they leave the reservations alone and change rows as `RowMoves` says.
`PlacedInTime` rests on `CandidateRow`: a candidate survived `_reconcile` in
the same transaction, which compares times by value, so the order of texts is
not needed. `RefusalsAreJustified` goes the other way and needs it: with whole seconds the
order of the texts is that of the times (`TextOrder`), hence a pilot that is suitable at the
time `reserve` read survives `_reconcile` and is selected by the query
(`SuitableIsCandidate`). With fractions of a second the statement is false (section 3).

### WorkflowDrafts and Composer

`WorkflowDraftsProofs` proves, for any number of drafts, versions, edits and clients under
`DraftAssumption` and `NullAssumption`:

- `DraftsTypeCorrect`: `DSpec => []DraftsTypeOK`
- `DraftsImplementService`: `DSpec => ServiceSpec`

`DraftsTypeOK` is inductive; it says besides the types what a call has read at its
stage, and that a call that has looked for its version holds valid content.
`Moves` says how a transaction changes the call of one client; the
implementation is one case per transaction, of which `WriteUpdate` is a `Save` because
its condition names the revision it replaces, and the others stutter or are one
abstract step.

`ComposerProofs` extends it and proves, with `ComposerAssumption` and `NoRefAssumption`:

- `ComposerTypeCorrect`: `Spec => []ComposerTypeOK`
- `ComposersSeeService`: `Spec => ServiceSpec`

The invariant `ComposerInv` adds the operation of each request to `ComposerTypeOK`
(`Linked`): that a publication ends with a version needs its request to be one to
publish, which follows from the stage of the flow. Both hold for impatient users
and interleaved calls.

Under the hypotheses `PatientUser` and `OneCallAtATime`, for any composers, drafts,
versions, edits, flows and number of lost messages, it also proves:

- `PatientInvariance`: `Spec => []PatientInv`
- `ShownStaysStored`: `Spec => []ShownIsStored`
- `NoUpdateIsLost`: `Spec => NoLostUpdate`

`NoLostUpdate` is about one write, and why the content that it writes has all edits
of the row it replaces goes back to where the content came from. `PatientInv` follows it. A
composer, a call and a listed row each claim to know a draft at a revision; a claim is never
ahead of the draft, and one that is not behind it is true: a canvas
or an update `Covers` the row (has all its edits), what is shown as saved, listed or
answered `Matches` it (is the same). A claim that is behind needs nothing, since
`update_workflow_draft` refuses it. The other conjuncts say where the claims meet:

- `SaveOfCanvas`: a save in flight is of what the canvas was, and of what it is unless it
  has been `touched`; so its answer may be put beside the canvas (`ComposerApp.tsx:1004`);
- `FlowOfCanvas`: a flow past its save is about the canvas, which waits for it;
- `DeleteOfOpened`: a deletion in flight is of the draft that is open, and no answer of a
  save makes it current again;
- `SaveFits` and `CheckFits`: what each call of the service has established at its stage.

`RowsStep` lists what a transaction may do to a row, `ClaimsKept` shows that each claim
survives it, and `CallMoves`, `SaveMoves` and `CheckMoves` follow the call itself. `StepFits`
reduces a step of one composer to its own canvas, and there is one case for each of its
actions. Both hypotheses are needed: section 3 tells what breaks without either.

### ComposerGraph

`ComposerGraphProofs` proves, for any operations, history limit and number of edits:

- `UndoIsATimeline`: `Spec => TimelineSpec`, for any documents
- `GraphInvariance`: `Spec => []GraphInv`, if `SoundDocuments`
- `GraphStaysOK`: `Spec => []GraphOK`, if `SoundDocuments`
- `CanvasStaysSaved`: `Spec => []CanvasIsSaved`, if `SoundDocuments`

The versions of `UndoTimeline` are a `Line`: the history, the version that is shown (of
a drag, the one before it) and the future from its top. `EditOfLine`, `ForgetOfLine` and
`MoveOnLine` say what pushing, pushing with a limit and moving the last element
from one stack to the other do to a line, element by element. The invariant,
`Stacks`, says only that the two stacks are sequences over some set; it is stated with
an existential quantifier, so that what a graph looks like plays no part and an
edit may commit any graph (`Commits`).

`GraphInv` says that the graph on the screen, the one before a drag and all graphs on
the two stacks are `Sound`: nodes have their shapes and unique ids, connections join an
output to an input of the same type, no port is the target of two, and operations
have no cycle. `GraphOK` alone is not inductive, since undo and redo bring back graphs
that it does not speak about. That there is no cycle is stated by sets: for each
connection between operations there is a set that contains its target and not its source
and that no connection leads out of. `PathOrSet` shows that this is what the search of
`validateConnection` decides; a set can be carried through an edit where a path
would have to be taken apart. Deletions are subgraphs (`SubgraphSound`), a
connection is added where there is no way back (`WithEdge`), renaming and retyping a boundary
keep its connections valid (`RenamedSound`, `WithChanged`), a new id is free (`FreeId`), and
what is saved opens as a subgraph of the canvas (`SavedAndOpened`). For
`CanvasStaysSaved` nothing is dropped from a canvas without issues (`SavedIsSame`), and
`resolve_workflow` finds the ports, the types and the required inputs it looks for
(`SavedResolves`); its order exists because of finitely many operations one
is the target of no connection from the others: else there were no least set among
the non-empty ones that no connection enters (`AcyclicHasSource`).

`SoundDocuments` says that the documents open as sound graphs. What the composer saved
does: `SavedSound` is part of the proof, and the documents of the run `ComposerGraph`
satisfy it. The service accepts a little more. `resolve_workflow` refuses two
connections into a port (`workflow.py:163`) but adds the workflow inputs to the same
count afterwards without looking (`workflow.py:180`), so a workflow that was
registered by another client may feed a port by a connection and by a workflow
input. It opens as a canvas with two connections into that port; the theorems do
not speak about it.

### RepositoryUpdates

`RepositoryUpdatesProofs` proves, for any number of components, pages, commits,
failures and requests under `UpdatesAssumption` and `UpdatesNullAssumption`:

- `UpdatesTypeCorrect`: `Spec => []UpdatesTypeOK`
- `PreparedAreExact`: `Spec => []CandidatesAreExact`
- `PreparedAreFresh`: `Spec => StagedIsFresh`

`UpdatesInv` is inductive. It says that a cached directory holds the commit of its
name or nothing (`CacheIsExact`) and, for every request, what it has established
(`Established`): past the comparison its candidate is what the tracked ref was at
after the request was sent and is not pinned, and when prepared has a checkout.
`EstablishedLater` shows that a push, another request or a page cannot undo that; an
upgrade could, since it changes the pin, but it ends the requests. Listings in
flight and on pages are exact for the same reason (`ExactLater`): nothing is removed
from the cache.

### What is not proved

Every invariant and action property of the runs is a theorem, under the hypotheses that are
named with it; where a hypothesis is dropped, section 3 shows a counterexample or
the reason. Only model-checked are the liveness properties: `Settles`, `PilotsRetire`,
`RunsEnd`, `AttemptsSettle`, `CancelRequestsSettle` and `PageSettles`, whose fairness
and `ENABLED` are out of reach of TLAPS.

## 5. Not modelled

- The worker registry with readiness admission, the audit log, the ChatQEC source,
  the development supervisor: planned, see below.
- Of the workbench: the guided mode and the submission of runs, the knowledge
  explorer, the assistant, the views of runs and artifacts, themes. Their state is
  what is displayed. A submission whose answer is lost and that is repeated makes a
  second run (`ComposerApp.tsx:1259`), which no document excludes.
- `src/qhpc_workbench/static/qhpc_workbench/composer.js`, 37692 lines, is the bundle that is
  generated from `workbench/frontend/src/` and its libraries. The definitions name
  the sources and not the bundle, so most lines of JavaScript in the repository
  are named by none.
- In `Composer`: positions and the viewport apart from being edits; a second click on "Publish"
  while a publication waits; `queueRun`. In `ComposerGraph`: dragging several
  nodes, a document that is opened during a drag (the drag then ends in the
  history of the new one, `ComposerApp.tsx:1868`), the order of nodes and edges.
- In `RepositoryUpdates`: a change of URL or tracked ref in the configuration; a force
  push to an older commit; local changes in a cached checkout, which
  `_verify_checkout` refuses; the answer of a load that is older than what a check has
  put on the page since, which shows old data until the next refresh.
- `contract.py` apart from `_validate_workflow`: validation of documents, no state.
  `knowledge.py`, `catalog.py`, `registry.py`, `assistant.py`, `integration.py`, `sync.py`:
  document processing.
- `cli.py`, `api.py`: requests around the same operations. An arbitrary client of the
  engine stands for them.
- Staging, mounts, image verification, job rendering and telemetry of the Slurm
  runner: their failures are the failing calls of `AsyncWorkers`.
- Scheduler handles of pilots and the table `pilot_events`: nothing reads them back.
  The submission of pilots and their launcher are not in the repository.
- The event table: append-only in every transaction, and read by nobody to decide.

## 6. Plan

Done: `WorkflowEngine`, `AsyncWorkers`, `PilotStore`, `WorkflowDrafts`, `Composer`,
`ComposerGraph`, `RepositoryUpdates`, with the theorems of section 4. Next:

1. `Readiness`: worker registration, heartbeats and admission; `AuditLog`: append by
   several processes; `DevStack`: start-up and shutdown.
2. The composition of `Composer` with `WorkflowEngine`: queueing a run of what was
   published; of `PilotStore` with the attempts that would reserve and release.
3. `topological_nodes` against the definition of a topological order; the ChatQEC
   stream parser.
4. An abstract specification of a task's life (ready, taken, settled once per
   attempt) that `WorkflowEngine` implements.
