------------------------ MODULE WorkflowEngineProofs ------------------------
(***************************************************************************)
(* Proofs about WorkflowEngine: type correctness and the safety properties *)
(* that hold for every workflow, every set of workers and every bound,     *)
(* with arbitrary cancellations and retries.                               *)
(***************************************************************************)
EXTENDS WorkflowEngine, TLAPS

-----------------------------------------------------------------------------
(* The inductive invariant.  It is stated over values of the three tables, *)
(* so that it can also be said of the tables between the two halves of     *)
(* claim_task: the reset of expired leases and the grant of a new one.     *)

RowTypes(rn, tsk, att) ==
    /\ rn \in [Runs -> RunRow]
    /\ tsk \in [Tasks -> TaskRow]
    /\ att \in [AttemptIds -> AttemptRow]

\* Only live attempts carry a token.
OnlyLiveLeased(att) ==
    \A a \in AttemptIds : att[a].token # NoToken => att[a].state \in LiveStates

\* A running task has a live attempt: its latest one.
RunningHasLive(tsk, att) ==
    \A t \in Tasks :
        tsk[t].state = "running" =>
            tsk[t].attempt > 0 /\ att[<<t, tsk[t].attempt>>].state \in LiveStates

\* A canceled run has no pending and no running task.
CanceledQuiet(rn, tsk) ==
    \A t \in Tasks :
        rn[t[1]].state = "canceled" => tsk[t].state \notin {"pending", "running"}

\* Attempt numbers are handed out in order.
NumberedInOrder(tsk, att) ==
    \A t \in Tasks, k \in Numbers :
        k > tsk[t].attempt => att[<<t, k>>].state = "none"

\* The outputs of a succeeded task come from a succeeded attempt.
Credited(tsk, att) ==
    \A t \in Tasks :
        tsk[t].state = "succeeded" =>
            /\ tsk[t].outputs \in 1 .. tsk[t].attempt
            /\ att[<<t, tsk[t].outputs>>].state = "succeeded"

\* The outputs of a succeeded run are those of its tasks.
Published(rn, tsk) ==
    \A r \in Runs :
        rn[r].state = "succeeded" =>
            /\ \A t \in TasksOf(r) : tsk[t].state # "running"
            /\ \A n \in OutputNodes : rn[r].outputs[n] = tsk[<<r, n>>].outputs

Rows(rn, tsk, att) ==
    /\ RowTypes(rn, tsk, att)
    /\ OnlyLiveLeased(att)
    /\ RunningHasLive(tsk, att)
    /\ CanceledQuiet(rn, tsk)
    /\ NumberedInOrder(tsk, att)
    /\ Credited(tsk, att)
    /\ Published(rn, tsk)

\* Two processes never hold the same token.
TokensApart ==
    \A v, w \in Workers :
        v # w /\ lease[v] # NoLease /\ lease[w] # NoLease
            => lease[v].token # lease[w].token

IInv ==
    /\ Rows(run, task, attempt)
    /\ lease \in [Workers -> Lease \cup {NoLease}]
    /\ clock \in Nat /\ cancels \in Nat /\ retries \in Nat
    /\ TokensApart

-----------------------------------------------------------------------------
(* Facts about constants and identifiers. *)

LEMMA ConstantFacts ==
    /\ MaxAttempts \in Nat /\ 0 \in 0 .. MaxAttempts
    /\ \A n \in OutputNodes : n \in Nodes
    /\ NoToken \notin Tokens /\ NoHandle \notin Handles
  BY EngineAssumption

LEMMA AttemptIdFacts ==
    /\ \A t \in Tasks, k \in Numbers : <<t, k>> \in AttemptIds
    /\ \A a \in AttemptIds :
          a[1] \in Tasks /\ a[2] \in Numbers /\ a = <<a[1], a[2]>>
  BY DEF AttemptIds

LEMMA TaskFacts ==
    /\ \A r \in Runs, n \in Nodes : <<r, n>> \in Tasks
    /\ \A t \in Tasks : t[1] \in Runs /\ t[2] \in Nodes /\ t = <<t[1], t[2]>>
    /\ \A r \in Runs : \A t \in TasksOf(r) : t \in Tasks /\ t[1] = r
    /\ \A t \in Tasks, r \in Runs : t[1] = r => t \in TasksOf(r)
  BY DEF Tasks, TasksOf

\* The latest attempt of a task that has one is an attempt.
LEMMA CurrentIsAttempt ==
    ASSUME NEW t \in Tasks, task[t] \in TaskRow, task[t].attempt > 0
    PROVE  Current(t) \in AttemptIds
  BY AttemptIdFacts, EngineAssumption DEF Current, TaskRow, Numbers

-----------------------------------------------------------------------------
(* Initially. *)

LEMMA InitIInv == Init => IInv
  <1> SUFFICES ASSUME Init PROVE IInv
    OBVIOUS
  <1>1. RowTypes(run, task, attempt)
    BY EngineAssumption DEF Init, RowTypes, RunRow, TaskRow, AttemptRow,
       RunStates, TaskStates, NoOutputs, NoAttempt
  <1>2. lease \in [Workers -> Lease \cup {NoLease}] /\ TokensApart
    BY DEF Init, TokensApart
  <1>3. OnlyLiveLeased(attempt) /\ RunningHasLive(task, attempt)
    BY DEF Init, OnlyLiveLeased, RunningHasLive, NoAttempt
  <1>4. CanceledQuiet(run, task) /\ NumberedInOrder(task, attempt)
    BY AttemptIdFacts, TaskFacts
       DEF Init, CanceledQuiet, NumberedInOrder, NoAttempt
  <1>5. Credited(task, attempt) /\ Published(run, task)
    BY DEF Init, Credited, Published
  <1> QED
    BY <1>1, <1>2, <1>3, <1>4, <1>5 DEF Init, IInv, Rows
-----------------------------------------------------------------------------
(* The requests of users preserve the invariant. *)

LEMMA SubmitRunInv ==
    ASSUME IInv, NEW r \in Runs, SubmitRun(r)
    PROVE  IInv'
  <1> USE TaskFacts, AttemptIdFacts
  <1>a. run \in [Runs -> RunRow] /\ task \in [Tasks -> TaskRow]
    BY DEF IInv, Rows, RowTypes
  <1>1. RowTypes(run', task', attempt')
    <2>1. run' \in [Runs -> RunRow]
      BY <1>a DEF SubmitRun, RunRow, RunStates
    <2>2. task' \in [Tasks -> TaskRow]
      BY <1>a, SMTT(30) DEF SubmitRun, TaskRow, TaskStates
    <2> QED
      BY <2>1, <2>2 DEF IInv, Rows, RowTypes, SubmitRun
  <1>2. OnlyLiveLeased(attempt')
    BY DEF IInv, Rows, OnlyLiveLeased, SubmitRun
  <1>3. RunningHasLive(task', attempt') /\ CanceledQuiet(run', task')
    BY DEF IInv, Rows, RowTypes, TaskRow, RunRow, RunningHasLive,
       CanceledQuiet, SubmitRun
  <1>4. NumberedInOrder(task', attempt')
    BY DEF IInv, Rows, RowTypes, TaskRow, NumberedInOrder, SubmitRun
  <1>5. Credited(task', attempt')
    BY DEF IInv, Rows, RowTypes, TaskRow, Credited, SubmitRun
  <1>6. Published(run', task')
    <2> SUFFICES ASSUME NEW q \in Runs, run'[q].state = "succeeded"
                 PROVE  /\ \A t \in TasksOf(q) : task'[t].state # "running"
                        /\ \A n \in OutputNodes :
                              run'[q].outputs[n] = task'[<<q, n>>].outputs
      BY DEF Published
    <2>1. q # r /\ run'[q] = run[q]
      BY DEF IInv, Rows, RowTypes, RunRow, SubmitRun
    <2>2. \A t \in TasksOf(q) : task'[t] = task[t]
      BY <2>1 DEF SubmitRun
    <2>3. \A n \in OutputNodes : <<q, n>> \in TasksOf(q)
      BY ConstantFacts DEF TasksOf
    <2> QED
      BY <2>1, <2>2, <2>3 DEF IInv, Rows, Published
  <1> QED
    BY <1>1, <1>2, <1>3, <1>4, <1>5, <1>6
       DEF IInv, Rows, SubmitRun, TokensApart, bounds

\* cancel_run leaves settled attempts alone and keeps live attempts live.
LEMMA CanceledAttemptFacts ==
    ASSUME NEW row \in AttemptRow
    PROVE  /\ CanceledAttempt(row) \in AttemptRow
           /\ row.state \notin LiveStates => CanceledAttempt(row) = row
           /\ row.state \in LiveStates =>
                 CanceledAttempt(row).state \in LiveStates
           /\ CanceledAttempt(row).token \in {NoToken, row.token}
  BY DEF AttemptRow, CanceledAttempt, Unleased, CancelableStates, LiveStates,
     SettledStates

LEMMA CancelRunInv ==
    ASSUME IInv, NEW r \in Runs, CancelRun(r)
    PROVE  IInv'
  <1> USE TaskFacts, AttemptIdFacts
  <1>a. /\ run \in [Runs -> RunRow] /\ task \in [Tasks -> TaskRow]
        /\ attempt \in [AttemptIds -> AttemptRow]
    BY DEF IInv, Rows, RowTypes
  <1>b. \A a \in AttemptIds :
           attempt'[a] = attempt[a] \/ attempt'[a] = CanceledAttempt(attempt[a])
    BY DEF CancelRun
  <1>c. \A a \in AttemptIds :
           /\ attempt'[a] \in AttemptRow
           /\ attempt[a].state \notin LiveStates => attempt'[a] = attempt[a]
           /\ attempt[a].state \in LiveStates =>
                 attempt'[a].state \in LiveStates
           /\ attempt'[a].token \in {NoToken, attempt[a].token}
    BY <1>a, <1>b, CanceledAttemptFacts
  <1>d. \A t \in Tasks :
           /\ task'[t] \in TaskRow
           /\ task'[t].attempt = task[t].attempt
           /\ task'[t].outputs = task[t].outputs
           /\ task'[t].state \in {task[t].state, "canceled"}
           /\ task'[t].state = "succeeded" => task[t].state = "succeeded"
           /\ t[1] = r => task'[t].state \notin {"pending", "running"}
    <2> TAKE t \in Tasks
    <2>1. task[t] \in TaskRow
      BY <1>a
    <2>2. task'[t] = IF t[1] = r /\ task[t].state \in {"pending", "running"}
                     THEN [task[t] EXCEPT !.state = "canceled",
                                          !.token = NoToken]
                     ELSE task[t]
      BY DEF CancelRun
    <2> QED
      BY <2>1, <2>2 DEF TaskRow, TaskStates
  <1>e. /\ run' \in [Runs -> RunRow]
        /\ \A q \in Runs : q # r => run'[q] = run[q]
        /\ run'[r].state = "canceled"
    <2>1. run' = [run EXCEPT ![r].state = "canceled"]
      BY DEF CancelRun
    <2> QED
      BY <1>a, <2>1 DEF RunRow, RunStates
  <1>1. RowTypes(run', task', attempt')
    <2>1. task' \in [Tasks -> TaskRow]
      BY <1>d DEF CancelRun
    <2>2. attempt' \in [AttemptIds -> AttemptRow]
      BY <1>c DEF CancelRun
    <2> QED
      BY <1>e, <2>1, <2>2 DEF RowTypes
  <1>2. OnlyLiveLeased(attempt')
    BY <1>c DEF IInv, Rows, OnlyLiveLeased
  <1>3. RunningHasLive(task', attempt')
    <2> SUFFICES ASSUME NEW t \in Tasks, task'[t].state = "running"
                 PROVE  /\ task'[t].attempt > 0
                        /\ attempt'[<<t, task'[t].attempt>>].state \in LiveStates
      BY DEF RunningHasLive
    <2>1. task[t].state = "running" /\ task'[t].attempt = task[t].attempt
      BY <1>d
    <2>2. task[t].attempt > 0 /\ attempt[Current(t)].state \in LiveStates
      BY <2>1 DEF IInv, Rows, RunningHasLive, Current
    <2>3. Current(t) \in AttemptIds
      BY <1>a, <2>2, CurrentIsAttempt
    <2> QED
      BY <1>c, <2>1, <2>2, <2>3 DEF Current
  <1>4. CanceledQuiet(run', task')
    BY <1>d, <1>e DEF IInv, Rows, CanceledQuiet
  <1>5. NumberedInOrder(task', attempt')
    BY <1>c, <1>d DEF IInv, Rows, NumberedInOrder, LiveStates
  <1>6. Credited(task', attempt')
    <2> SUFFICES ASSUME NEW t \in Tasks, task'[t].state = "succeeded"
                 PROVE  /\ task'[t].outputs \in 1 .. task'[t].attempt
                        /\ attempt'[<<t, task'[t].outputs>>].state = "succeeded"
      BY DEF Credited
    <2>1. /\ task[t].outputs \in 1 .. task[t].attempt
          /\ attempt[<<t, task[t].outputs>>].state = "succeeded"
      BY <1>d DEF IInv, Rows, Credited
    <2>2. <<t, task[t].outputs>> \in AttemptIds
      BY <1>a, <2>1, ConstantFacts DEF TaskRow, Numbers
    <2> QED
      BY <1>c, <1>d, <2>1, <2>2 DEF LiveStates
  <1>7. Published(run', task')
    <2> SUFFICES ASSUME NEW q \in Runs, run'[q].state = "succeeded"
                 PROVE  /\ \A t \in TasksOf(q) : task'[t].state # "running"
                        /\ \A n \in OutputNodes :
                              run'[q].outputs[n] = task'[<<q, n>>].outputs
      BY DEF Published
    <2>1. run'[q] = run[q] /\ run[q].state = "succeeded"
      BY <1>e
    <2>2. \A n \in OutputNodes : <<q, n>> \in Tasks
      BY ConstantFacts
    <2>3. \A t \in TasksOf(q) : task[t].state # "running"
      BY <2>1 DEF IInv, Rows, Published
    <2>4. \A n \in OutputNodes : run[q].outputs[n] = task[<<q, n>>].outputs
      BY <2>1 DEF IInv, Rows, Published
    <2>5. \A t \in TasksOf(q) : task'[t].state # "running"
      BY <1>d, <2>3
    <2> QED
      BY <1>d, <2>1, <2>2, <2>4, <2>5
  <1>8. lease' = lease /\ clock' \in Nat /\ cancels' \in Nat /\ retries' \in Nat
    <2>1. /\ lease' = lease /\ clock' = clock /\ retries' = retries
          /\ cancels' = cancels + 1
      BY DEF CancelRun
    <2>2. clock \in Nat /\ cancels \in Nat /\ retries \in Nat
      BY DEF IInv
    <2> QED
      BY <2>1, <2>2
  <1> QED
    BY <1>1, <1>2, <1>3, <1>4, <1>5, <1>6, <1>7, <1>8
       DEF IInv, Rows, TokensApart

LEMMA RetryTaskInv ==
    ASSUME IInv, NEW t \in Tasks, RetryTask(t)
    PROVE  IInv'
  <1> USE TaskFacts, AttemptIdFacts
  <1> DEFINE r == t[1]
  <1>a. /\ run \in [Runs -> RunRow] /\ task \in [Tasks -> TaskRow]
    BY DEF IInv, Rows, RowTypes
  <1>d. \A u \in Tasks :
           /\ task'[u] \in TaskRow
           /\ task'[u].attempt = task[u].attempt
           /\ task'[u].state # "pending" => task'[u] = task[u]
           /\ u[1] # r => task'[u] = task[u]
    <2> TAKE u \in Tasks
    <2>1. task[u] \in TaskRow
      BY <1>a
    <2>2. \/ u[1] = r /\ task'[u] = [task[u] EXCEPT !.state = "pending",
                                       !.token = NoToken, !.outputs = 0]
          \/ task'[u] = task[u]
      BY DEF RetryTask
    <2> QED
      BY <2>1, <2>2, ConstantFacts, ZenonT(30) DEF TaskRow, TaskStates
  <1>e. /\ run' \in [Runs -> RunRow]
        /\ \A q \in Runs : q # r => run'[q] = run[q]
        /\ run'[r].state = "queued"
    <2>1. r \in Runs /\ run' = [run EXCEPT ![r] = [state |-> "queued",
                                                  outputs |-> NoOutputs]]
      BY DEF RetryTask
    <2>2. [state |-> "queued", outputs |-> NoOutputs] \in RunRow
      BY ConstantFacts DEF RunRow, RunStates, NoOutputs
    <2> QED
      BY <1>a, <2>1, <2>2
  <1>1. RowTypes(run', task', attempt')
    <2>1. task' \in [Tasks -> TaskRow]
      BY <1>d DEF RetryTask
    <2> QED
      BY <1>e, <2>1 DEF IInv, Rows, RowTypes, RetryTask
  <1>2. OnlyLiveLeased(attempt') /\ attempt' = attempt
    BY DEF IInv, Rows, OnlyLiveLeased, RetryTask
  <1>3. RunningHasLive(task', attempt')
    BY <1>2, <1>d DEF IInv, Rows, RunningHasLive
  <1>4. CanceledQuiet(run', task')
    BY <1>d, <1>e DEF IInv, Rows, CanceledQuiet
  <1>5. NumberedInOrder(task', attempt')
    BY <1>2, <1>d DEF IInv, Rows, NumberedInOrder
  <1>6. Credited(task', attempt')
    BY <1>2, <1>d DEF IInv, Rows, Credited
  <1>7. Published(run', task')
    <2> SUFFICES ASSUME NEW q \in Runs, run'[q].state = "succeeded"
                 PROVE  /\ \A u \in TasksOf(q) : task'[u].state # "running"
                        /\ \A n \in OutputNodes :
                              run'[q].outputs[n] = task'[<<q, n>>].outputs
      BY DEF Published
    <2>1. q # r /\ run'[q] = run[q]
      BY <1>e
    <2>2. \A n \in OutputNodes : <<q, n>> \in TasksOf(q)
      BY ConstantFacts DEF TasksOf
    <2>3. \A u \in TasksOf(q) : task'[u] = task[u]
      BY <1>d, <2>1
    <2> QED
      BY <2>1, <2>2, <2>3 DEF IInv, Rows, Published
  <1>8. lease' = lease /\ clock' \in Nat /\ cancels' \in Nat /\ retries' \in Nat
    <2>1. /\ lease' = lease /\ clock' = clock /\ cancels' = cancels
          /\ retries' = retries + 1
      BY DEF RetryTask
    <2>2. clock \in Nat /\ cancels \in Nat /\ retries \in Nat
      BY DEF IInv
    <2> QED
      BY <2>1, <2>2
  <1> QED
    BY <1>1, <1>2, <1>3, <1>4, <1>5, <1>6, <1>7, <1>8
       DEF IInv, Rows, TokensApart

-----------------------------------------------------------------------------
(* Changes of single rows that keep the invariant of the tables.           *)

\* An attempt that is live, or not settled as succeeded, is not the one that
\* a succeeded task owes its outputs to.
LEMMA LiveIsNumbered ==
    ASSUME NEW rn, NEW tsk, NEW att, Rows(rn, tsk, att),
           NEW a \in AttemptIds, att[a].state \in LiveStates
    PROVE  a[2] \in 1 .. tsk[a[1]].attempt
  <1> USE AttemptIdFacts
  <1>1. /\ tsk[a[1]] \in TaskRow /\ a[1] \in Tasks /\ a[2] \in Numbers
        /\ att[<<a[1], a[2]>>].state # "none"
    BY DEF Rows, RowTypes, LiveStates
  <1>2. tsk[a[1]].attempt \in Nat
    BY <1>1 DEF TaskRow
  <1>3. ~(a[2] > tsk[a[1]].attempt)
    BY <1>1 DEF Rows, NumberedInOrder
  <1> QED
    BY <1>1, <1>2, <1>3, ConstantFacts DEF Numbers

\* A live attempt may move to another live state and change its lease.
LEMMA LiveRowInv ==
    ASSUME NEW rn, NEW tsk, NEW att, Rows(rn, tsk, att),
           NEW a \in AttemptIds, att[a].state \in LiveStates,
           NEW row \in AttemptRow, row.state \in LiveStates
    PROVE  Rows(rn, tsk, [att EXCEPT ![a] = row])
  <1> DEFINE new == [att EXCEPT ![a] = row]
  <1> USE AttemptIdFacts
  <1>0. att \in [AttemptIds -> AttemptRow] /\ tsk \in [Tasks -> TaskRow]
    BY DEF Rows, RowTypes
  <1>1. \A b \in AttemptIds : new[b] = IF b = a THEN row ELSE att[b]
    BY <1>0
  <1>2. new \in [AttemptIds -> AttemptRow]
    BY <1>0
  <1> HIDE DEF new
  <1>3. OnlyLiveLeased(new)
    BY <1>1 DEF Rows, OnlyLiveLeased
  <1>4. RunningHasLive(tsk, new)
    <2> SUFFICES ASSUME NEW t \in Tasks, tsk[t].state = "running"
                 PROVE  /\ tsk[t].attempt > 0
                        /\ new[<<t, tsk[t].attempt>>].state \in LiveStates
      BY DEF RunningHasLive
    <2>1. /\ tsk[t].attempt > 0
          /\ att[<<t, tsk[t].attempt>>].state \in LiveStates
      BY DEF Rows, RunningHasLive
    <2>2. <<t, tsk[t].attempt>> \in AttemptIds
      BY <1>0, <2>1, ConstantFacts DEF TaskRow, Numbers
    <2> QED
      BY <1>1, <2>1, <2>2
  <1>5. NumberedInOrder(tsk, new)
    <2> SUFFICES ASSUME NEW t \in Tasks, NEW k \in Numbers, k > tsk[t].attempt
                 PROVE  new[<<t, k>>].state = "none"
      BY DEF NumberedInOrder
    <2>1. att[<<t, k>>].state = "none" /\ <<t, k>> \in AttemptIds
      BY DEF Rows, NumberedInOrder
    <2> QED
      BY <1>1, <2>1 DEF LiveStates
  <1>6. Credited(tsk, new)
    <2> SUFFICES ASSUME NEW t \in Tasks, tsk[t].state = "succeeded"
                 PROVE  /\ tsk[t].outputs \in 1 .. tsk[t].attempt
                        /\ new[<<t, tsk[t].outputs>>].state = "succeeded"
      BY DEF Credited
    <2>1. /\ tsk[t].outputs \in 1 .. tsk[t].attempt
          /\ att[<<t, tsk[t].outputs>>].state = "succeeded"
      BY DEF Rows, Credited
    <2>2. <<t, tsk[t].outputs>> \in AttemptIds
      BY <1>0, <2>1, ConstantFacts DEF TaskRow, Numbers
    <2> QED
      BY <1>1, <2>1, <2>2 DEF LiveStates
  <1> QED
    BY <1>2, <1>3, <1>4, <1>5, <1>6 DEF Rows, RowTypes, new

\* The lease recorded in a task row is no part of the invariant.
LEMMA TaskTokenInv ==
    ASSUME NEW rn, NEW tsk, NEW att, Rows(rn, tsk, att),
           NEW t \in Tasks, NEW k \in Tokens \cup {NoToken}
    PROVE  Rows(rn, [tsk EXCEPT ![t].token = k], att)
  <1> DEFINE new == [tsk EXCEPT ![t].token = k]
  <1> USE AttemptIdFacts, TaskFacts
  <1>0. tsk \in [Tasks -> TaskRow]
    BY DEF Rows, RowTypes
  <1>1. new \in [Tasks -> TaskRow]
    BY <1>0 DEF TaskRow
  <1>2. \A u \in Tasks : /\ new[u].state = tsk[u].state
                         /\ new[u].attempt = tsk[u].attempt
                         /\ new[u].outputs = tsk[u].outputs
    BY <1>0 DEF TaskRow
  <1> HIDE DEF new
  <1>3. RunningHasLive(new, att) /\ CanceledQuiet(rn, new)
    BY <1>2 DEF Rows, RunningHasLive, CanceledQuiet
  <1>4. NumberedInOrder(new, att) /\ Credited(new, att)
    BY <1>2 DEF Rows, NumberedInOrder, Credited
  <1>5. Published(rn, new)
    BY <1>2, ConstantFacts DEF Rows, Published
  <1> QED
    BY <1>1, <1>3, <1>4, <1>5 DEF Rows, RowTypes, new

\* A live attempt may be settled when its task is settled with it: as
\* canceled or failed, or as succeeded with the attempt's outputs.
LEMMA SettledRowInv ==
    ASSUME NEW rn, NEW tsk, NEW att, Rows(rn, tsk, att),
           NEW a \in AttemptIds, att[a].state \in LiveStates,
           NEW arow \in AttemptRow, arow.token = NoToken,
           NEW trow \in TaskRow, trow.attempt = tsk[a[1]].attempt,
           \/ /\ trow.state \in {"canceled", "failed"}
              /\ trow.outputs = tsk[a[1]].outputs
              /\ arow.state = trow.state
           \/ /\ trow.state = "succeeded" /\ trow.outputs = a[2]
              /\ arow.state = "succeeded"
    PROVE  LET ntsk == [tsk EXCEPT ![a[1]] = trow]
               natt == [att EXCEPT ![a] = arow]
           IN  /\ RowTypes(rn, ntsk, natt) /\ OnlyLiveLeased(natt)
               /\ RunningHasLive(ntsk, natt) /\ CanceledQuiet(rn, ntsk)
               /\ NumberedInOrder(ntsk, natt) /\ Credited(ntsk, natt)
  <1> DEFINE t == a[1]
             ntsk == [tsk EXCEPT ![t] = trow]
             natt == [att EXCEPT ![a] = arow]
  <1> USE AttemptIdFacts, TaskFacts
  <1>0. /\ att \in [AttemptIds -> AttemptRow] /\ tsk \in [Tasks -> TaskRow]
        /\ t \in Tasks
    BY DEF Rows, RowTypes
  <1>1. /\ \A b \in AttemptIds : natt[b] = IF b = a THEN arow ELSE att[b]
        /\ \A u \in Tasks : ntsk[u] = IF u = t THEN trow ELSE tsk[u]
    BY <1>0
  <1>2. RowTypes(rn, ntsk, natt)
    BY <1>0 DEF Rows, RowTypes
  <1>3. \A u \in Tasks : ntsk[u].attempt = tsk[u].attempt
    BY <1>1
  <1>n. a[2] \in 1 .. tsk[t].attempt
    BY LiveIsNumbered
  <1> HIDE DEF ntsk, natt
  <1>4. OnlyLiveLeased(natt)
    BY <1>1 DEF Rows, OnlyLiveLeased
  <1>5. RunningHasLive(ntsk, natt)
    <2> SUFFICES ASSUME NEW u \in Tasks, ntsk[u].state = "running"
                 PROVE  /\ ntsk[u].attempt > 0
                        /\ natt[<<u, ntsk[u].attempt>>].state \in LiveStates
      BY DEF RunningHasLive
    <2>1. u # t /\ ntsk[u] = tsk[u]
      BY <1>1
    <2>2. /\ tsk[u].attempt > 0
          /\ att[<<u, tsk[u].attempt>>].state \in LiveStates
      BY <2>1 DEF Rows, RunningHasLive
    <2>3. <<u, tsk[u].attempt>> \in AttemptIds
      BY <1>0, <2>2, ConstantFacts DEF TaskRow, Numbers
    <2>4. <<u, tsk[u].attempt>> # a
      BY <2>1
    <2> QED
      BY <1>1, <2>1, <2>2, <2>3, <2>4
  <1>6. CanceledQuiet(rn, ntsk)
    BY <1>1 DEF Rows, CanceledQuiet
  <1>7. NumberedInOrder(ntsk, natt)
    <2> SUFFICES ASSUME NEW u \in Tasks, NEW k \in Numbers, k > ntsk[u].attempt
                 PROVE  natt[<<u, k>>].state = "none"
      BY DEF NumberedInOrder
    <2>1. att[<<u, k>>].state = "none" /\ <<u, k>> \in AttemptIds
      BY <1>3 DEF Rows, NumberedInOrder
    <2>2. <<u, k>> # a
      BY <2>1 DEF LiveStates
    <2> QED
      BY <1>1, <2>1, <2>2
  <1>8. Credited(ntsk, natt)
    <2> SUFFICES ASSUME NEW u \in Tasks, ntsk[u].state = "succeeded"
                 PROVE  /\ ntsk[u].outputs \in 1 .. ntsk[u].attempt
                        /\ natt[<<u, ntsk[u].outputs>>].state = "succeeded"
      BY DEF Credited
    <2>1. CASE u = t
      <3>0. ntsk[u] = trow
        BY <1>1, <2>1
      <3>1. trow.outputs = a[2] /\ arow.state = "succeeded"
        BY <3>0
      <3>2. <<u, ntsk[u].outputs>> = a
        BY <2>1, <3>0, <3>1
      <3>3. natt[a] = arow
        BY <1>1
      <3>4. ntsk[u].outputs \in 1 .. ntsk[u].attempt
        BY <1>n, <2>1, <3>0, <3>1
      <3> QED
        BY <3>1, <3>2, <3>3, <3>4
    <2>2. CASE u # t
      <3>1. /\ tsk[u].outputs \in 1 .. tsk[u].attempt
            /\ att[<<u, tsk[u].outputs>>].state = "succeeded"
        BY <1>1, <2>2 DEF Rows, Credited
      <3>2. <<u, tsk[u].outputs>> \in AttemptIds
        BY <1>0, <3>1, ConstantFacts DEF TaskRow, Numbers
      <3>3. <<u, tsk[u].outputs>> # a
        BY <2>2
      <3> QED
        BY <1>1, <2>2, <3>1, <3>2, <3>3
    <2> QED
      BY <2>1, <2>2
  <1> QED
    BY <1>2, <1>4, <1>5, <1>6, <1>7, <1>8 DEF ntsk, natt

-----------------------------------------------------------------------------
(* The operations of a lease holder preserve the invariant.                *)

\* A process whose lease is still on its attempt row works on a live attempt.
LEMMA HeldIsLive ==
    ASSUME IInv, NEW w \in Workers, lease[w] # NoLease,
           attempt[lease[w].attempt].token = lease[w].token
    PROVE  /\ lease[w] \in Lease
           /\ lease[w].attempt \in AttemptIds
           /\ attempt[lease[w].attempt] \in AttemptRow
           /\ attempt[lease[w].attempt].state \in LiveStates
  <1>1. lease[w] \in Lease
    BY DEF IInv
  <1>2. lease[w].attempt \in AttemptIds /\ lease[w].token \in Tokens
    BY <1>1 DEF Lease
  <1>3. attempt[lease[w].attempt].token # NoToken
    BY <1>2, ConstantFacts
  <1> QED
    BY <1>1, <1>2, <1>3 DEF IInv, Rows, RowTypes, OnlyLiveLeased

LEMMA UnleasedFacts ==
    ASSUME NEW row \in AttemptRow
    PROVE  /\ Unleased(row) \in AttemptRow
           /\ Unleased(row).state = row.state
           /\ Unleased(row).token = NoToken
           /\ Unleased(row).handle = row.handle
           /\ \A s \in LiveStates \cup SettledStates :
                 LET new == [Unleased(row) EXCEPT !.state = s]
                 IN  new \in AttemptRow /\ new.state = s /\ new.token = NoToken
  BY DEF AttemptRow, Unleased

LEMMA MarkSubmittingInv ==
    ASSUME IInv, NEW w \in Workers, MarkSubmitting(w)
    PROVE  IInv'
  <1> DEFINE a == lease[w].attempt
             row == [attempt[a] EXCEPT !.state =
                       IF @ = "cancel_requested" THEN @ ELSE "submitting"]
  <1>1. /\ a \in AttemptIds /\ attempt[a] \in AttemptRow
        /\ attempt[a].state \in LiveStates
    BY HeldIsLive DEF MarkSubmitting, HoldsLease
  <1>2. row \in AttemptRow /\ row.state \in LiveStates
    BY <1>1 DEF AttemptRow, LiveStates
  <1>3. attempt' = [attempt EXCEPT ![a] = row]
    BY DEF MarkSubmitting
  <1> HIDE DEF row
  <1>4. Rows(run, task, attempt')
    BY <1>1, <1>2, <1>3, LiveRowInv DEF IInv
  <1>5. UNCHANGED <<run, task, lease, clock, cancels, retries>>
    BY DEF MarkSubmitting, bounds
  <1> QED
    BY <1>4, <1>5 DEF IInv, TokensApart

LEMMA RecordSubmissionInv ==
    ASSUME IInv, NEW w \in Workers, NEW h \in Handles, NEW s \in TargetStates,
           RecordSubmission(w, h, s)
    PROVE  IInv'
  <1> DEFINE a == lease[w].attempt
             row == [attempt[a] EXCEPT !.handle = h,
                       !.state = IF @ = "cancel_requested" THEN @
                                 ELSE SubmittedState(s)]
  <1>1. /\ a \in AttemptIds /\ attempt[a] \in AttemptRow
        /\ attempt[a].state \in LiveStates
    BY HeldIsLive DEF RecordSubmission, HoldsLease
  <1>2. SubmittedState(s) \in LiveStates
    BY DEF SubmittedState, LiveStates
  <1>3. row \in AttemptRow /\ row.state \in LiveStates
    BY <1>1, <1>2 DEF AttemptRow, LiveStates
  <1>4. attempt' = [attempt EXCEPT ![a] = row]
    <2>1. attempt \in [AttemptIds -> AttemptRow]
      BY DEF IInv, Rows, RowTypes
    <2> QED
      BY <1>1, <2>1 DEF RecordSubmission
  <1> HIDE DEF row
  <1>5. Rows(run, task, attempt')
    BY <1>1, <1>3, <1>4, LiveRowInv DEF IInv
  <1>6. UNCHANGED <<run, task, lease, clock, cancels, retries>>
    BY DEF RecordSubmission, bounds
  <1> QED
    BY <1>5, <1>6 DEF IInv, TokensApart

LEMMA RecordTargetStatusInv ==
    ASSUME IInv, NEW w \in Workers, NEW s \in TargetStates,
           RecordTargetStatus(w, s)
    PROVE  IInv'
  <1> DEFINE a == lease[w].attempt
             row == [attempt[a] EXCEPT !.state = PolledState(@, s)]
  <1>1. /\ a \in AttemptIds /\ attempt[a] \in AttemptRow
        /\ attempt[a].state \in LiveStates
    BY HeldIsLive DEF RecordTargetStatus, HoldsLease
  <1>2. PolledState(attempt[a].state, s) \in LiveStates
    BY <1>1 DEF PolledState, LiveStates
  <1>3. row \in AttemptRow /\ row.state \in LiveStates
    BY <1>1, <1>2 DEF AttemptRow
  <1>4. attempt' = [attempt EXCEPT ![a] = row]
    BY DEF RecordTargetStatus
  <1> HIDE DEF row
  <1>5. Rows(run, task, attempt')
    BY <1>1, <1>3, <1>4, LiveRowInv DEF IInv
  <1>6. UNCHANGED <<run, task, lease, clock, cancels, retries>>
    BY DEF RecordTargetStatus, bounds
  <1> QED
    BY <1>5, <1>6 DEF IInv, TokensApart

\* A process that drops its lease object leaves the other leases apart.
LEMMA LeaseDropped ==
    ASSUME IInv, NEW w \in Workers, lease' = [lease EXCEPT ![w] = NoLease]
    PROVE  lease' \in [Workers -> Lease \cup {NoLease}] /\ TokensApart'
  <1>1. lease \in [Workers -> Lease \cup {NoLease}]
    BY DEF IInv
  <1>2. \A v \in Workers : lease'[v] = IF v = w THEN NoLease ELSE lease[v]
    BY <1>1
  <1>3. lease' \in [Workers -> Lease \cup {NoLease}]
    BY <1>1
  <1>4. TokensApart'
    BY <1>2 DEF IInv, TokensApart
  <1> QED
    BY <1>3, <1>4

LEMMA ReleaseLeaseInv ==
    ASSUME IInv, NEW w \in Workers, ReleaseLease(w)
    PROVE  IInv'
  <1> DEFINE a == lease[w].attempt
             k == IF task[a[1]].token = lease[w].token THEN NoToken
                  ELSE task[a[1]].token
  <1>1. /\ a \in AttemptIds /\ attempt[a] \in AttemptRow
        /\ attempt[a].state \in LiveStates
    BY HeldIsLive DEF ReleaseLease, HoldsLease
  <1>2. a[1] \in Tasks /\ k \in Tokens \cup {NoToken}
    <2>1. a[1] \in Tasks /\ task[a[1]] \in TaskRow
      BY <1>1, AttemptIdFacts DEF IInv, Rows, RowTypes
    <2> QED
      BY <2>1 DEF TaskRow
  <1>3. /\ attempt' = [attempt EXCEPT ![a] = Unleased(attempt[a])]
        /\ task' = [task EXCEPT ![a[1]].token = k]
        /\ lease' = [lease EXCEPT ![w] = NoLease]
    BY DEF ReleaseLease
  <1> HIDE DEF k, a
  <1>4. Rows(run, task, attempt')
    BY <1>1, <1>3, UnleasedFacts, LiveRowInv DEF IInv
  <1>5. Rows(run, task', attempt')
    BY <1>2, <1>3, <1>4, TaskTokenInv
  <1>6. UNCHANGED <<run, clock, cancels, retries>>
    BY DEF ReleaseLease, bounds
  <1> QED
    BY <1>3, <1>5, <1>6, LeaseDropped DEF IInv

LEMMA LoseProcessInv ==
    ASSUME IInv, NEW w \in Workers, LoseProcess(w)
    PROVE  IInv'
  <1>1. lease' = [lease EXCEPT ![w] = NoLease]
    BY DEF LoseProcess
  <1>2. UNCHANGED <<run, task, attempt, clock, cancels, retries>>
    BY DEF LoseProcess, bounds
  <1> QED
    BY <1>1, <1>2, LeaseDropped DEF IInv

LEMMA MarkAttemptCanceledInv ==
    ASSUME IInv, NEW w \in Workers, MarkAttemptCanceled(w)
    PROVE  IInv'
  <1> DEFINE a == lease[w].attempt
             t == a[1]
             arow == [Unleased(attempt[a]) EXCEPT !.state = "canceled"]
             trow == [task[t] EXCEPT !.state = "canceled", !.token = NoToken]
  <1>0. task \in [Tasks -> TaskRow]
    BY DEF IInv, Rows, RowTypes
  <1>1. /\ a \in AttemptIds /\ attempt[a] \in AttemptRow
        /\ attempt[a].state \in LiveStates
    BY HeldIsLive DEF MarkAttemptCanceled, HoldsLease
  <1>2. t \in Tasks /\ task[t] \in TaskRow
    BY <1>0, <1>1, AttemptIdFacts
  <1>3. arow \in AttemptRow /\ arow.token = NoToken /\ arow.state = "canceled"
    BY <1>1, UnleasedFacts DEF SettledStates
  <1>4. /\ trow \in TaskRow /\ trow.attempt = task[t].attempt
        /\ trow.state = "canceled" /\ trow.outputs = task[t].outputs
    BY <1>2 DEF TaskRow, TaskStates
  <1>5. /\ attempt' = [attempt EXCEPT ![a] = arow]
        /\ task' = [task EXCEPT ![t] = trow]
        /\ lease' = [lease EXCEPT ![w] = NoLease]
    BY <1>0, <1>2 DEF MarkAttemptCanceled
  <1>6. UNCHANGED <<run, clock, cancels, retries>>
    BY DEF MarkAttemptCanceled, bounds
  <1>7. \A u \in Tasks : task'[u] = IF u = t THEN trow ELSE task[u]
    BY <1>0, <1>5
  <1> HIDE DEF t, a, arow, trow
  <1>8. /\ RowTypes(run, task', attempt') /\ OnlyLiveLeased(attempt')
        /\ RunningHasLive(task', attempt') /\ CanceledQuiet(run, task')
        /\ NumberedInOrder(task', attempt') /\ Credited(task', attempt')
    BY <1>1, <1>3, <1>4, <1>5, SettledRowInv DEF IInv, t
  <1>9. Published(run, task')
    <2>1. \A u \in Tasks : /\ task'[u].outputs = task[u].outputs
                           /\ task'[u].state \in {task[u].state, "canceled"}
      BY <1>4, <1>7
    <2> QED
      BY <2>1, TaskFacts, ConstantFacts DEF IInv, Rows, Published
  <1> QED
    BY <1>5, <1>6, <1>8, <1>9, LeaseDropped DEF IInv, Rows

LEMMA FailTaskInv ==
    ASSUME IInv, NEW w \in Workers, FailTask(w)
    PROVE  IInv'
  <1> DEFINE a == lease[w].attempt
             t == a[1]
             arow == [Unleased(attempt[a]) EXCEPT !.state = "failed"]
             trow == [task[t] EXCEPT !.state = "failed", !.token = NoToken]
             rrow == [run[t[1]] EXCEPT !.state = "failed"]
  <1>1. UNCHANGED <<clock, cancels, retries>>
        /\ lease' = [lease EXCEPT ![w] = NoLease]
    BY DEF FailTask, bounds
  <1>2. CASE ~SettlesTask(w)
    <2>1. UNCHANGED <<run, task, attempt>>
      BY <1>2 DEF FailTask
    <2> QED
      BY <1>1, <2>1, LeaseDropped DEF IInv
  <1>3. CASE SettlesTask(w)
    <2>0. task \in [Tasks -> TaskRow] /\ run \in [Runs -> RunRow]
      BY DEF IInv, Rows, RowTypes
    <2>1. /\ a \in AttemptIds /\ attempt[a] \in AttemptRow
          /\ attempt[a].state \in LiveStates
      BY <1>3, HeldIsLive DEF FailTask, SettlesTask
    <2>2. t \in Tasks /\ task[t] \in TaskRow /\ t[1] \in Runs
      BY <2>0, <2>1, AttemptIdFacts, TaskFacts
    <2>3. arow \in AttemptRow /\ arow.token = NoToken /\ arow.state = "failed"
      BY <2>1, UnleasedFacts DEF SettledStates
    <2>4. /\ trow \in TaskRow /\ trow.attempt = task[t].attempt
          /\ trow.state = "failed" /\ trow.outputs = task[t].outputs
      BY <2>2 DEF TaskRow, TaskStates
    <2>5. rrow \in RunRow /\ rrow.state = "failed"
      BY <2>0, <2>2 DEF RunRow, RunStates
    <2>6. /\ attempt' = [attempt EXCEPT ![a] = arow]
          /\ task' = [task EXCEPT ![t] = trow]
          /\ run' = [run EXCEPT ![t[1]] = rrow]
      BY <1>3, <2>0, <2>2 DEF FailTask
    <2>7. /\ \A u \in Tasks : task'[u] = IF u = t THEN trow ELSE task[u]
          /\ \A q \in Runs : run'[q] = IF q = t[1] THEN rrow ELSE run[q]
          /\ run' \in [Runs -> RunRow]
      BY <2>0, <2>2, <2>5, <2>6
    <2> HIDE DEF t, a, arow, trow, rrow
    <2>8. /\ RowTypes(run, task', attempt') /\ OnlyLiveLeased(attempt')
          /\ RunningHasLive(task', attempt') /\ CanceledQuiet(run, task')
          /\ NumberedInOrder(task', attempt') /\ Credited(task', attempt')
      BY <2>1, <2>3, <2>4, <2>6, SettledRowInv DEF IInv, t
    <2>9. CanceledQuiet(run', task')
      BY <2>5, <2>7, <2>8, TaskFacts DEF CanceledQuiet
    <2>10. Published(run', task')
      <3> SUFFICES ASSUME NEW q \in Runs, run'[q].state = "succeeded"
                   PROVE  /\ \A u \in TasksOf(q) : task'[u].state # "running"
                          /\ \A n \in OutputNodes :
                                run'[q].outputs[n] = task'[<<q, n>>].outputs
        BY DEF Published
      <3>1. q # t[1] /\ run'[q] = run[q]
        BY <2>5, <2>7
      <3>2. \A n \in OutputNodes : <<q, n>> \in TasksOf(q)
        BY ConstantFacts DEF TasksOf
      <3>3. \A u \in TasksOf(q) : task'[u] = task[u]
        BY <2>7, <3>1, TaskFacts
      <3> QED
        BY <3>1, <3>2, <3>3 DEF IInv, Rows, Published
    <2> QED
      BY <1>1, <2>7, <2>8, <2>9, <2>10, LeaseDropped
         DEF IInv, Rows, RowTypes
  <1> QED
    BY <1>2, <1>3

\* The run row that _finish_run_if_terminal leaves is a row, and publishes
\* what the tasks of the run have when it declares the run succeeded.
LEMMA FinishedRunFacts ==
    ASSUME RowTypes(run, task, attempt), NEW t \in Tasks, NEW k \in Numbers
    PROVE  /\ FinishedRun(t, k) \in RunRow
           /\ \/ FinishedRun(t, k) = run[t[1]]
              \/ /\ FinishedRun(t, k).state = "succeeded"
                 /\ \A u \in TasksOf(t[1]) : u = t \/ task[u].state = "succeeded"
                 /\ \A n \in OutputNodes :
                       FinishedRun(t, k).outputs[n] =
                         IF n = t[2] THEN k ELSE task[<<t[1], n>>].outputs
  <1> DEFINE done == \A u \in TasksOf(t[1]) : u = t \/ task[u].state = "succeeded"
             outs == [n \in Nodes |->
                        IF n \notin OutputNodes THEN 0
                        ELSE IF n = t[2] THEN k
                        ELSE task[<<t[1], n>>].outputs]
  <1>1. FinishedRun(t, k) = IF done THEN [state |-> "succeeded",
                                         outputs |-> outs]
                            ELSE run[t[1]]
    BY DEF FinishedRun
  <1>2. outs \in [Nodes -> 0 .. MaxAttempts]
    <2> SUFFICES ASSUME NEW n \in Nodes
                 PROVE  outs[n] \in 0 .. MaxAttempts
      OBVIOUS
    <2>1. task[<<t[1], n>>].outputs \in 0 .. MaxAttempts
      <3>1. <<t[1], n>> \in Tasks
        BY TaskFacts
      <3> QED
        BY <3>1 DEF RowTypes, TaskRow
    <2>2. k \in 0 .. MaxAttempts
      BY ConstantFacts DEF Numbers
    <2> QED
      BY <2>1, <2>2, ConstantFacts
  <1>3. run[t[1]] \in RunRow
    BY TaskFacts DEF RowTypes
  <1>4. \A n \in OutputNodes :
           outs[n] = IF n = t[2] THEN k ELSE task[<<t[1], n>>].outputs
    BY ConstantFacts
  <1> HIDE DEF done, outs
  <1>5. CASE done
    <2>1. FinishedRun(t, k) = [state |-> "succeeded", outputs |-> outs]
      BY <1>1, <1>5
    <2>2. [state |-> "succeeded", outputs |-> outs] \in RunRow
      BY <1>2 DEF RunRow, RunStates
    <2> QED
      BY <1>4, <1>5, <2>1, <2>2 DEF done
  <1>6. CASE ~done
    BY <1>1, <1>3, <1>6
  <1> QED
    BY <1>5, <1>6

LEMMA CompleteTaskInv ==
    ASSUME IInv, NEW w \in Workers, CompleteTask(w)
    PROVE  IInv'
  <1> DEFINE a == lease[w].attempt
             t == a[1]
             arow == [Unleased(attempt[a]) EXCEPT !.state = "succeeded"]
             trow == CompletedTask(task[t], a[2])
             rrow == FinishedRun(t, a[2])
  <1>1. UNCHANGED <<clock, cancels, retries>>
        /\ lease' = [lease EXCEPT ![w] = NoLease]
    BY DEF CompleteTask, bounds
  <1>2. CASE UNCHANGED <<run, task, attempt>>
    BY <1>1, <1>2, LeaseDropped DEF IInv
  <1>3. CASE /\ SettlesTask(w)
             /\ attempt' = [attempt EXCEPT ![a] = arow]
             /\ task' = [task EXCEPT ![t] = trow]
             /\ run' = [run EXCEPT ![t[1]] = rrow]
    <2>0. task \in [Tasks -> TaskRow] /\ run \in [Runs -> RunRow]
      BY DEF IInv, Rows, RowTypes
    <2>1. /\ a \in AttemptIds /\ attempt[a] \in AttemptRow
          /\ attempt[a].state \in LiveStates
      BY <1>1, <1>3, HeldIsLive DEF CompleteTask, SettlesTask
    <2>2. /\ t \in Tasks /\ task[t] \in TaskRow /\ t[1] \in Runs
          /\ a[2] \in Numbers /\ task[t].state = "running"
      BY <1>3, <2>0, <2>1, AttemptIdFacts, TaskFacts DEF SettlesTask
    <2>3. /\ arow \in AttemptRow /\ arow.token = NoToken
          /\ arow.state = "succeeded"
      BY <2>1, UnleasedFacts DEF SettledStates
    <2>4. /\ trow \in TaskRow /\ trow.attempt = task[t].attempt
          /\ trow.state = "succeeded" /\ trow.outputs = a[2]
      <3>1. a[2] \in 0 .. MaxAttempts
        BY <2>2, ConstantFacts DEF Numbers
      <3> HIDE DEF a
      <3> QED
        BY <2>2, <3>1 DEF TaskRow, TaskStates, CompletedTask
    <2>6. /\ attempt' = [attempt EXCEPT ![a] = arow]
          /\ task' = [task EXCEPT ![t] = trow]
          /\ run' = [run EXCEPT ![t[1]] = rrow]
      BY <1>3, <2>0, <2>2
    <2>5. /\ rrow \in RunRow
          /\ \/ rrow = run[t[1]]
             \/ /\ rrow.state = "succeeded"
                /\ \A u \in TasksOf(t[1]) : u = t \/ task[u].state = "succeeded"
                /\ \A n \in OutputNodes :
                      rrow.outputs[n] =
                        IF n = t[2] THEN a[2] ELSE task[<<t[1], n>>].outputs
      BY <2>2, FinishedRunFacts DEF IInv, Rows
    <2>7. /\ \A u \in Tasks : task'[u] = IF u = t THEN trow ELSE task[u]
          /\ \A q \in Runs : run'[q] = IF q = t[1] THEN rrow ELSE run[q]
          /\ run' \in [Runs -> RunRow]
      BY <2>0, <2>2, <2>5, <2>6
    <2> HIDE DEF t, a, arow, trow, rrow
    <2>8. /\ RowTypes(run, task', attempt') /\ OnlyLiveLeased(attempt')
          /\ RunningHasLive(task', attempt') /\ CanceledQuiet(run, task')
          /\ NumberedInOrder(task', attempt') /\ Credited(task', attempt')
      BY <2>1, <2>3, <2>4, <2>6, SettledRowInv DEF IInv, t
    <2>9. CanceledQuiet(run', task')
      BY <2>5, <2>7, <2>8, TaskFacts DEF CanceledQuiet
    <2>10. Published(run', task')
      <3> SUFFICES ASSUME NEW q \in Runs, run'[q].state = "succeeded"
                   PROVE  /\ \A u \in TasksOf(q) : task'[u].state # "running"
                          /\ \A n \in OutputNodes :
                                run'[q].outputs[n] = task'[<<q, n>>].outputs
        BY DEF Published
      <3>n. \A n \in OutputNodes : <<q, n>> \in TasksOf(q) /\ <<q, n>> \in Tasks
        BY ConstantFacts, TaskFacts DEF TasksOf
      <3>1. CASE q # t[1]
        <4>1. run'[q] = run[q]
          BY <2>7, <3>1
        <4>2. \A u \in TasksOf(q) : task'[u] = task[u]
          BY <2>7, <3>1, TaskFacts
        <4> QED
          BY <4>1, <4>2, <3>n DEF IInv, Rows, Published
      <3>2. CASE q = t[1]
        <4>1. run'[q] = rrow
          BY <2>7, <3>2
        <4>2. run[q].state # "succeeded"
          <5>1. t \in TasksOf(q)
            BY <2>2, <3>2, TaskFacts
          <5> QED
            BY <2>2, <5>1 DEF IInv, Rows, Published
        <4>3. /\ \A u \in TasksOf(q) : u = t \/ task[u].state = "succeeded"
              /\ \A n \in OutputNodes :
                    rrow.outputs[n] =
                      IF n = t[2] THEN a[2] ELSE task[<<q, n>>].outputs
          BY <2>5, <3>2, <4>1, <4>2
        <4>4. \A u \in TasksOf(q) : task'[u].state # "running"
          BY <2>4, <2>7, <4>3, TaskFacts
        <4>5. \A n \in OutputNodes : rrow.outputs[n] = task'[<<q, n>>].outputs
          <5> TAKE n \in OutputNodes
          <5>1. CASE n = t[2]
            BY <2>2, <2>4, <2>7, <3>2, <4>3, <5>1, TaskFacts
          <5>2. CASE n # t[2]
            <6>1. <<q, n>> # t
              BY <5>2
            <6> QED
              BY <2>7, <3>n, <4>3, <5>2, <6>1
          <5> QED
            BY <5>1, <5>2
        <4> QED
          BY <4>1, <4>4, <4>5
      <3> QED
        BY <3>1, <3>2
    <2> QED
      BY <1>1, <2>7, <2>8, <2>9, <2>10, LeaseDropped
         DEF IInv, Rows, RowTypes
  <1> QED
    BY <1>2, <1>3 DEF CompleteTask
-----------------------------------------------------------------------------
(* claim_task: the reset of expired leases.                                *)

\* What the reset does to one attempt: nothing, or the attempt was live and
\* loses its lease; only an attempt with nothing at the target is settled.
LEMMA ResetAttempt ==
    ASSUME Rows(run, task, attempt), NEW E, NEW a \in AttemptIds
    PROVE  LET new == AttemptsAfterReset(E)[a] IN
           \/ new = attempt[a]
           \/ /\ a[1] \in ExpiredTasks(E) /\ a = Current(a[1])
              /\ attempt[a].state \in LiveStates
              /\ new \in AttemptRow /\ new.token = NoToken
              /\ new.handle = attempt[a].handle
              /\ new.startedAt = attempt[a].startedAt
              /\ new.state = IF CanceledBeforeTarget(a) THEN "canceled"
                             ELSE IF Abandoned(a) THEN "abandoned"
                             ELSE attempt[a].state
  <1> USE AttemptIdFacts
  <1> DEFINE new == AttemptsAfterReset(E)[a]
  <1>1. CASE a[1] \notin ExpiredTasks(E) \/ a # Current(a[1])
    BY <1>1 DEF AttemptsAfterReset
  <1>2. CASE a[1] \in ExpiredTasks(E) /\ a = Current(a[1])
    <2>1. attempt[a] \in AttemptRow
      BY DEF Rows, RowTypes
    <2>2. attempt[a].state \in LiveStates
      <3>1. task[a[1]].state = "running" \/ attempt[a].state = "cancel_requested"
        BY <1>2 DEF ExpiredTasks
      <3>2. CASE task[a[1]].state = "running"
        BY <1>2, <3>2 DEF Rows, RunningHasLive, Current
      <3> QED
        BY <3>1, <3>2 DEF LiveStates
    <2> DEFINE s == IF CanceledBeforeTarget(a) THEN "canceled"
                    ELSE IF Abandoned(a) THEN "abandoned"
                    ELSE attempt[a].state
    <2>3. new = [Unleased(attempt[a]) EXCEPT !.state = s]
      <3>1. Unleased(attempt[a]).state = attempt[a].state
        BY <2>1, UnleasedFacts
      <3> QED
        BY <1>2, <2>1, <3>1 DEF AttemptsAfterReset
    <2>4. s \in LiveStates \cup SettledStates
      BY <2>2 DEF SettledStates
    <2> HIDE DEF s
    <2>5. new \in AttemptRow /\ new.token = NoToken /\ new.state = s
      BY <2>1, <2>3, <2>4, UnleasedFacts
    <2>6. new.handle = attempt[a].handle /\ new.startedAt = attempt[a].startedAt
      BY <2>1, <2>3 DEF AttemptRow, Unleased
    <2> QED
      BY <1>2, <2>2, <2>5, <2>6 DEF s
  <1> QED
    BY <1>1, <1>2

\* What it does to one task.
LEMMA ResetTask ==
    ASSUME Rows(run, task, attempt), NEW E, NEW t \in Tasks
    PROVE  LET new == TasksAfterReset(E)[t] IN
           /\ new \in TaskRow
           /\ new.attempt = task[t].attempt /\ new.outputs = task[t].outputs
           /\ \/ t \notin ExpiredTasks(E) /\ new = task[t]
              \/ /\ t \in ExpiredTasks(E) /\ ~Abandoned(Current(t))
                 /\ new.state = task[t].state
              \/ /\ t \in ExpiredTasks(E) /\ Abandoned(Current(t))
                 /\ new.state = "pending"
  <1> DEFINE s == IF Abandoned(Current(t)) THEN "pending" ELSE task[t].state
  <1>1. task[t] \in TaskRow
    BY DEF Rows, RowTypes
  <1>2. TasksAfterReset(E)[t] =
          IF t \notin ExpiredTasks(E) THEN task[t]
          ELSE [task[t] EXCEPT !.token = NoToken, !.state = s]
    BY <1>1 DEF TasksAfterReset, TaskRow
  <1>3. s \in TaskStates
    BY <1>1 DEF TaskRow, TaskStates
  <1> HIDE DEF s
  <1>4. [task[t] EXCEPT !.token = NoToken, !.state = s] \in TaskRow
    BY <1>1, <1>3 DEF TaskRow
  <1>5. CASE t \notin ExpiredTasks(E)
    BY <1>1, <1>2, <1>5
  <1>6. CASE t \in ExpiredTasks(E)
    <2>1. /\ TasksAfterReset(E)[t].state = s
          /\ TasksAfterReset(E)[t].attempt = task[t].attempt
          /\ TasksAfterReset(E)[t].outputs = task[t].outputs
      BY <1>1, <1>2, <1>6 DEF TaskRow
    <2> QED
      BY <1>2, <1>4, <1>6, <2>1 DEF s
  <1> QED
    BY <1>5, <1>6

\* Between its two halves, claim_task has the invariant of the tables.
LEMMA ResetInv ==
    ASSUME Rows(run, task, attempt), NEW E
    PROVE  Rows(run, TasksAfterReset(E), AttemptsAfterReset(E))
  <1> DEFINE tsk == TasksAfterReset(E)
             att == AttemptsAfterReset(E)
  <1> USE AttemptIdFacts
  <1>0. task \in [Tasks -> TaskRow] /\ attempt \in [AttemptIds -> AttemptRow]
    BY DEF Rows, RowTypes
  <1>1. tsk \in [Tasks -> TaskRow]
    BY ResetTask DEF TasksAfterReset
  <1>2. att \in [AttemptIds -> AttemptRow]
    <2>1. \A a \in AttemptIds : att[a] \in AttemptRow
      BY <1>0, ResetAttempt
    <2> QED
      BY <2>1 DEF AttemptsAfterReset
  <1>3. \A t \in Tasks : /\ tsk[t].attempt = task[t].attempt
                         /\ tsk[t].outputs = task[t].outputs
                         /\ tsk[t].state \in {task[t].state, "pending"}
    BY ResetTask
  <1>4. \A a \in AttemptIds :
           /\ att[a] = attempt[a] \/ att[a].token = NoToken
           /\ attempt[a].state \notin LiveStates => att[a] = attempt[a]
    BY ResetAttempt
  <1>5. OnlyLiveLeased(att)
    BY <1>4 DEF Rows, OnlyLiveLeased
  <1>6. RunningHasLive(tsk, att)
    <2> SUFFICES ASSUME NEW t \in Tasks, tsk[t].state = "running"
                 PROVE  /\ tsk[t].attempt > 0
                        /\ att[<<t, tsk[t].attempt>>].state \in LiveStates
      BY DEF RunningHasLive
    <2> DEFINE a == Current(t)
    <2>1. /\ task[t].state = "running"
          /\ t \in ExpiredTasks(E) => ~Abandoned(a)
      BY ResetTask
    <2>2. task[t].attempt > 0 /\ attempt[a].state \in LiveStates
      BY <2>1 DEF Rows, RunningHasLive, Current
    <2>3. a \in AttemptIds /\ a[1] = t
      BY <1>0, <2>2, CurrentIsAttempt DEF Current
    <2>4. ~CanceledBeforeTarget(a)
      BY <2>1, <2>3 DEF Rows, CanceledQuiet, CanceledBeforeTarget
    <2>5. att[a].state = attempt[a].state
      BY <2>1, <2>3, <2>4, ResetAttempt
    <2> QED
      BY <1>3, <2>2, <2>5 DEF Current
  <1>7. CanceledQuiet(run, tsk)
    <2> SUFFICES ASSUME NEW t \in Tasks, run[t[1]].state = "canceled"
                 PROVE  tsk[t].state \notin {"pending", "running"}
      BY DEF CanceledQuiet
    <2>1. task[t].state \notin {"pending", "running"}
      BY DEF Rows, CanceledQuiet
    <2>2. CASE tsk[t].state = task[t].state
      BY <2>1, <2>2
    <2>3. CASE t \in ExpiredTasks(E) /\ Abandoned(Current(t))
      \* An attempt of a canceled run is settled with it or can be adopted.
      BY <2>3 DEF Abandoned, Adoptable, CanceledBeforeTarget, Current
    <2> QED
      BY <2>2, <2>3, ResetTask
  <1>8. NumberedInOrder(tsk, att)
    <2> SUFFICES ASSUME NEW t \in Tasks, NEW k \in Numbers, k > tsk[t].attempt
                 PROVE  att[<<t, k>>].state = "none"
      BY DEF NumberedInOrder
    <2>1. attempt[<<t, k>>].state = "none"
      BY <1>3 DEF Rows, NumberedInOrder
    <2> QED
      BY <1>4, <2>1 DEF LiveStates
  <1>9. Credited(tsk, att)
    <2> SUFFICES ASSUME NEW t \in Tasks, tsk[t].state = "succeeded"
                 PROVE  /\ tsk[t].outputs \in 1 .. tsk[t].attempt
                        /\ att[<<t, tsk[t].outputs>>].state = "succeeded"
      BY DEF Credited
    <2>1. /\ task[t].outputs \in 1 .. task[t].attempt
          /\ attempt[<<t, task[t].outputs>>].state = "succeeded"
      BY <1>3 DEF Rows, Credited
    <2>2. <<t, task[t].outputs>> \in AttemptIds
      BY <1>0, <2>1, ConstantFacts DEF TaskRow, Numbers
    <2>3. att[<<t, task[t].outputs>>] = attempt[<<t, task[t].outputs>>]
      BY <1>4, <2>1, <2>2 DEF LiveStates
    <2> QED
      BY <1>3, <2>1, <2>3
  <1>10. Published(run, tsk)
    <2> SUFFICES ASSUME NEW q \in Runs, run[q].state = "succeeded"
                 PROVE  /\ \A u \in TasksOf(q) : tsk[u].state # "running"
                        /\ \A n \in OutputNodes :
                              run[q].outputs[n] = tsk[<<q, n>>].outputs
      BY DEF Published
    <2>1. /\ \A u \in TasksOf(q) : task[u].state # "running"
          /\ \A n \in OutputNodes : run[q].outputs[n] = task[<<q, n>>].outputs
      BY DEF Rows, Published
    <2>2. \A n \in OutputNodes : <<q, n>> \in Tasks
      BY ConstantFacts, TaskFacts
    <2> QED
      BY <1>3, <2>1, <2>2, TaskFacts
  <1> QED
    BY <1>1, <1>2, <1>5, <1>6, <1>7, <1>8, <1>9, <1>10 DEF Rows, RowTypes
-----------------------------------------------------------------------------
(* claim_task: the grant of a lease.                                       *)

\* A uuid is new: no process holds a lease with it.
LEMMA FreshTokenFacts ==
    ASSUME Tokens \ TokensInUse # {}
    PROVE  /\ FreshToken \in Tokens
           /\ \A v \in Workers :
                 lease[v] # NoLease => lease[v].token # FreshToken
  <1>1. FreshToken \in Tokens /\ FreshToken \notin TokensInUse
    <2>1. \E k \in Tokens : k \notin TokensInUse
      OBVIOUS
    <2> HIDE DEF TokensInUse
    <2> QED
      BY <2>1 DEF FreshToken
  <1> HIDE DEF FreshToken
  <1>2. \A v \in Workers : lease[v] # NoLease => lease[v].token \in TokensInUse
    BY DEF TokensInUse
  <1> QED
    BY <1>1, <1>2

LEMMA LeaseGranted ==
    ASSUME IInv, NEW w \in Workers, Tokens \ TokensInUse # {},
           NEW l \in Lease, l.token = FreshToken,
           lease' = [lease EXCEPT ![w] = l]
    PROVE  lease' \in [Workers -> Lease \cup {NoLease}] /\ TokensApart'
  <1>1. lease \in [Workers -> Lease \cup {NoLease}]
    BY DEF IInv
  <1>2. \A v \in Workers : lease'[v] = IF v = w THEN l ELSE lease[v]
    BY <1>1
  <1>3. lease' \in [Workers -> Lease \cup {NoLease}]
    BY <1>1
  <1>4. TokensApart'
    BY <1>2, FreshTokenFacts DEF IInv, TokensApart
  <1> QED
    BY <1>3, <1>4

\* Starting the next attempt of a pending task of a run that is not over.
LEMMA StartedRowsInv ==
    ASSUME NEW rn, NEW tsk, NEW att, Rows(rn, tsk, att), NEW t \in Tasks,
           tsk[t].attempt < MaxAttempts,
           NEW arow \in AttemptRow, arow.state \in LiveStates,
           NEW trow \in TaskRow, trow.state = "running",
           trow.attempt = tsk[t].attempt + 1,
           NEW rrow \in RunRow, rrow.state = "running"
    PROVE  Rows([rn EXCEPT ![t[1]] = rrow],
                [tsk EXCEPT ![t] = trow],
                [att EXCEPT ![<<t, trow.attempt>>] = arow])
  <1> DEFINE a == <<t, trow.attempt>>
             nrn == [rn EXCEPT ![t[1]] = rrow]
             ntsk == [tsk EXCEPT ![t] = trow]
             natt == [att EXCEPT ![a] = arow]
  <1> USE AttemptIdFacts, TaskFacts
  <1>0. /\ rn \in [Runs -> RunRow] /\ tsk \in [Tasks -> TaskRow]
        /\ att \in [AttemptIds -> AttemptRow]
    BY DEF Rows, RowTypes
  <1>n. /\ tsk[t].attempt \in Nat /\ trow.attempt \in Numbers
        /\ trow.attempt > tsk[t].attempt
    <2>1. tsk[t].attempt \in 0 .. MaxAttempts
      BY <1>0 DEF TaskRow
    <2> QED
      BY <2>1, ConstantFacts DEF Numbers
  <1>1. /\ \A b \in AttemptIds : natt[b] = IF b = a THEN arow ELSE att[b]
        /\ \A u \in Tasks : ntsk[u] = IF u = t THEN trow ELSE tsk[u]
        /\ \A q \in Runs : nrn[q] = IF q = t[1] THEN rrow ELSE rn[q]
    BY <1>0
  <1>2. RowTypes(nrn, ntsk, natt)
    BY <1>0 DEF RowTypes
  <1>3. a \in AttemptIds /\ att[a].state = "none"
    BY <1>n DEF Rows, NumberedInOrder
  <1> HIDE DEF nrn, ntsk, natt
  <1>4. OnlyLiveLeased(natt)
    BY <1>1 DEF Rows, OnlyLiveLeased
  <1>5. RunningHasLive(ntsk, natt)
    <2> SUFFICES ASSUME NEW u \in Tasks, ntsk[u].state = "running"
                 PROVE  /\ ntsk[u].attempt > 0
                        /\ natt[<<u, ntsk[u].attempt>>].state \in LiveStates
      BY DEF RunningHasLive
    <2>1. CASE u = t
      <3>1. ntsk[u] = trow /\ natt[a] = arow
        BY <1>1, <1>3, <2>1
      <3> QED
        BY <1>n, <2>1, <3>1
    <2>2. CASE u # t
      <3>1. ntsk[u] = tsk[u]
        BY <1>1, <2>2
      <3>2. /\ tsk[u].attempt > 0
            /\ att[<<u, tsk[u].attempt>>].state \in LiveStates
        BY <3>1 DEF Rows, RunningHasLive
      <3>3. <<u, tsk[u].attempt>> \in AttemptIds
        BY <1>0, <3>2, ConstantFacts DEF TaskRow, Numbers
      <3>4. <<u, tsk[u].attempt>> # a
        BY <2>2
      <3> QED
        BY <1>1, <3>1, <3>2, <3>3, <3>4
    <2> QED
      BY <2>1, <2>2
  <1>6. CanceledQuiet(nrn, ntsk)
    BY <1>1 DEF Rows, CanceledQuiet
  <1>7. NumberedInOrder(ntsk, natt)
    <2> SUFFICES ASSUME NEW u \in Tasks, NEW k \in Numbers, k > ntsk[u].attempt
                 PROVE  natt[<<u, k>>].state = "none"
      BY DEF NumberedInOrder
    <2>0. <<u, k>> \in AttemptIds
      OBVIOUS
    <2>1. CASE u = t
      <3>1. k > trow.attempt /\ k \in Nat
        BY <1>1, <2>1 DEF Numbers
      <3>2. k > tsk[t].attempt /\ <<u, k>> # a
        BY <1>n, <3>1
      <3>3. att[<<u, k>>].state = "none"
        BY <2>1, <3>2 DEF Rows, NumberedInOrder
      <3> QED
        BY <1>1, <2>0, <3>2, <3>3
    <2>2. CASE u # t
      <3>1. att[<<u, k>>].state = "none"
        BY <1>1, <2>2 DEF Rows, NumberedInOrder
      <3>2. <<u, k>> # a
        BY <2>2
      <3> QED
        BY <1>1, <2>0, <3>1, <3>2
    <2> QED
      BY <2>1, <2>2
  <1>8. Credited(ntsk, natt)
    <2> SUFFICES ASSUME NEW u \in Tasks, ntsk[u].state = "succeeded"
                 PROVE  /\ ntsk[u].outputs \in 1 .. ntsk[u].attempt
                        /\ natt[<<u, ntsk[u].outputs>>].state = "succeeded"
      BY DEF Credited
    <2>1. u # t /\ ntsk[u] = tsk[u]
      BY <1>1
    <2>2. /\ tsk[u].outputs \in 1 .. tsk[u].attempt
          /\ att[<<u, tsk[u].outputs>>].state = "succeeded"
      BY <2>1 DEF Rows, Credited
    <2>3. <<u, tsk[u].outputs>> \in AttemptIds
      BY <1>0, <2>2, ConstantFacts DEF TaskRow, Numbers
    <2>4. <<u, tsk[u].outputs>> # a
      BY <2>1
    <2> QED
      BY <1>1, <2>1, <2>2, <2>3, <2>4
  <1>9. Published(nrn, ntsk)
    <2> SUFFICES ASSUME NEW q \in Runs, nrn[q].state = "succeeded"
                 PROVE  /\ \A u \in TasksOf(q) : ntsk[u].state # "running"
                        /\ \A n \in OutputNodes :
                              nrn[q].outputs[n] = ntsk[<<q, n>>].outputs
      BY DEF Published
    <2>1. q # t[1] /\ nrn[q] = rn[q]
      BY <1>1
    <2>2. \A n \in OutputNodes : <<q, n>> \in TasksOf(q)
      BY ConstantFacts DEF TasksOf
    <2>3. \A u \in TasksOf(q) : ntsk[u] = tsk[u]
      BY <1>1, <2>1
    <2> QED
      BY <2>1, <2>2, <2>3 DEF Rows, Published
  <1> QED
    BY <1>2, <1>4, <1>5, <1>6, <1>7, <1>8, <1>9 DEF Rows, nrn, ntsk, natt

LEMMA ClaimRecoveredInv ==
    ASSUME IInv, NEW w \in Workers, NEW E, ClaimRecovered(w, E)
    PROVE  IInv'
  <1> DEFINE att == AttemptsAfterReset(E)
             tsk == TasksAfterReset(E)
  <1>1. Rows(run, tsk, att)
    BY ResetInv DEF IInv
  <1> HIDE DEF att, tsk
  <1>2. PICK a \in Recoverable(w, att) : Recover(w, a, att, tsk)
    BY DEF ClaimRecovered, att, tsk
  <1>3. Tokens \ TokensInUse # {} /\ FreshToken \in Tokens
    BY FreshTokenFacts DEF ClaimRecovered
  <1>4. /\ a \in AttemptIds /\ att[a] \in AttemptRow /\ a[1] \in Tasks
        /\ att[a].state \in LiveStates
    <2>1. a \in AttemptIds /\ att[a].state \in LiveStates
      BY <1>2 DEF Recoverable, LiveStates
    <2> QED
      BY <1>1, <2>1, AttemptIdFacts DEF Rows, RowTypes
  <1> DEFINE arow == [att[a] EXCEPT !.worker = w, !.token = FreshToken]
             l == [attempt |-> a, token |-> FreshToken, handle |-> att[a].handle]
  <1>5. /\ attempt' = [att EXCEPT ![a] = arow]
        /\ task' = [tsk EXCEPT ![a[1]].token = FreshToken]
        /\ lease' = [lease EXCEPT ![w] = l]
    <2>1. att \in [AttemptIds -> AttemptRow]
      BY <1>1 DEF Rows, RowTypes
    <2> QED
      BY <1>2, <1>4, <2>1 DEF Recover
  <1>6. arow \in AttemptRow /\ arow.state \in LiveStates
    BY <1>3, <1>4 DEF AttemptRow
  <1>7. l \in Lease /\ l.token = FreshToken
    BY <1>3, <1>4 DEF AttemptRow, Lease
  <1>8. UNCHANGED <<run, clock, cancels, retries>>
    BY <1>2 DEF Recover, bounds
  <1> HIDE DEF arow, l
  <1>9. Rows(run, tsk, attempt')
    BY <1>1, <1>4, <1>5, <1>6, LiveRowInv
  <1>10. Rows(run, task', attempt')
    BY <1>3, <1>4, <1>5, <1>9, TaskTokenInv
  <1> QED
    BY <1>3, <1>5, <1>7, <1>8, <1>10, LeaseGranted DEF IInv

LEMMA ClaimReadyInv ==
    ASSUME IInv, NEW w \in Workers, NEW E, ClaimReady(w, E)
    PROVE  IInv'
  <1> DEFINE att == AttemptsAfterReset(E)
             tsk == TasksAfterReset(E)
  <1>1. Rows(run, tsk, att)
    BY ResetInv DEF IInv
  <1> HIDE DEF att, tsk
  <1>2. PICK t \in Ready(w, tsk) : Start(w, t, att, tsk)
    BY DEF ClaimReady, att, tsk
  <1>3. Tokens \ TokensInUse # {} /\ FreshToken \in Tokens
    BY FreshTokenFacts DEF ClaimReady
  <1>4. /\ t \in Tasks /\ tsk[t].attempt < MaxAttempts
        /\ tsk[t] \in TaskRow /\ run[t[1]] \in RunRow
        /\ run \in [Runs -> RunRow] /\ tsk \in [Tasks -> TaskRow]
    BY <1>1, <1>2, TaskFacts DEF Ready, Rows, RowTypes
  <1> DEFINE n == tsk[t].attempt + 1
             a == <<t, n>>
             trow == [tsk[t] EXCEPT !.state = "running", !.attempt = n,
                                    !.token = FreshToken]
             arow == [state |-> "leased", worker |-> w, token |-> FreshToken,
                      handle |-> NoHandle, startedAt |-> clock + 1]
             rrow == [run[t[1]] EXCEPT !.state = "running"]
             l == [attempt |-> a, token |-> FreshToken, handle |-> NoHandle]
  <1>5. n \in Numbers /\ n \in 0 .. MaxAttempts /\ a \in AttemptIds
    <2>1. tsk[t].attempt \in 0 .. MaxAttempts
      BY <1>4 DEF TaskRow
    <2>2. n \in Numbers /\ n \in 0 .. MaxAttempts
      BY <1>4, <2>1, ConstantFacts DEF Numbers
    <2> QED
      BY <1>4, <2>2, AttemptIdFacts
  <1>6. /\ attempt' = [att EXCEPT ![a] = arow]
        /\ task' = [tsk EXCEPT ![t] = trow]
        /\ run' = [run EXCEPT ![t[1]] = rrow]
        /\ lease' = [lease EXCEPT ![w] = l]
    BY <1>2, <1>4 DEF Start
  <1>7. clock' = clock + 1 /\ UNCHANGED <<cancels, retries>>
    BY <1>2 DEF Start, bounds
  <1>8. arow \in AttemptRow /\ arow.state \in LiveStates
    <2>1. clock + 1 \in Nat
      BY DEF IInv
    <2> QED
      BY <1>3, <2>1 DEF AttemptRow, LiveStates
  <1>9. l \in Lease /\ l.token = FreshToken
    BY <1>3, <1>5 DEF Lease
  <1>10. rrow \in RunRow /\ rrow.state = "running"
    BY <1>4 DEF RunRow, RunStates
  <1> HIDE DEF n, rrow, l, arow
  <1>11. trow \in TaskRow /\ trow.state = "running" /\ trow.attempt = n
    BY <1>3, <1>4, <1>5 DEF TaskRow, TaskStates
  <1> HIDE DEF trow
  <1>12. Rows(run', task', attempt')
    BY <1>1, <1>4, <1>6, <1>8, <1>10, <1>11, StartedRowsInv DEF n
  <1>13. lease' \in [Workers -> Lease \cup {NoLease}] /\ TokensApart'
    BY <1>3, <1>6, <1>9, LeaseGranted
  <1> QED
    BY <1>7, <1>12, <1>13 DEF IInv

LEMMA ClaimNothingInv ==
    ASSUME IInv, NEW w \in Workers, NEW E, ClaimNothing(w, E)
    PROVE  IInv'
  <1>1. Rows(run', task', attempt')
    BY ResetInv DEF IInv, ClaimNothing
  <1>2. UNCHANGED <<lease, clock, cancels, retries>>
    BY DEF ClaimNothing, bounds
  <1> QED
    BY <1>1, <1>2 DEF IInv, TokensApart
-----------------------------------------------------------------------------
(* The theorems.                                                           *)

LEMMA NextInv == IInv /\ [Next]_vars => IInv'
  <1> SUFFICES ASSUME IInv, [Next]_vars PROVE IInv'
    OBVIOUS
  <1>1. ASSUME NEW r \in Runs, SubmitRun(r) PROVE IInv'
    BY <1>1, SubmitRunInv
  <1>2. ASSUME NEW r \in Runs, CancelRun(r) PROVE IInv'
    BY <1>2, CancelRunInv
  <1>3. ASSUME NEW t \in Tasks, RetryTask(t) PROVE IInv'
    BY <1>3, RetryTaskInv
  <1>4. ASSUME NEW w \in Workers, NEW E \in SUBSET RecordedTokens,
               ClaimTask(w, E)
        PROVE  IInv'
    BY <1>4, ClaimRecoveredInv, ClaimReadyInv, ClaimNothingInv DEF ClaimTask
  <1>5. ASSUME NEW w \in Workers, MarkSubmitting(w) PROVE IInv'
    BY <1>5, MarkSubmittingInv
  <1>6. ASSUME NEW w \in Workers, NEW h \in Handles, NEW s \in TargetStates,
               RecordSubmission(w, h, s)
        PROVE  IInv'
    BY <1>6, RecordSubmissionInv
  <1>7. ASSUME NEW w \in Workers, NEW s \in TargetStates,
               RecordTargetStatus(w, s)
        PROVE  IInv'
    BY <1>7, RecordTargetStatusInv
  <1>8. ASSUME NEW w \in Workers, ReleaseLease(w) PROVE IInv'
    BY <1>8, ReleaseLeaseInv
  <1>9. ASSUME NEW w \in Workers, MarkAttemptCanceled(w) PROVE IInv'
    BY <1>9, MarkAttemptCanceledInv
  <1>10. ASSUME NEW w \in Workers, CompleteTask(w) PROVE IInv'
    BY <1>10, CompleteTaskInv
  <1>11. ASSUME NEW w \in Workers, FailTask(w) PROVE IInv'
    BY <1>11, FailTaskInv
  <1>12. ASSUME NEW w \in Workers, LoseProcess(w) PROVE IInv'
    BY <1>12, LoseProcessInv
  <1>13. CASE UNCHANGED vars
    <2>1. UNCHANGED <<run, task, attempt, lease, clock, cancels, retries>>
      BY <1>13 DEF vars
    <2> QED
      BY <2>1 DEF IInv, TokensApart
  <1> QED
    BY <1>1, <1>2, <1>3, <1>4, <1>5, <1>6, <1>7, <1>8, <1>9, <1>10, <1>11,
       <1>12, <1>13 DEF Next

\* The invariant that the safety theorems follow from holds throughout.
THEOREM Invariance == Spec => []IInv
  BY InitIInv, NextInv, PTL DEF Spec

\* The tables and the leases in memory are well typed.
THEOREM TypeCorrect == Spec => []TypeOK
  <1>1. IInv => TypeOK
    BY DEF IInv, Rows, RowTypes, TypeOK
  <1> QED
    BY <1>1, Invariance, PTL

\* Whatever leases expire and however late they are used, no two processes
\* can settle the same task: _complete and _fail ask for one token, which one
\* process knows.
THEOREM OneSettler == Spec => []ExclusiveSettlement
  <1>1. IInv => ExclusiveSettlement
    BY DEF IInv, TokensApart, ExclusiveSettlement, SettlesTask
  <1> QED
    BY <1>1, Invariance, PTL

\* A running task has a live attempt, its latest, so it can be recovered.
THEOREM RunningIsLive == Spec => []RunningTaskIsLive
  <1>1. IInv => RunningTaskIsLive
    BY DEF IInv, Rows, RunningHasLive, RunningTaskIsLive, Current
  <1> QED
    BY <1>1, Invariance, PTL

\* No task of a canceled run can be claimed or completed.
THEOREM CanceledStaysQuiet == Spec => []CanceledRunIsQuiet
  <1>1. IInv => CanceledRunIsQuiet
    BY DEF IInv, Rows, CanceledQuiet, CanceledRunIsQuiet
  <1> QED
    BY <1>1, Invariance, PTL

\* Every result on record is that of an attempt on record as succeeded.
THEOREM ResultsCredited == Spec => []ResultsAreCredited
  <1>1. IInv => ResultsAreCredited
    BY DEF IInv, Rows, Credited, ResultsAreCredited
  <1> QED
    BY <1>1, Invariance, PTL

\* What a succeeded run published stays what its tasks have.
THEOREM OutputsStayPublished == Spec => []PublishedOutputs
  <1>1. IInv => PublishedOutputs
    BY DEF IInv, Rows, Published, PublishedOutputs
  <1> QED
    BY <1>1, Invariance, PTL
-----------------------------------------------------------------------------
(* History: no step changes a settled attempt.                             *)

Unchanged(a) == attempt'[a] = attempt[a]

\* An operation that writes the attempt of a lease leaves settled ones alone.
LEMMA HeldWrite ==
    ASSUME IInv, NEW w \in Workers, lease[w] # NoLease,
           attempt[lease[w].attempt].token = lease[w].token, NEW row,
           attempt' = [attempt EXCEPT ![lease[w].attempt] = row],
           NEW a \in AttemptIds, attempt[a].state \in SettledStates
    PROVE  Unchanged(a)
  <1>1. attempt[lease[w].attempt].state \in LiveStates
    BY HeldIsLive
  <1>2. a # lease[w].attempt
    BY <1>1 DEF LiveStates, SettledStates
  <1>3. attempt \in [AttemptIds -> AttemptRow]
    BY DEF IInv, Rows, RowTypes
  <1> QED
    BY <1>2, <1>3 DEF Unchanged

LEMMA ClaimHistory ==
    ASSUME IInv, NEW w \in Workers, NEW E, ClaimTask(w, E),
           NEW a \in AttemptIds, attempt[a].state \in SettledStates
    PROVE  Unchanged(a)
  <1> DEFINE att == AttemptsAfterReset(E)
             tsk == TasksAfterReset(E)
  <1>1. Rows(run, tsk, att) /\ Rows(run, task, attempt)
    BY ResetInv DEF IInv
  <1>2. att[a] = attempt[a]
    BY <1>1, ResetAttempt DEF LiveStates, SettledStates
  <1>3. att \in [AttemptIds -> AttemptRow] /\ tsk \in [Tasks -> TaskRow]
    BY <1>1 DEF Rows, RowTypes
  <1> HIDE DEF att, tsk
  <1>4. CASE ClaimRecovered(w, E)
    <2>1. PICK b \in Recoverable(w, att) : Recover(w, b, att, tsk)
      BY <1>4 DEF ClaimRecovered, att, tsk
    <2>2. b # a /\ b \in AttemptIds
      BY <1>2, <2>1 DEF Recoverable, SettledStates
    <2>3. attempt' = [att EXCEPT ![b].worker = w, ![b].token = FreshToken]
      BY <2>1 DEF Recover
    <2> QED
      BY <1>2, <1>3, <2>2, <2>3 DEF Unchanged
  <1>5. CASE ClaimReady(w, E)
    <2>1. PICK t \in Ready(w, tsk) : Start(w, t, att, tsk)
      BY <1>5 DEF ClaimReady, att, tsk
    <2> DEFINE b == <<t, tsk[t].attempt + 1>>
    <2>2. t \in Tasks /\ tsk[t] \in TaskRow /\ tsk[t].attempt < MaxAttempts
      BY <1>3, <2>1 DEF Ready
    <2>3. /\ tsk[t].attempt + 1 \in Numbers
          /\ tsk[t].attempt + 1 > tsk[t].attempt
      <3>1. tsk[t].attempt \in 0 .. MaxAttempts
        BY <2>2 DEF TaskRow
      <3> QED
        BY <2>2, <3>1, ConstantFacts DEF Numbers
    <2>4. att[b].state = "none"
      BY <1>1, <2>2, <2>3 DEF Rows, NumberedInOrder
    <2>5. b # a
      BY <1>2, <2>4 DEF SettledStates
    <2>6. \E row : attempt' = [att EXCEPT ![b] = row]
      BY <2>1 DEF Start
    <2> HIDE DEF b
    <2> QED
      BY <1>2, <1>3, <2>5, <2>6 DEF Unchanged
  <1>6. CASE ClaimNothing(w, E)
    BY <1>2, <1>6 DEF ClaimNothing, Unchanged, att
  <1> QED
    BY <1>4, <1>5, <1>6 DEF ClaimTask

LEMMA StepKeepsHistory ==
    ASSUME IInv, [Next]_vars,
           NEW a \in AttemptIds, attempt[a].state \in SettledStates
    PROVE  Unchanged(a)
  <1>0. attempt \in [AttemptIds -> AttemptRow]
    BY DEF IInv, Rows, RowTypes
  <1>1. ASSUME NEW r \in Runs, CancelRun(r) PROVE Unchanged(a)
    <2>1. attempt'[a] \in {attempt[a], CanceledAttempt(attempt[a])}
      BY <1>1 DEF CancelRun
    <2>2. attempt[a].state \notin LiveStates
      BY DEF LiveStates, SettledStates
    <2> QED
      BY <1>0, <2>1, <2>2, CanceledAttemptFacts DEF Unchanged
  <1>2. ASSUME NEW w \in Workers, MarkSubmitting(w) PROVE Unchanged(a)
    <2>1. \E row : attempt' = [attempt EXCEPT ![lease[w].attempt] = row]
      BY <1>2 DEF MarkSubmitting
    <2> QED
      BY <1>2, <2>1, HeldWrite DEF MarkSubmitting, HoldsLease
  <1>3. ASSUME NEW w \in Workers, NEW h \in Handles, NEW s \in TargetStates,
               RecordSubmission(w, h, s)
        PROVE  Unchanged(a)
    <2>1. a # lease[w].attempt
      BY <1>3, HeldIsLive
         DEF RecordSubmission, HoldsLease, LiveStates, SettledStates
    <2> QED
      BY <1>0, <1>3, <2>1 DEF RecordSubmission, Unchanged
  <1>4. ASSUME NEW w \in Workers, NEW s \in TargetStates,
               RecordTargetStatus(w, s)
        PROVE  Unchanged(a)
    <2>1. \E row : attempt' = [attempt EXCEPT ![lease[w].attempt] = row]
      BY <1>4 DEF RecordTargetStatus
    <2> QED
      BY <1>4, <2>1, HeldWrite DEF RecordTargetStatus, HoldsLease
  <1>5. ASSUME NEW w \in Workers, ReleaseLease(w) PROVE Unchanged(a)
    <2>1. \E row : attempt' = [attempt EXCEPT ![lease[w].attempt] = row]
      BY <1>5 DEF ReleaseLease
    <2> QED
      BY <1>5, <2>1, HeldWrite DEF ReleaseLease, HoldsLease
  <1>6. ASSUME NEW w \in Workers, MarkAttemptCanceled(w) PROVE Unchanged(a)
    <2>1. \E row : attempt' = [attempt EXCEPT ![lease[w].attempt] = row]
      BY <1>6 DEF MarkAttemptCanceled
    <2> QED
      BY <1>6, <2>1, HeldWrite DEF MarkAttemptCanceled, HoldsLease
  <1>7. ASSUME NEW w \in Workers, CompleteTask(w) PROVE Unchanged(a)
    <2>1. CASE attempt' = attempt
      BY <2>1 DEF Unchanged
    <2>2. CASE /\ SettlesTask(w)
               /\ \E row : attempt' = [attempt EXCEPT ![lease[w].attempt] = row]
      BY <1>7, <2>2, HeldWrite DEF CompleteTask, SettlesTask
    <2> QED
      BY <1>7, <2>1, <2>2 DEF CompleteTask
  <1>8. ASSUME NEW w \in Workers, FailTask(w) PROVE Unchanged(a)
    <2>1. CASE attempt' = attempt
      BY <2>1 DEF Unchanged
    <2>2. CASE /\ SettlesTask(w)
               /\ \E row : attempt' = [attempt EXCEPT ![lease[w].attempt] = row]
      BY <1>8, <2>2, HeldWrite DEF FailTask, SettlesTask
    <2> QED
      BY <1>8, <2>1, <2>2 DEF FailTask
  <1>9. ASSUME \/ \E r \in Runs : SubmitRun(r)
               \/ \E t \in Tasks : RetryTask(t)
               \/ \E w \in Workers : LoseProcess(w)
               \/ UNCHANGED vars
        PROVE  Unchanged(a)
    BY <1>9 DEF SubmitRun, RetryTask, LoseProcess, vars, Unchanged
  <1> QED
    BY <1>1, <1>2, <1>3, <1>4, <1>5, <1>6, <1>7, <1>8, <1>9, ClaimHistory
       DEF Next

\* docs/worker.md:54: recovery does not rewrite prior attempt history.  No
\* operation, however late its caller, changes a settled attempt.
THEOREM HistoryIsKept == Spec => HistoryKept
  <1>1. IInv /\ [Next]_vars =>
          [\A a \in AttemptIds :
             attempt[a].state \in SettledStates => attempt'[a] = attempt[a]]_vars
    BY StepKeepsHistory DEF Unchanged
  <1> QED
    BY <1>1, Invariance, PTL DEF Spec, HistoryKept
=============================================================================
