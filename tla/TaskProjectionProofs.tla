------------------------ MODULE TaskProjectionProofs ------------------------
(***************************************************************************)
(* Proofs about WorkflowEngine when no task is retried: the task row is a  *)
(* projection of the latest attempt, results are final, and a run that     *)
(* succeeded is complete.  With retries none of the three holds: an        *)
(* attempt that a retry left behind may be recovered and marked canceled   *)
(* behind a task that succeeded meanwhile.                                 *)
(***************************************************************************)
EXTENDS WorkflowEngineProofs

-----------------------------------------------------------------------------
(* The inductive invariant, over values of the tables like Rows.           *)

\* The states u of a task row that project state s of its latest attempt.
Mirrors(u, s) ==
    /\ u = "pending" => s = "abandoned"
    /\ u = "running" => s \in LiveStates \ {"cancel_requested"}
    /\ u = "canceled" => s \in LiveStates \cup {"canceled", "abandoned"}
    /\ u \notin {"pending", "running", "canceled"} => s = u

\* The row of task t fits the attempts of t, in a run of state s: the older
\* attempts were abandoned, and a token on the task row is the token on the
\* latest attempt.  A canceled task has a live attempt only in a canceled
\* run, whose expired leases never make a task pending.
Line(t, s, row, att) ==
    /\ \A k \in Numbers : k < row.attempt => att[<<t, k>>].state = "abandoned"
    /\ s = "none" => row.state = "none"
    /\ row.state = "none" => row.attempt = 0
    /\ row.attempt = 0 =>
          /\ row.state \in {"none", "pending", "canceled"}
          /\ row.token = NoToken
    /\ row.attempt > 0 =>
          LET latest == att[<<t, row.attempt>>] IN
          /\ Mirrors(row.state, latest.state)
          /\ row.token \in {NoToken, latest.token}
          /\ row.state = "canceled" /\ latest.state \in LiveStates
               => s = "canceled"

Lines(rn, tsk, att) == \A t \in Tasks : Line(t, rn[t[1]].state, tsk[t], att)

\* The parents of a task that has started have succeeded.
ParentsDone(tsk) ==
    \A t \in Tasks :
        tsk[t].attempt > 0 =>
            \A p \in Parents[t[2]] : tsk[<<t[1], p>>].state = "succeeded"

\* The tasks of a run that succeeded have succeeded.
RunsComplete(rn, tsk) ==
    \A t \in Tasks :
        rn[t[1]].state = "succeeded" => tsk[t].state = "succeeded"

Projected(rn, tsk, att) ==
    /\ Lines(rn, tsk, att)
    /\ ParentsDone(tsk)
    /\ RunsComplete(rn, tsk)

PInv == IInv /\ Projected(run, task, attempt)

LEMMA InitPInv == Init => PInv
  <1> SUFFICES ASSUME Init PROVE Projected(run, task, attempt)
    BY InitIInv DEF PInv
  <1>1. \A t \in Tasks : Line(t, run[t[1]].state, task[t], attempt)
    BY TaskFacts DEF Init, Line, Numbers
  <1>2. ParentsDone(task)
    BY DEF Init, ParentsDone
  <1>3. RunsComplete(run, task)
    BY TaskFacts DEF Init, RunsComplete
  <1> QED
    BY <1>1, <1>2, <1>3 DEF Projected, Lines

-----------------------------------------------------------------------------
(* Facts about one line.                                                   *)

\* The only live attempt of a task is the latest.
LEMMA LiveIsLatest ==
    ASSUME NEW rn, NEW tsk, NEW att, Rows(rn, tsk, att), Lines(rn, tsk, att),
           NEW a \in AttemptIds, att[a].state \in LiveStates
    PROVE  /\ a[2] = tsk[a[1]].attempt /\ tsk[a[1]].attempt > 0
           /\ a = <<a[1], tsk[a[1]].attempt>>
  <1> USE AttemptIdFacts
  <1>1. a[2] \in 1 .. tsk[a[1]].attempt /\ a[1] \in Tasks
    BY LiveIsNumbered
  <1>2. tsk[a[1]].attempt \in Nat
    BY <1>1 DEF Rows, RowTypes, TaskRow
  <1>3. ~(a[2] < tsk[a[1]].attempt)
    <2>1. Line(a[1], rn[a[1][1]].state, tsk[a[1]], att)
      BY <1>1 DEF Lines
    <2>2. att[<<a[1], a[2]>>].state # "abandoned"
      BY DEF LiveStates
    <2> QED
      BY <2>1, <2>2 DEF Line
  <1> QED
    BY <1>1, <1>2, <1>3

\* A line looks at the attempts of its own task only.
LEMMA LineOfOwnAttempts ==
    ASSUME NEW t \in Tasks, NEW s, NEW row \in TaskRow, NEW att, NEW natt,
           Line(t, s, row, att),
           \A k \in Numbers : natt[<<t, k>>] = att[<<t, k>>]
    PROVE  Line(t, s, row, natt)
  <1>1. row.attempt > 0 => row.attempt \in Numbers
    BY ConstantFacts DEF TaskRow, Numbers
  <1> QED
    BY <1>1 DEF Line

\* A run that is not canceled may change state.
LEMMA LineOfOpenRun ==
    ASSUME NEW t, NEW s, NEW s2, NEW row, NEW att, Line(t, s, row, att),
           s # "canceled" \/ s2 = "canceled", s2 # "none"
    PROVE  Line(t, s2, row, att)
  BY DEF Line

\* A task that succeeded has no live attempt.
LEMMA SucceededIsSettled ==
    ASSUME NEW rn, NEW tsk, NEW att, Rows(rn, tsk, att), Lines(rn, tsk, att),
           NEW a \in AttemptIds, att[a].state \in LiveStates
    PROVE  tsk[a[1]].state # "succeeded"
  <1>1. a[1] \in Tasks
    BY AttemptIdFacts
  <1>2. Line(a[1], rn[a[1][1]].state, tsk[a[1]], att)
    BY <1>1 DEF Lines
  <1>3. a = <<a[1], tsk[a[1]].attempt>> /\ tsk[a[1]].attempt > 0
    BY LiveIsLatest
  <1>4. Mirrors(tsk[a[1]].state, att[a].state)
    BY <1>2, <1>3 DEF Line
  <1> QED
    BY <1>4 DEF Mirrors, LiveStates

-----------------------------------------------------------------------------
(* Changes of rows that keep the projection.                               *)

\* The lines after the row of task t and an attempt of t were written.
LEMMA OneLineChanged ==
    ASSUME NEW rn, NEW tsk, NEW att, RowTypes(rn, tsk, att),
           Lines(rn, tsk, att),
           NEW a \in AttemptIds, NEW trow, NEW arow,
           Line(a[1], rn[a[1][1]].state, trow, [att EXCEPT ![a] = arow])
    PROVE  Lines(rn, [tsk EXCEPT ![a[1]] = trow], [att EXCEPT ![a] = arow])
  <1> DEFINE t == a[1]
             ntsk == [tsk EXCEPT ![t] = trow]
             natt == [att EXCEPT ![a] = arow]
  <1> USE AttemptIdFacts
  <1>1. /\ \A b \in AttemptIds : b # a => natt[b] = att[b]
        /\ \A u \in Tasks : ntsk[u] = IF u = t THEN trow ELSE tsk[u]
    BY DEF RowTypes
  <1> SUFFICES ASSUME NEW u \in Tasks
               PROVE  Line(u, rn[u[1]].state, ntsk[u], natt)
    BY DEF Lines
  <1>2. CASE u = t
    BY <1>1, <1>2
  <1>3. CASE u # t
    <2>1. \A k \in Numbers : natt[<<u, k>>] = att[<<u, k>>]
      BY <1>1, <1>3
    <2>2. ntsk[u] = tsk[u] /\ tsk[u] \in TaskRow
      BY <1>1, <1>3 DEF RowTypes
    <2>3. Line(u, rn[u[1]].state, tsk[u], att)
      BY DEF Lines
    <2> HIDE DEF natt, ntsk
    <2> QED
      BY <2>1, <2>2, <2>3, LineOfOwnAttempts
  <1> QED
    BY <1>2, <1>3

\* A task that has not succeeded may be written without its children and its
\* run noticing.
LEMMA OpenTaskChanged ==
    ASSUME NEW rn, NEW tsk, NEW att, RowTypes(rn, tsk, att),
           ParentsDone(tsk), RunsComplete(rn, tsk),
           NEW t \in Tasks, tsk[t].state # "succeeded",
           NEW trow, trow.attempt > 0 => tsk[t].attempt > 0
    PROVE  /\ ParentsDone([tsk EXCEPT ![t] = trow])
           /\ RunsComplete(rn, [tsk EXCEPT ![t] = trow])
  <1> DEFINE ntsk == [tsk EXCEPT ![t] = trow]
  <1>1. \A u \in Tasks : ntsk[u] = IF u = t THEN trow ELSE tsk[u]
    BY DEF RowTypes
  <1> HIDE DEF ntsk
  <1>2. RunsComplete(rn, ntsk)
    BY <1>1 DEF RunsComplete
  <1>3. ParentsDone(ntsk)
    <2> SUFFICES ASSUME NEW u \in Tasks, ntsk[u].attempt > 0,
                        NEW p \in Parents[u[2]]
                 PROVE  ntsk[<<u[1], p>>].state = "succeeded"
      BY DEF ParentsDone
    <2>1. tsk[<<u[1], p>>].state = "succeeded"
      BY <1>1 DEF ParentsDone
    <2>2. <<u[1], p>> \in Tasks
      BY TaskFacts, EngineAssumption
    <2> QED
      BY <1>1, <2>1, <2>2
  <1> QED
    BY <1>2, <1>3 DEF ntsk

\* A live attempt may move to another live state, except that no cancellation
\* is requested; its lease and that of its task may be cleared or granted.
LEMMA LiveRowProjected ==
    ASSUME NEW rn, NEW tsk, NEW att, Rows(rn, tsk, att),
           Projected(rn, tsk, att),
           NEW a \in AttemptIds, att[a].state \in LiveStates,
           NEW row, row.state \in LiveStates,
           row.state = "cancel_requested" => att[a].state = "cancel_requested",
           NEW k \in {NoToken, row.token}
    PROVE  Projected(rn, [tsk EXCEPT ![a[1]].token = k], [att EXCEPT ![a] = row])
  <1> DEFINE t == a[1]
             trow == [tsk[t] EXCEPT !.token = k]
             natt == [att EXCEPT ![a] = row]
  <1> USE AttemptIdFacts
  <1>1. /\ tsk[t] \in TaskRow /\ t \in Tasks
        /\ RowTypes(rn, tsk, att) /\ Lines(rn, tsk, att)
    BY DEF Rows, RowTypes, Projected
  <1>2. /\ trow.state = tsk[t].state /\ trow.attempt = tsk[t].attempt
        /\ trow.token = k
    BY <1>1 DEF TaskRow
  <1>3. a = <<t, tsk[t].attempt>> /\ tsk[t].attempt > 0
    BY <1>1, LiveIsLatest
  <1>4. natt[a] = row /\ \A b \in AttemptIds : b # a => natt[b] = att[b]
    BY <1>1 DEF RowTypes
  <1>5. [tsk EXCEPT ![t].token = k] = [tsk EXCEPT ![t] = trow]
    BY <1>1
  <1> HIDE DEF natt, trow
  <1>6. Line(t, rn[t[1]].state, trow, natt)
    <2>1. Line(t, rn[t[1]].state, tsk[t], att)
      BY <1>1 DEF Lines
    <2>2. \A j \in Numbers :
             j < tsk[t].attempt => natt[<<t, j>>].state = "abandoned"
      <3> SUFFICES ASSUME NEW j \in Numbers, j < tsk[t].attempt
                   PROVE  natt[<<t, j>>].state = "abandoned"
        OBVIOUS
      <3>1. tsk[t].attempt \in Nat /\ j \in Nat
        BY <1>1, ConstantFacts DEF TaskRow, Numbers
      <3>2. <<t, j>> # a
        BY <1>3, <3>1
      <3> QED
        BY <1>4, <2>1, <3>2 DEF Line
    <2>3. Mirrors(tsk[t].state, att[a].state)
      BY <1>3, <2>1 DEF Line
    <2>4. Mirrors(tsk[t].state, row.state)
      BY <1>1, <2>3 DEF Mirrors, LiveStates, TaskRow, TaskStates
    <2>5. /\ rn[t[1]].state = "none" => tsk[t].state = "none"
          /\ tsk[t].state # "none"
          /\ tsk[t].state = "canceled" => rn[t[1]].state = "canceled"
      BY <1>3, <2>1 DEF Line
    <2>6. natt[<<t, trow.attempt>>] = row /\ trow.attempt # 0
      BY <1>2, <1>3, <1>4
    <2> QED
      BY <1>2, <2>2, <2>4, <2>5, <2>6 DEF Line
  <1>7. Lines(rn, [tsk EXCEPT ![t] = trow], natt)
    BY <1>1, <1>6, OneLineChanged DEF natt
  <1>8. tsk[t].state # "succeeded"
    BY <1>1, SucceededIsSettled
  <1>9. /\ ParentsDone([tsk EXCEPT ![t] = trow])
        /\ RunsComplete(rn, [tsk EXCEPT ![t] = trow])
    BY <1>1, <1>2, <1>8, OpenTaskChanged DEF Projected
  <1> QED
    BY <1>5, <1>7, <1>9 DEF Projected, natt

\* A live attempt may be settled together with its task.
LEMMA SettledRowProjected ==
    ASSUME NEW rn, NEW tsk, NEW att, Rows(rn, tsk, att),
           Projected(rn, tsk, att),
           NEW a \in AttemptIds, att[a].state \in LiveStates,
           NEW trow, trow.attempt = tsk[a[1]].attempt, trow.token = NoToken,
           trow.state \in {"succeeded", "failed", "canceled"},
           NEW arow, arow.state = trow.state
    PROVE  Projected(rn, [tsk EXCEPT ![a[1]] = trow], [att EXCEPT ![a] = arow])
  <1> DEFINE t == a[1]
             natt == [att EXCEPT ![a] = arow]
  <1> USE AttemptIdFacts
  <1>1. /\ tsk[t] \in TaskRow /\ t \in Tasks
        /\ RowTypes(rn, tsk, att) /\ Lines(rn, tsk, att)
    BY DEF Rows, RowTypes, Projected
  <1>2. a = <<t, tsk[t].attempt>> /\ tsk[t].attempt > 0
    BY <1>1, LiveIsLatest
  <1>3. natt[a] = arow /\ \A b \in AttemptIds : b # a => natt[b] = att[b]
    BY <1>1 DEF RowTypes
  <1> HIDE DEF natt
  <1>4. Line(t, rn[t[1]].state, trow, natt)
    <2>1. Line(t, rn[t[1]].state, tsk[t], att)
      BY <1>1 DEF Lines
    <2>2. \A j \in Numbers :
             j < tsk[t].attempt => natt[<<t, j>>].state = "abandoned"
      <3> SUFFICES ASSUME NEW j \in Numbers, j < tsk[t].attempt
                   PROVE  natt[<<t, j>>].state = "abandoned"
        OBVIOUS
      <3>1. tsk[t].attempt \in Nat /\ j \in Nat
        BY <1>1, ConstantFacts DEF TaskRow, Numbers
      <3>2. <<t, j>> # a
        BY <1>2, <3>1
      <3> QED
        BY <1>3, <2>1, <3>2 DEF Line
    <2>3. Mirrors(trow.state, arow.state)
      BY DEF Mirrors
    <2>4. rn[t[1]].state # "none"
      BY <1>2, <2>1 DEF Line
    <2> QED
      BY <1>2, <1>3, <2>2, <2>3, <2>4 DEF Line, LiveStates
  <1>5. Lines(rn, [tsk EXCEPT ![t] = trow], natt)
    BY <1>1, <1>4, OneLineChanged DEF natt
  <1>6. tsk[t].state # "succeeded"
    BY <1>1, SucceededIsSettled
  <1>7. /\ ParentsDone([tsk EXCEPT ![t] = trow])
        /\ RunsComplete(rn, [tsk EXCEPT ![t] = trow])
    BY <1>1, <1>6, OpenTaskChanged DEF Projected
  <1> QED
    BY <1>5, <1>7 DEF Projected, natt

-----------------------------------------------------------------------------
(* The operations keep the projection.                                     *)

LEMMA SubmitRunProjected ==
    ASSUME PInv, NEW r \in Runs, SubmitRun(r)
    PROVE  Projected(run', task', attempt')
  <1> USE TaskFacts
  <1>1. /\ run \in [Runs -> RunRow] /\ task \in [Tasks -> TaskRow]
        /\ Projected(run, task, attempt)
    BY DEF PInv, IInv, Rows, RowTypes
  <1>2. /\ \A q \in Runs : run'[q].state = IF q = r THEN "queued"
                                           ELSE run[q].state
        /\ run[r].state = "none" /\ attempt' = attempt
    BY <1>1 DEF SubmitRun, RunRow
  <1>3. \A t \in Tasks :
           /\ task'[t].attempt = task[t].attempt
           /\ task'[t].token = task[t].token
           /\ task'[t].state = IF t[1] = r THEN "pending" ELSE task[t].state
    BY <1>1 DEF SubmitRun, TaskRow
  <1>4. \A t \in Tasks : Line(t, run[t[1]].state, task[t], attempt)
    BY <1>1 DEF Projected, Lines
  <1>5. \A t \in Tasks : t[1] = r => task[t].attempt = 0
    BY <1>2, <1>4 DEF Line
  <1>6. Lines(run', task', attempt')
    <2> SUFFICES ASSUME NEW t \in Tasks
                 PROVE  Line(t, run'[t[1]].state, task'[t], attempt)
      BY <1>2 DEF Lines
    <2>1. CASE t[1] = r
      <3>1. /\ run'[t[1]].state = "queued" /\ task'[t].state = "pending"
            /\ task'[t].attempt = 0 /\ task'[t].token = NoToken
        <4>1. Line(t, run[t[1]].state, task[t], attempt) /\ task[t].attempt = 0
          BY <1>4, <1>5, <2>1
        <4>2. task[t].token = NoToken
          BY <4>1 DEF Line
        <4> QED
          BY <1>2, <1>3, <2>1, <4>1, <4>2
      <3> QED
        BY <3>1 DEF Line, Numbers
    <2>2. CASE t[1] # r
      <3>1. Line(t, run[t[1]].state, task[t], attempt)
        BY <1>4
      <3>2. /\ run'[t[1]].state = run[t[1]].state
            /\ task'[t].state = task[t].state
            /\ task'[t].attempt = task[t].attempt
            /\ task'[t].token = task[t].token
        BY <1>2, <1>3, <2>2
      <3> QED
        BY <3>1, <3>2 DEF Line
    <2> QED
      BY <2>1, <2>2
  <1>7. ParentsDone(task')
    <2> SUFFICES ASSUME NEW t \in Tasks, task'[t].attempt > 0,
                        NEW p \in Parents[t[2]]
                 PROVE  task'[<<t[1], p>>].state = "succeeded"
      BY DEF ParentsDone
    <2>1. <<t[1], p>> \in Tasks
      BY EngineAssumption
    <2>2. t[1] # r /\ task[<<t[1], p>>].state = "succeeded"
      BY <1>1, <1>3, <1>5 DEF Projected, ParentsDone
    <2> QED
      BY <1>3, <2>1, <2>2
  <1>8. RunsComplete(run', task')
    BY <1>1, <1>2, <1>3 DEF Projected, RunsComplete
  <1> QED
    BY <1>6, <1>7, <1>8 DEF Projected

LEMMA CancelRunProjected ==
    ASSUME PInv, NEW r \in Runs, CancelRun(r)
    PROVE  Projected(run', task', attempt')
  <1> USE TaskFacts, AttemptIdFacts
  <1>1. /\ run \in [Runs -> RunRow] /\ task \in [Tasks -> TaskRow]
        /\ attempt \in [AttemptIds -> AttemptRow]
        /\ Projected(run, task, attempt) /\ OnlyLiveLeased(attempt)
    BY DEF PInv, IInv, Rows, RowTypes
  <1>2. /\ \A q \in Runs : run'[q].state = IF q = r THEN "canceled"
                                           ELSE run[q].state
        /\ run[r].state \in {"queued", "running"}
    <2>1. /\ run' = [run EXCEPT ![r].state = "canceled"]
          /\ run[r].state \in {"queued", "running"}
      BY DEF CancelRun
    <2> QED
      BY <1>1, <2>1 DEF RunRow
  <1>3. \A t \in Tasks :
           /\ task'[t].attempt = task[t].attempt
           /\ IF t[1] = r /\ task[t].state \in {"pending", "running"}
              THEN task'[t].state = "canceled" /\ task'[t].token = NoToken
              ELSE task'[t] = task[t]
    <2> TAKE t \in Tasks
    <2>1. task[t] \in TaskRow
      BY <1>1
    <2>2. task'[t] = IF t[1] = r /\ task[t].state \in {"pending", "running"}
                     THEN [task[t] EXCEPT !.state = "canceled",
                                          !.token = NoToken]
                     ELSE task[t]
      BY DEF CancelRun
    <2> QED
      BY <2>1, <2>2 DEF TaskRow
  <1>4. \A a \in AttemptIds :
           IF a[1][1] = r THEN attempt'[a] = CanceledAttempt(attempt[a])
                          ELSE attempt'[a] = attempt[a]
    BY DEF CancelRun
  <1>5. \A t \in Tasks : Line(t, run[t[1]].state, task[t], attempt)
    BY <1>1 DEF Projected, Lines
  <1>6. Lines(run', task', attempt')
    <2> SUFFICES ASSUME NEW t \in Tasks
                 PROVE  Line(t, run'[t[1]].state, task'[t], attempt')
      BY DEF Lines
    <2>1. CASE t[1] # r
      <3>1. \A k \in Numbers : attempt'[<<t, k>>] = attempt[<<t, k>>]
        BY <1>4, <2>1
      <3>2. Line(t, run[t[1]].state, task[t], attempt')
        BY <1>1, <1>5, <3>1, LineOfOwnAttempts
      <3> QED
        BY <1>2, <1>3, <2>1, <3>2
    <2>2. CASE t[1] = r
      <3>1. \A k \in Numbers :
               attempt[<<t, k>>].state \notin LiveStates =>
                   attempt'[<<t, k>>] = attempt[<<t, k>>]
        <4> TAKE k \in Numbers
        <4>1. <<t, k>> \in AttemptIds /\ attempt[<<t, k>>] \in AttemptRow
          BY <1>1
        <4>2. \/ attempt'[<<t, k>>] = attempt[<<t, k>>]
              \/ attempt'[<<t, k>>] = CanceledAttempt(attempt[<<t, k>>])
          BY <1>4, <4>1
        <4> QED
          BY <4>1, <4>2, CanceledAttemptFacts
      <3>2. \A k \in Numbers : k < task'[t].attempt =>
               attempt'[<<t, k>>].state = "abandoned"
        <4> TAKE k \in Numbers
        <4>1. Line(t, run[t[1]].state, task[t], attempt)
          BY <1>5
        <4>2. task'[t].attempt = task[t].attempt
          BY <1>3
        <4>3. k < task[t].attempt => attempt[<<t, k>>].state = "abandoned"
          BY <4>1 DEF Line
        <4> QED
          BY <3>1, <4>2, <4>3 DEF LiveStates
      <3>3. run[t[1]].state # "canceled" /\ run'[t[1]].state = "canceled"
        BY <1>2, <2>2
      <3>4. task'[t].state = "none" => task'[t].attempt = 0
        BY <1>3, <1>5, ZenonT(30) DEF Line
      <3>5. task'[t].attempt = 0 =>
               /\ task'[t].state \in {"none", "pending", "canceled"}
               /\ task'[t].token = NoToken
        BY <1>3, <1>5, ZenonT(30) DEF Line
      <3>6. ASSUME task'[t].attempt > 0
            PROVE  LET latest == attempt'[<<t, task'[t].attempt>>] IN
                   /\ Mirrors(task'[t].state, latest.state)
                   /\ task'[t].token \in {NoToken, latest.token}
        <4> DEFINE b == <<t, task[t].attempt>>
        <4>1. b \in AttemptIds /\ task[t].attempt > 0
          BY <1>1, <1>3, <3>6, ConstantFacts DEF TaskRow, Numbers
        <4>2. /\ Mirrors(task[t].state, attempt[b].state)
              /\ task[t].token \in {NoToken, attempt[b].token}
              /\ task[t].state = "canceled" => attempt[b].state \notin LiveStates
          BY <1>5, <3>3, <4>1 DEF Line
        <4>3. /\ attempt[b].state \in LiveStates =>
                    attempt'[b].state \in LiveStates
              /\ attempt[b].state \notin LiveStates => attempt'[b] = attempt[b]
          BY <1>1, <1>4, <4>1, CanceledAttemptFacts
        <4>4. task[t] \in TaskRow
          BY <1>1
        <4>5. Mirrors(task'[t].state, attempt'[b].state)
          BY <1>3, <2>2, <4>2, <4>3, <4>4 DEF Mirrors, LiveStates, TaskRow,
             TaskStates
        <4>6. task'[t].token \in {NoToken, attempt'[b].token}
          <5>1. CASE attempt[b].state \in LiveStates
            <6>1. task[t].state \in {"pending", "running"}
              BY <4>2, <4>4, <5>1 DEF Mirrors, LiveStates, TaskRow, TaskStates
            <6> QED
              BY <1>3, <2>2, <6>1
          <5>2. CASE attempt[b].state \notin LiveStates
            BY <1>3, <4>2, <4>3, <5>2
          <5> QED
            BY <5>1, <5>2
        <4> QED
          BY <1>3, <4>5, <4>6
      <3> QED
        BY <3>2, <3>3, <3>4, <3>5, <3>6 DEF Line
    <2> QED
      BY <2>1, <2>2
  <1>7. ParentsDone(task')
    <2> SUFFICES ASSUME NEW t \in Tasks, task'[t].attempt > 0,
                        NEW p \in Parents[t[2]]
                 PROVE  task'[<<t[1], p>>].state = "succeeded"
      BY DEF ParentsDone
    <2>1. <<t[1], p>> \in Tasks
      BY EngineAssumption
    <2>2. task[<<t[1], p>>].state = "succeeded"
      BY <1>1, <1>3 DEF Projected, ParentsDone
    <2> QED
      BY <1>3, <2>1, <2>2
  <1>8. RunsComplete(run', task')
    BY <1>1, <1>2, <1>3 DEF Projected, RunsComplete
  <1> QED
    BY <1>6, <1>7, <1>8 DEF Projected

\* The operations that only move a live attempt between live states.
LEMMA LiveWriteProjected ==
    ASSUME PInv, NEW a \in AttemptIds, attempt[a].state \in LiveStates,
           NEW row, row.state \in LiveStates, row.token = attempt[a].token,
           row.state = "cancel_requested" =>
               attempt[a].state = "cancel_requested"
    PROVE  Projected(run, task, [attempt EXCEPT ![a] = row])
  <1> DEFINE t == a[1]
  <1>1. /\ task \in [Tasks -> TaskRow] /\ t \in Tasks
        /\ Rows(run, task, attempt) /\ Projected(run, task, attempt)
    BY AttemptIdFacts DEF PInv, IInv, Rows, RowTypes
  <1>2. task[t].token \in {NoToken, row.token}
    <2>1. Line(t, run[t[1]].state, task[t], attempt)
      BY <1>1 DEF Projected, Lines
    <2>2. a = <<t, task[t].attempt>> /\ task[t].attempt > 0
      BY <1>1, LiveIsLatest DEF Projected
    <2> QED
      BY <2>1, <2>2 DEF Line
  <1>3. [task EXCEPT ![t].token = task[t].token] = task
    BY <1>1 DEF TaskRow
  <1>4. Projected(run, [task EXCEPT ![t].token = task[t].token],
                  [attempt EXCEPT ![a] = row])
    BY <1>1, <1>2, LiveRowProjected
  <1> QED
    BY <1>3, <1>4

LEMMA MarkSubmittingProjected ==
    ASSUME PInv, NEW w \in Workers, MarkSubmitting(w)
    PROVE  Projected(run', task', attempt')
  <1> DEFINE a == lease[w].attempt
             row == [attempt[a] EXCEPT !.state =
                       IF @ = "cancel_requested" THEN @ ELSE "submitting"]
  <1>1. /\ a \in AttemptIds /\ attempt[a] \in AttemptRow
        /\ attempt[a].state \in LiveStates
    BY HeldIsLive DEF MarkSubmitting, HoldsLease, PInv
  <1>2. /\ row.state \in LiveStates /\ row.token = attempt[a].token
        /\ row.state = "cancel_requested" =>
              attempt[a].state = "cancel_requested"
    BY <1>1 DEF AttemptRow, LiveStates
  <1>3. attempt' = [attempt EXCEPT ![a] = row] /\ UNCHANGED <<run, task>>
    BY DEF MarkSubmitting
  <1> HIDE DEF row, a
  <1> QED
    BY <1>1, <1>2, <1>3, LiveWriteProjected

LEMMA RecordSubmissionProjected ==
    ASSUME PInv, NEW w \in Workers, NEW h \in Handles, NEW s \in TargetStates,
           RecordSubmission(w, h, s)
    PROVE  Projected(run', task', attempt')
  <1> DEFINE a == lease[w].attempt
             row == [attempt[a] EXCEPT !.handle = h,
                       !.state = IF @ = "cancel_requested" THEN @
                                 ELSE SubmittedState(s)]
  <1>1. /\ a \in AttemptIds /\ attempt[a] \in AttemptRow
        /\ attempt[a].state \in LiveStates
    BY HeldIsLive DEF RecordSubmission, HoldsLease, PInv
  <1>2. SubmittedState(s) \in LiveStates \ {"cancel_requested"}
    BY DEF SubmittedState, LiveStates
  <1>3. /\ row.state \in LiveStates /\ row.token = attempt[a].token
        /\ row.state = "cancel_requested" =>
              attempt[a].state = "cancel_requested"
    BY <1>1, <1>2 DEF AttemptRow
  <1>4. attempt' = [attempt EXCEPT ![a] = row] /\ UNCHANGED <<run, task>>
    <2>1. attempt \in [AttemptIds -> AttemptRow]
      BY DEF PInv, IInv, Rows, RowTypes
    <2> QED
      BY <1>1, <2>1 DEF RecordSubmission
  <1> HIDE DEF row, a
  <1> QED
    BY <1>1, <1>3, <1>4, LiveWriteProjected

LEMMA RecordTargetStatusProjected ==
    ASSUME PInv, NEW w \in Workers, NEW s \in TargetStates,
           RecordTargetStatus(w, s)
    PROVE  Projected(run', task', attempt')
  <1> DEFINE a == lease[w].attempt
             row == [attempt[a] EXCEPT !.state = PolledState(@, s)]
  <1>1. /\ a \in AttemptIds /\ attempt[a] \in AttemptRow
        /\ attempt[a].state \in LiveStates
    BY HeldIsLive DEF RecordTargetStatus, HoldsLease, PInv
  <1>2. PolledState(attempt[a].state, s)
          \in (LiveStates \ {"cancel_requested"}) \cup {attempt[a].state}
    BY <1>1 DEF PolledState, LiveStates
  <1>3. /\ row.state \in LiveStates /\ row.token = attempt[a].token
        /\ row.state = "cancel_requested" =>
              attempt[a].state = "cancel_requested"
    BY <1>1, <1>2 DEF AttemptRow
  <1>4. attempt' = [attempt EXCEPT ![a] = row] /\ UNCHANGED <<run, task>>
    BY DEF RecordTargetStatus
  <1> HIDE DEF row, a
  <1> QED
    BY <1>1, <1>3, <1>4, LiveWriteProjected

\* A token that a task row has is that of its live attempt.
LEMMA TokenOfTask ==
    ASSUME PInv, NEW a \in AttemptIds, attempt[a].state \in LiveStates
    PROVE  task[a[1]].token \in {NoToken, attempt[a].token}
  <1>1. /\ a = <<a[1], task[a[1]].attempt>> /\ task[a[1]].attempt > 0
        /\ a[1] \in Tasks
    BY LiveIsLatest, AttemptIdFacts DEF PInv, IInv, Projected
  <1>2. Line(a[1], run[a[1][1]].state, task[a[1]], attempt)
    BY <1>1 DEF PInv, Projected, Lines
  <1> QED
    BY <1>1, <1>2 DEF Line

LEMMA ReleaseLeaseProjected ==
    ASSUME PInv, NEW w \in Workers, ReleaseLease(w)
    PROVE  Projected(run', task', attempt')
  <1> DEFINE a == lease[w].attempt
  <1>1. /\ a \in AttemptIds /\ attempt[a] \in AttemptRow
        /\ attempt[a].state \in LiveStates
        /\ attempt[a].token = lease[w].token
    BY HeldIsLive DEF ReleaseLease, HoldsLease, PInv
  <1>2. task[a[1]].token \in {NoToken, lease[w].token}
    BY <1>1, TokenOfTask
  <1>3. /\ attempt' = [attempt EXCEPT ![a] = Unleased(attempt[a])]
        /\ task' = [task EXCEPT ![a[1]].token = NoToken]
        /\ run' = run
    BY <1>2 DEF ReleaseLease
  <1>4. /\ Unleased(attempt[a]).state = attempt[a].state
        /\ Unleased(attempt[a]).token = NoToken
    BY <1>1, UnleasedFacts
  <1> HIDE DEF a
  <1>5. Rows(run, task, attempt) /\ Projected(run, task, attempt)
    BY DEF PInv, IInv
  <1>6. Projected(run, [task EXCEPT ![a[1]].token = NoToken],
                  [attempt EXCEPT ![a] = Unleased(attempt[a])])
    BY <1>1, <1>4, <1>5, LiveRowProjected
  <1> QED
    BY <1>3, <1>6

LEMMA MarkAttemptCanceledProjected ==
    ASSUME PInv, NEW w \in Workers, MarkAttemptCanceled(w)
    PROVE  Projected(run', task', attempt')
  <1> DEFINE a == lease[w].attempt
             arow == [Unleased(attempt[a]) EXCEPT !.state = "canceled"]
             trow == [task[a[1]] EXCEPT !.state = "canceled",
                                        !.token = NoToken]
  <1>1. /\ a \in AttemptIds /\ attempt[a] \in AttemptRow
        /\ attempt[a].state \in LiveStates
    BY HeldIsLive DEF MarkAttemptCanceled, HoldsLease, PInv
  <1>2. /\ task \in [Tasks -> TaskRow] /\ a[1] \in Tasks
        /\ Rows(run, task, attempt) /\ Projected(run, task, attempt)
    BY <1>1, AttemptIdFacts DEF PInv, IInv, Rows, RowTypes
  <1>3. arow.state = "canceled"
    BY <1>1, UnleasedFacts DEF SettledStates
  <1>4. /\ trow.attempt = task[a[1]].attempt /\ trow.token = NoToken
        /\ trow.state = "canceled"
    BY <1>2 DEF TaskRow
  <1>5. /\ attempt' = [attempt EXCEPT ![a] = arow]
        /\ task' = [task EXCEPT ![a[1]] = trow]
        /\ run' = run
    BY <1>2 DEF MarkAttemptCanceled
  <1> HIDE DEF a, arow, trow
  <1>6. Projected(run, [task EXCEPT ![a[1]] = trow],
                  [attempt EXCEPT ![a] = arow])
    BY <1>1, <1>2, <1>3, <1>4, SettledRowProjected
  <1> QED
    BY <1>5, <1>6

\* The run of a task that settles was not canceled; it may change its state
\* with the task, to succeeded only when every task has succeeded.
LEMMA RunStateProjected ==
    ASSUME NEW rn, NEW nrn, NEW tsk, NEW att, Projected(rn, tsk, att),
           NEW r \in Runs, rn[r].state # "canceled",
           nrn[r].state # "none",
           \A q \in Runs : q # r => nrn[q].state = rn[q].state,
           nrn[r].state = "succeeded" =>
               \A t \in TasksOf(r) : tsk[t].state = "succeeded"
    PROVE  Projected(nrn, tsk, att)
  <1> USE TaskFacts
  <1>1. Lines(nrn, tsk, att)
    <2> SUFFICES ASSUME NEW t \in Tasks
                 PROVE  Line(t, nrn[t[1]].state, tsk[t], att)
      BY DEF Lines
    <2>1. Line(t, rn[t[1]].state, tsk[t], att)
      BY DEF Projected, Lines
    <2> QED
      BY <2>1, LineOfOpenRun
  <1>2. RunsComplete(nrn, tsk)
    BY DEF Projected, RunsComplete
  <1> QED
    BY <1>1, <1>2 DEF Projected

LEMMA FailTaskProjected ==
    ASSUME PInv, NEW w \in Workers, FailTask(w)
    PROVE  Projected(run', task', attempt')
  <1> DEFINE a == lease[w].attempt
             t == a[1]
             arow == [Unleased(attempt[a]) EXCEPT !.state = "failed"]
             trow == [task[t] EXCEPT !.state = "failed", !.token = NoToken]
  <1>1. CASE UNCHANGED <<run, task, attempt>>
    BY <1>1 DEF PInv
  <1>2. CASE /\ SettlesTask(w)
             /\ task' = [task EXCEPT ![t].state = "failed",
                                     ![t].token = NoToken]
             /\ attempt' = [attempt EXCEPT ![a] = arow]
             /\ run' = [run EXCEPT ![t[1]].state = "failed"]
    <2>1. /\ a \in AttemptIds /\ attempt[a] \in AttemptRow
          /\ attempt[a].state \in LiveStates
      BY <1>2, HeldIsLive DEF FailTask, SettlesTask, PInv
    <2>2. /\ task \in [Tasks -> TaskRow] /\ run \in [Runs -> RunRow]
          /\ t \in Tasks /\ t[1] \in Runs
          /\ Rows(run, task, attempt) /\ Projected(run, task, attempt)
      BY <2>1, AttemptIdFacts, TaskFacts DEF PInv, IInv, Rows, RowTypes
    <2>3. arow.state = "failed"
      BY <2>1, UnleasedFacts DEF SettledStates
    <2>4. /\ trow.attempt = task[t].attempt /\ trow.token = NoToken
          /\ trow.state = "failed"
      BY <2>2, SMTT(30) DEF TaskRow
    <2>5. /\ attempt' = [attempt EXCEPT ![a] = arow]
          /\ task' = [task EXCEPT ![t] = trow]
          /\ \A q \in Runs : run'[q].state = IF q = t[1] THEN "failed"
                                             ELSE run[q].state
      BY <1>2, <2>2 DEF RunRow
    <2>6. run[t[1]].state # "canceled"
      BY <1>2, <2>2 DEF SettlesTask, Rows, CanceledQuiet
    <2> HIDE DEF a, t, arow, trow
    <2>7. Projected(run, task', attempt')
      BY <2>1, <2>2, <2>3, <2>4, <2>5, SettledRowProjected DEF t
    <2> QED
      BY <2>2, <2>5, <2>6, <2>7, RunStateProjected
  <1> QED
    BY <1>1, <1>2 DEF FailTask

LEMMA CompleteTaskProjected ==
    ASSUME PInv, NEW w \in Workers, CompleteTask(w)
    PROVE  Projected(run', task', attempt')
  <1> DEFINE a == lease[w].attempt
             t == a[1]
             arow == [Unleased(attempt[a]) EXCEPT !.state = "succeeded"]
             trow == CompletedTask(task[t], a[2])
             rrow == FinishedRun(t, a[2])
  <1>1. CASE UNCHANGED <<run, task, attempt>>
    BY <1>1 DEF PInv
  <1>2. CASE /\ SettlesTask(w)
             /\ attempt' = [attempt EXCEPT ![a] = arow]
             /\ task' = [task EXCEPT ![t] = trow]
             /\ run' = [run EXCEPT ![t[1]] = rrow]
    <2>1. /\ a \in AttemptIds /\ attempt[a] \in AttemptRow
          /\ attempt[a].state \in LiveStates
      BY <1>2, HeldIsLive DEF CompleteTask, SettlesTask, PInv
    <2>2. /\ task \in [Tasks -> TaskRow] /\ run \in [Runs -> RunRow]
          /\ t \in Tasks /\ t[1] \in Runs /\ a[2] \in Numbers
          /\ Rows(run, task, attempt) /\ Projected(run, task, attempt)
      BY <2>1, AttemptIdFacts, TaskFacts DEF PInv, IInv, Rows, RowTypes
    <2>3. arow.state = "succeeded"
      BY <2>1, UnleasedFacts DEF SettledStates
    <2>4. /\ trow.attempt = task[t].attempt /\ trow.token = NoToken
          /\ trow.state = "succeeded"
      <3>1. task[t] \in TaskRow
        BY <2>2
      <3> HIDE DEF a, t
      <3> QED
        BY <3>1 DEF TaskRow, CompletedTask
    <2>5. /\ rrow = run[t[1]]
             \/ /\ rrow.state = "succeeded"
                /\ \A u \in TasksOf(t[1]) : u = t \/ task[u].state = "succeeded"
      BY <2>2, FinishedRunFacts DEF Rows
    <2>6. /\ \A q \in Runs : run'[q] = IF q = t[1] THEN rrow ELSE run[q]
          /\ \A u \in Tasks : task'[u] = IF u = t THEN trow ELSE task[u]
      BY <1>2, <2>2
    <2>7. /\ run[t[1]].state # "canceled" /\ run[t[1]].state # "none"
          /\ run[t[1]].state # "succeeded"
      <3>1. task[t].state = "running"
        BY <1>2 DEF SettlesTask
      <3>2. Line(t, run[t[1]].state, task[t], attempt)
        BY <2>2 DEF Projected, Lines
      <3>3. t \in TasksOf(t[1])
        BY <2>2, TaskFacts
      <3> QED
        BY <2>2, <3>1, <3>2, <3>3
           DEF Rows, CanceledQuiet, Published, Line
    <2> HIDE DEF a, t, arow, trow, rrow
    <2>8. Projected(run, task', attempt')
      BY <1>2, <2>1, <2>2, <2>3, <2>4, SettledRowProjected DEF t
    <2>9. /\ run'[t[1]].state # "none"
          /\ run'[t[1]].state = "succeeded" =>
                \A u \in TasksOf(t[1]) : task'[u].state = "succeeded"
      BY <2>2, <2>4, <2>5, <2>6, <2>7, TaskFacts
    <2> QED
      BY <2>2, <2>6, <2>7, <2>8, <2>9, RunStateProjected
  <1> QED
    BY <1>1, <1>2 DEF CompleteTask

-----------------------------------------------------------------------------
(* claim_task keeps the projection: first the reset, then the grant.       *)

\* What the reset does to the line of a task.
LEMMA ResetLine ==
    ASSUME PInv, NEW E, NEW t \in Tasks
    PROVE  /\ Line(t, run[t[1]].state, TasksAfterReset(E)[t],
                   AttemptsAfterReset(E))
           /\ task[t].state = "succeeded" =>
                 TasksAfterReset(E)[t].state = "succeeded"
  <1> DEFINE att == AttemptsAfterReset(E)
             row == TasksAfterReset(E)[t]
             a == Current(t)
  <1> USE AttemptIdFacts
  <1>1. /\ task[t] \in TaskRow /\ Rows(run, task, attempt)
        /\ Line(t, run[t[1]].state, task[t], attempt)
    BY DEF PInv, IInv, Rows, RowTypes, Projected, Lines
  <1>2. CASE t \notin ExpiredTasks(E)
    <2>1. \A k \in Numbers : att[<<t, k>>] = attempt[<<t, k>>]
      BY <1>2 DEF AttemptsAfterReset
    <2>2. row = task[t]
      BY <1>2 DEF TasksAfterReset
    <2> HIDE DEF att, row
    <2>3. Line(t, run[t[1]].state, task[t], att)
      BY <1>1, <2>1, LineOfOwnAttempts
    <2> QED
      BY <2>2, <2>3 DEF att, row
  <1>3. CASE t \in ExpiredTasks(E)
    <2>1. /\ task[t].attempt > 0 /\ a \in AttemptIds /\ a[1] = t
          /\ a = <<t, task[t].attempt>>
          /\ task[t].state = "running" \/ attempt[a].state = "cancel_requested"
      BY <1>1, <1>3, CurrentIsAttempt DEF ExpiredTasks, Current
    <2>2. Mirrors(task[t].state, attempt[a].state)
      BY <1>1, <2>1 DEF Line
    <2>3. /\ attempt[a].state \in LiveStates
          /\ task[t].state \in {"running", "canceled"}
          /\ task[t].state = "canceled" => run[t[1]].state = "canceled"
          /\ run[t[1]].state = "canceled" => task[t].state = "canceled"
      <3>1. /\ attempt[a].state \in LiveStates
            /\ task[t].state \in {"running", "canceled"}
        BY <1>1, <2>1, <2>2 DEF Mirrors, LiveStates, TaskRow, TaskStates
      <3>2. task[t].state = "canceled" => run[t[1]].state = "canceled"
        BY <1>1, <2>1, <3>1 DEF Line
      <3>3. run[t[1]].state = "canceled" => task[t].state # "running"
        BY <1>1 DEF Rows, CanceledQuiet
      <3> QED
        BY <3>1, <3>2, <3>3
    <2>4. att[a] = [Unleased(attempt[a]) EXCEPT
                      !.state = IF CanceledBeforeTarget(a) THEN "canceled"
                                ELSE IF Abandoned(a) THEN "abandoned"
                                ELSE @]
      BY <1>3, <2>1 DEF AttemptsAfterReset
    <2>5. attempt[a] \in AttemptRow
      BY <1>1, <2>1 DEF Rows, RowTypes
    <2>6. att[a].state = IF CanceledBeforeTarget(a) THEN "canceled"
                         ELSE IF Abandoned(a) THEN "abandoned"
                         ELSE attempt[a].state
      BY <2>4, <2>5 DEF AttemptRow, Unleased
    <2>7. /\ row.attempt = task[t].attempt /\ row.token = NoToken
          /\ row.state = IF Abandoned(a) THEN "pending" ELSE task[t].state
      BY <1>1, <1>3 DEF TasksAfterReset, TaskRow
    <2>8. \A j \in Numbers :
             j < task[t].attempt => att[<<t, j>>].state = "abandoned"
      <3> SUFFICES ASSUME NEW j \in Numbers, j < task[t].attempt
                   PROVE  att[<<t, j>>].state = "abandoned"
        OBVIOUS
      <3>1. task[t].attempt \in Nat /\ j \in Nat
        BY <1>1, ConstantFacts DEF TaskRow, Numbers
      <3>2. <<t, j>> # a /\ <<t, j>> \in AttemptIds
        BY <2>1, <3>1
      <3>3. att[<<t, j>>] = attempt[<<t, j>>]
        BY <2>1, <3>2 DEF AttemptsAfterReset
      <3>4. attempt[<<t, j>>].state = "abandoned"
        BY <1>1 DEF Line
      <3> QED
        BY <3>3, <3>4
    <2>9. /\ CanceledBeforeTarget(a) => run[t[1]].state = "canceled"
          /\ Abandoned(a) => ~CanceledBeforeTarget(a)
      BY <2>1 DEF CanceledBeforeTarget, Abandoned
    <2>10. Mirrors(row.state, att[a].state)
      <3>1. CASE Abandoned(a)
        BY <2>6, <2>7, <2>9, <3>1 DEF Mirrors
      <3>2. CASE CanceledBeforeTarget(a)
        BY <2>3, <2>6, <2>7, <2>9, <3>2 DEF Mirrors
      <3>3. CASE ~Abandoned(a) /\ ~CanceledBeforeTarget(a)
        BY <2>2, <2>6, <2>7, <3>3
      <3> QED
        BY <3>1, <3>2, <3>3
    <2>11. run[t[1]].state # "none"
      BY <1>1, <2>1 DEF Line
    <2>12. row.state = "canceled" => run[t[1]].state = "canceled"
      BY <2>3, <2>7
    <2> HIDE DEF att, row, a
    <2>13. row.state # "none" /\ row.state # "succeeded"
      BY <2>3, <2>7
    <2>14. Line(t, run[t[1]].state, row, att)
      BY <2>1, <2>7, <2>8, <2>10, <2>11, <2>12, <2>13 DEF Line
    <2> QED
      BY <2>3, <2>14 DEF att, row
  <1> QED
    BY <1>2, <1>3

LEMMA ResetProjected ==
    ASSUME PInv, NEW E
    PROVE  Projected(run, TasksAfterReset(E), AttemptsAfterReset(E))
  <1> DEFINE att == AttemptsAfterReset(E)
             tsk == TasksAfterReset(E)
  <1>1. Rows(run, task, attempt) /\ Projected(run, task, attempt)
    BY DEF PInv, IInv
  <1>2. \A t \in Tasks :
           /\ Line(t, run[t[1]].state, tsk[t], att)
           /\ task[t].state = "succeeded" => tsk[t].state = "succeeded"
           /\ tsk[t].attempt = task[t].attempt
    BY <1>1, ResetLine, ResetTask
  <1> HIDE DEF att, tsk
  <1>3. Lines(run, tsk, att)
    BY <1>2 DEF Lines
  <1>4. ParentsDone(tsk)
    <2> SUFFICES ASSUME NEW t \in Tasks, tsk[t].attempt > 0,
                        NEW p \in Parents[t[2]]
                 PROVE  tsk[<<t[1], p>>].state = "succeeded"
      BY DEF ParentsDone
    <2>1. <<t[1], p>> \in Tasks
      BY TaskFacts, EngineAssumption
    <2>2. task[<<t[1], p>>].state = "succeeded"
      BY <1>1, <1>2 DEF Projected, ParentsDone
    <2> QED
      BY <1>2, <2>1, <2>2
  <1>5. RunsComplete(run, tsk)
    BY <1>1, <1>2 DEF Projected, RunsComplete
  <1> QED
    BY <1>3, <1>4, <1>5 DEF Projected, att, tsk

LEMMA ClaimRecoveredProjected ==
    ASSUME PInv, NEW w \in Workers, NEW E, ClaimRecovered(w, E)
    PROVE  Projected(run', task', attempt')
  <1> DEFINE att == AttemptsAfterReset(E)
             tsk == TasksAfterReset(E)
  <1>1. Rows(run, tsk, att) /\ Projected(run, tsk, att)
    BY ResetInv, ResetProjected DEF PInv, IInv
  <1> HIDE DEF att, tsk
  <1>2. PICK a \in Recoverable(w, att) : Recover(w, a, att, tsk)
    BY DEF ClaimRecovered, att, tsk
  <1>3. /\ a \in AttemptIds /\ att[a] \in AttemptRow
        /\ att[a].state \in LiveStates
    <2>1. a \in AttemptIds /\ att[a].state \in LiveStates
      BY <1>2 DEF Recoverable, LiveStates
    <2> QED
      BY <1>1, <2>1 DEF Rows, RowTypes
  <1> DEFINE row == [att[a] EXCEPT !.worker = w, !.token = FreshToken]
  <1>4. /\ attempt' = [att EXCEPT ![a] = row]
        /\ task' = [tsk EXCEPT ![a[1]].token = FreshToken]
        /\ run' = run
    <2>1. att \in [AttemptIds -> AttemptRow]
      BY <1>1 DEF Rows, RowTypes
    <2> QED
      BY <1>2, <1>3, <2>1 DEF Recover
  <1>5. row.state = att[a].state /\ row.token = FreshToken
    BY <1>3 DEF AttemptRow
  <1> HIDE DEF row
  <1>6. Projected(run, [tsk EXCEPT ![a[1]].token = FreshToken],
                  [att EXCEPT ![a] = row])
    BY <1>1, <1>3, <1>5, LiveRowProjected
  <1> QED
    BY <1>4, <1>6

\* The next attempt of a pending task whose parents have succeeded.
LEMMA ClaimReadyProjected ==
    ASSUME PInv, NEW w \in Workers, NEW E, ClaimReady(w, E)
    PROVE  Projected(run', task', attempt')
  <1> DEFINE att == AttemptsAfterReset(E)
             tsk == TasksAfterReset(E)
  <1> USE AttemptIdFacts, TaskFacts
  <1>1. Rows(run, tsk, att) /\ Projected(run, tsk, att)
    BY ResetInv, ResetProjected DEF PInv, IInv
  <1> HIDE DEF att, tsk
  <1>2. PICK t \in Ready(w, tsk) : Start(w, t, att, tsk)
    BY DEF ClaimReady, att, tsk
  <1>3. /\ t \in Tasks /\ tsk[t] \in TaskRow /\ t[1] \in Runs
        /\ tsk[t].state = "pending" /\ tsk[t].attempt < MaxAttempts
        /\ run[t[1]].state \in {"queued", "running"}
        /\ \A p \in Parents[t[2]] : tsk[<<t[1], p>>].state = "succeeded"
        /\ RowTypes(run, tsk, att)
    BY <1>1, <1>2 DEF Ready, Rows, RowTypes
  <1> DEFINE n == tsk[t].attempt + 1
             a == <<t, n>>
             trow == [tsk[t] EXCEPT !.state = "running", !.attempt = n,
                                    !.token = FreshToken]
             arow == [state |-> "leased", worker |-> w, token |-> FreshToken,
                      handle |-> NoHandle, startedAt |-> clock + 1]
             natt == [att EXCEPT ![a] = arow]
             ntsk == [tsk EXCEPT ![t] = trow]
  <1>4. n \in Numbers /\ n > 0 /\ tsk[t].attempt \in Nat /\ a \in AttemptIds
    <2>1. tsk[t].attempt \in 0 .. MaxAttempts
      BY <1>3 DEF TaskRow
    <2>2. n \in Numbers /\ n > 0 /\ tsk[t].attempt \in Nat
      BY <1>3, <2>1, ConstantFacts DEF Numbers
    <2> QED
      BY <1>3, <2>2
  <1>5. /\ attempt' = natt /\ task' = ntsk
        /\ \A q \in Runs : run'[q].state = IF q = t[1] THEN "running"
                                           ELSE run[q].state
    <2>1. attempt' = natt /\ run' = [run EXCEPT ![t[1]].state = "running"]
      BY <1>2 DEF Start
    <2>2. task' = ntsk
      BY <1>2, <1>3 DEF Start
    <2> QED
      BY <1>3, <2>1, <2>2 DEF RowTypes, RunRow
  <1>6. /\ trow.state = "running" /\ trow.attempt = n
        /\ trow.token = FreshToken
    <2> HIDE DEF n
    <2> QED
      BY <1>3 DEF TaskRow
  <1>7. /\ natt[a] = arow /\ arow.state = "leased" /\ arow.token = FreshToken
        /\ \A b \in AttemptIds : b # a => natt[b] = att[b]
    BY <1>3, <1>4 DEF RowTypes
  <1>8. \A u \in Tasks : ntsk[u] = IF u = t THEN trow ELSE tsk[u]
    BY <1>3 DEF RowTypes
  <1> HIDE DEF trow, arow, natt, ntsk
  <1>9. Line(t, run[t[1]].state, trow, natt)
    <2>1. Line(t, run[t[1]].state, tsk[t], att)
      BY <1>1, <1>3 DEF Projected, Lines
    <2>2. \A j \in Numbers : j < n => natt[<<t, j>>].state = "abandoned"
      <3> SUFFICES ASSUME NEW j \in Numbers, j < n
                   PROVE  natt[<<t, j>>].state = "abandoned"
        OBVIOUS
      <3>1. j \in Nat /\ j > 0
        BY DEF Numbers
      <3>2. j < tsk[t].attempt \/ (j = tsk[t].attempt /\ tsk[t].attempt > 0)
        BY <1>4, <3>1
      <3>3. <<t, j>> # a /\ <<t, j>> \in AttemptIds
        BY <1>3, <1>4, <3>1
      <3>4. att[<<t, j>>].state = "abandoned"
        BY <1>3, <2>1, <3>2 DEF Line, Mirrors
      <3> QED
        BY <1>7, <3>3, <3>4
    <2>3. Mirrors("running", "leased")
      BY DEF Mirrors, LiveStates
    <2> HIDE DEF n
    <2> QED
      BY <1>3, <1>4, <1>6, <1>7, <2>2, <2>3 DEF Line
  <1>10. Lines(run, ntsk, natt)
    <2>1. a[1] = t
      OBVIOUS
    <2> HIDE DEF a
    <2> QED
      BY <1>1, <1>3, <1>4, <1>9, <2>1, OneLineChanged DEF Projected, ntsk, natt
  <1>11. ParentsDone(ntsk)
    <2> SUFFICES ASSUME NEW u \in Tasks, ntsk[u].attempt > 0,
                        NEW p \in Parents[u[2]]
                 PROVE  ntsk[<<u[1], p>>].state = "succeeded"
      BY DEF ParentsDone
    <2>1. <<u[1], p>> \in Tasks
      BY EngineAssumption
    <2>2. tsk[<<u[1], p>>].state = "succeeded"
      <3>1. CASE u = t
        BY <1>3, <3>1
      <3>2. CASE u # t
        BY <1>1, <1>8, <3>2 DEF Projected, ParentsDone
      <3> QED
        BY <3>1, <3>2
    <2> QED
      BY <1>3, <1>8, <2>1, <2>2
  <1>12. RunsComplete(run, ntsk)
    BY <1>1, <1>3, <1>8 DEF Projected, RunsComplete
  <1>13. Projected(run, ntsk, natt)
    BY <1>10, <1>11, <1>12 DEF Projected
  <1> QED
    BY <1>3, <1>5, <1>13, RunStateProjected

-----------------------------------------------------------------------------
(* The theorems.                                                           *)

LEMMA NextPInv ==
    ASSUME MaxRetries = 0
    PROVE  PInv /\ [Next]_vars => PInv'
  <1> SUFFICES ASSUME PInv, [Next]_vars
               PROVE  Projected(run', task', attempt')
    BY NextInv DEF PInv
  <1>1. ASSUME NEW r \in Runs, SubmitRun(r)
        PROVE  Projected(run', task', attempt')
    BY <1>1, SubmitRunProjected
  <1>2. ASSUME NEW r \in Runs, CancelRun(r)
        PROVE  Projected(run', task', attempt')
    BY <1>2, CancelRunProjected
  <1>3. ASSUME NEW t \in Tasks, RetryTask(t) PROVE FALSE
    <2>1. retries \in Nat /\ retries < MaxRetries
      BY <1>3 DEF RetryTask, PInv, IInv
    <2> QED
      BY <2>1
  <1>4. ASSUME NEW w \in Workers, NEW E \in SUBSET RecordedTokens,
               ClaimTask(w, E)
        PROVE  Projected(run', task', attempt')
    <2>1. ClaimNothing(w, E) => Projected(run', task', attempt')
      BY ResetProjected DEF ClaimNothing
    <2> QED
      BY <1>4, <2>1, ClaimRecoveredProjected, ClaimReadyProjected DEF ClaimTask
  <1>5. ASSUME NEW w \in Workers, MarkSubmitting(w)
        PROVE  Projected(run', task', attempt')
    BY <1>5, MarkSubmittingProjected
  <1>6. ASSUME NEW w \in Workers, NEW h \in Handles, NEW s \in TargetStates,
               RecordSubmission(w, h, s)
        PROVE  Projected(run', task', attempt')
    BY <1>6, RecordSubmissionProjected
  <1>7. ASSUME NEW w \in Workers, NEW s \in TargetStates,
               RecordTargetStatus(w, s)
        PROVE  Projected(run', task', attempt')
    BY <1>7, RecordTargetStatusProjected
  <1>8. ASSUME NEW w \in Workers, ReleaseLease(w)
        PROVE  Projected(run', task', attempt')
    BY <1>8, ReleaseLeaseProjected
  <1>9. ASSUME NEW w \in Workers, MarkAttemptCanceled(w)
        PROVE  Projected(run', task', attempt')
    BY <1>9, MarkAttemptCanceledProjected
  <1>10. ASSUME NEW w \in Workers, CompleteTask(w)
         PROVE  Projected(run', task', attempt')
    BY <1>10, CompleteTaskProjected
  <1>11. ASSUME NEW w \in Workers, FailTask(w)
         PROVE  Projected(run', task', attempt')
    BY <1>11, FailTaskProjected
  <1>12. ASSUME \/ \E w \in Workers : LoseProcess(w)
                \/ UNCHANGED vars
         PROVE  Projected(run', task', attempt')
    <2>1. UNCHANGED <<run, task, attempt>>
      BY <1>12 DEF LoseProcess, vars
    <2> QED
      BY <2>1 DEF PInv
  <1> QED
    BY <1>1, <1>2, <1>3, <1>4, <1>5, <1>6, <1>7, <1>8, <1>9, <1>10, <1>11,
       <1>12 DEF Next

\* The projection holds throughout when no task is retried.
THEOREM ProjectionInvariance ==
    ASSUME MaxRetries = 0
    PROVE  Spec => []PInv
  <1>1. PInv /\ [Next]_vars => PInv'
    BY NextPInv
  <1> QED
    BY <1>1, InitPInv, PTL DEF Spec

\* docs/architecture.md:233: without retries the task row that the API shows
\* is a projection of the latest attempt of the task, and every attempt
\* before it was abandoned, whatever leases expired and whoever acted late.
THEOREM TaskIsProjection ==
    ASSUME MaxRetries = 0
    PROVE  Spec => []TaskProjectsAttempt
  <1>1. PInv => TaskProjectsAttempt
    <2> SUFFICES ASSUME PInv, NEW t \in Tasks
                 PROVE  /\ \A k \in Numbers :
                              k < task[t].attempt =>
                                  attempt[<<t, k>>].state = "abandoned"
                        /\ task[t].attempt > 0 =>
                             LET s == attempt[Current(t)].state IN
                             CASE task[t].state = "pending" -> s = "abandoned"
                               [] task[t].state = "running" ->
                                    s \in LiveStates \ {"cancel_requested"}
                               [] task[t].state = "canceled" ->
                                    s \notin {"none", "succeeded", "failed"}
                               [] OTHER -> s = task[t].state
      BY DEF TaskProjectsAttempt
    <2>1. Line(t, run[t[1]].state, task[t], attempt)
      BY DEF PInv, Projected, Lines
    <2>2. task[t].attempt > 0 =>
             Mirrors(task[t].state, attempt[Current(t)].state)
      BY <2>1 DEF Line, Current
    <2> DEFINE s == attempt[Current(t)].state
               u == task[t].state
    <2>3. \A k \in Numbers :
             k < task[t].attempt => attempt[<<t, k>>].state = "abandoned"
      BY <2>1 DEF Line
    <2> HIDE DEF s, u
    <2>4. ASSUME Mirrors(u, s)
          PROVE  CASE u = "pending" -> s = "abandoned"
                   [] u = "running" -> s \in LiveStates \ {"cancel_requested"}
                   [] u = "canceled" -> s \notin {"none", "succeeded", "failed"}
                   [] OTHER -> s = u
      <3>1. CASE u = "pending"
        BY <2>4, <3>1 DEF Mirrors
      <3>2. CASE u = "running"
        BY <2>4, <3>2 DEF Mirrors
      <3>3. CASE u = "canceled"
        BY <2>4, <3>3 DEF Mirrors, LiveStates
      <3>4. CASE u \notin {"pending", "running", "canceled"}
        BY <2>4, <3>4 DEF Mirrors
      <3> QED
        BY <3>1, <3>2, <3>3, <3>4
    <2> QED
      BY <2>2, <2>3, <2>4 DEF s, u
  <1> QED
    BY <1>1, ProjectionInvariance, PTL

\* Without retries a task that has started had all its parents succeed, and
\* nothing revokes the results that it consumed: not the reset of expired
\* leases, not a cancellation, not a process that settles its lease late.
THEOREM ParentsStayDone ==
    ASSUME MaxRetries = 0
    PROVE  Spec => []ParentsFirst
  <1>1. PInv => ParentsFirst
    BY DEF PInv, Projected, ParentsDone, ParentsFirst
  <1> QED
    BY <1>1, ProjectionInvariance, PTL

\* Without retries every task of a run that _finish_run_if_terminal declared
\* succeeded has succeeded, for good.
THEOREM SucceededRunStaysComplete ==
    ASSUME MaxRetries = 0
    PROVE  Spec => []SucceededRunIsComplete
  <1>1. PInv => SucceededRunIsComplete
    BY DEF PInv, Projected, RunsComplete, SucceededRunIsComplete
  <1> QED
    BY <1>1, ProjectionInvariance, PTL
=============================================================================
