------------------------- MODULE RunAdmissionProofs -------------------------
(* Proofs about RunAdmission, for any Runs, Teams, rosters and Tasks.      *)
EXTENDS RunAdmission, TLAPS

-----------------------------------------------------------------------------
(* Types.  What the helpers return.                                        *)

\* A write of a Run keeps the shape of its row.
LEMMA ReviseType ==
  ASSUME NEW rec \in RunRecord
  PROVE  Revise(rec) \in RunRecord
BY DEF Revise, RunRecord

\* So does a hold.
LEMMA FailType ==
  ASSUME NEW rec \in RunRecord
  PROVE  Fail(rec) \in RunRecord
<1>1. Revise(rec) \in RunRecord
  BY ReviseType
<1> QED
  BY <1>1 DEF Fail, RunRecord, Phases

LEMMA FailRunsOfType ==
  ASSUME NEW rs \in [Run -> RunRecord], NEW T
  PROVE  FailRunsOf(rs, T) \in [Run -> RunRecord]
BY FailType DEF FailRunsOf

LEMMA AdmitType ==
  ASSUME NEW rs \in [Run -> RunRecord], NEW A
  PROVE  Admit(rs, A) \in [Run -> RunRecord]
<1> SUFFICES ASSUME NEW r \in Run
             PROVE  [Revise(rs[r]) EXCEPT !.admitted = TRUE, !.phase = "planning"] \in RunRecord
  BY DEF Admit
<1>1. Revise(rs[r]) \in RunRecord
  BY ReviseType
<1> QED
  BY <1>1 DEF RunRecord, Phases

LEMMA CleanedType ==
  ASSUME NEW rec \in RunRecord, NEW busy \in BOOLEAN
  PROVE  Cleaned(rec, busy) \in RunRecord
BY DEF Cleaned, RunRecord

LEMMA AcquireType ==
  ASSUME owner \in [Role -> Run \cup {NoRun}], NEW A \in SUBSET Run
  PROVE  Acquire(A) \in [Role -> Run \cup {NoRun}]
<1> SUFFICES ASSUME NEW role \in Role, NEW s \in A, role \in roster[s]
             PROVE  (CHOOSE r \in A : role \in roster[r]) \in Run
  BY DEF Acquire
<1>1. (CHOOSE r \in A : role \in roster[r]) \in A
  OBVIOUS
<1> QED
  BY <1>1

LEMMA DisownType ==
  ASSUME owner \in [Role -> Run \cup {NoRun}], NEW r
  PROVE  Disown(r) \in [Role -> Run \cup {NoRun}]
BY DEF Disown

\* The ways a Task and its Attempt are written keep their shape.
LEMMA TaskTypes ==
  ASSUME NEW k \in TaskRecord
  PROVE  /\ Release(k) \in TaskRecord
         /\ Started(k) \in TaskRecord
         /\ Interrupted(k) \in TaskRecord
         /\ Lapsed(k) \in TaskRecord
         /\ Cancelled(k) \in TaskRecord
         /\ Proposed(k) \in TaskRecord
         /\ \A st \in TaskStates : [k EXCEPT !.state = st] \in TaskRecord
<1>1. Release(k) \in TaskRecord
  BY DEF Release, TaskRecord, Executions
<1>2. /\ Interrupted(k) \in TaskRecord
      /\ Lapsed(k) \in TaskRecord
      /\ Started(k) \in TaskRecord
      /\ Proposed(k) \in TaskRecord
  BY DEF Started, Interrupted, Lapsed, Proposed, TaskRecord, Executions, TaskStates
<1>3. \A st \in TaskStates : [k EXCEPT !.state = st] \in TaskRecord
  BY DEF TaskRecord
<1>4. Cancelled(k) \in TaskRecord
  BY DEF Cancelled, Release, TaskRecord, Executions, TaskStates
<1> QED
  BY <1>1, <1>2, <1>3, <1>4

LEMMA NewTaskType ==
  ASSUME NEW state \in TaskStates, NEW seen \in Nat
  PROVE  NewTask(state, seen) \in TaskRecord
BY DEF NewTask, TaskRecord, Executions

LEMMA PlanType ==
  ASSUME NEW tk \in [Task -> TaskRecord], NEW P
  PROVE  Plan(tk, P) \in [Task -> TaskRecord]
BY NewTaskType DEF Plan, TaskStates

-----------------------------------------------------------------------------
(* Types.  The loops of a Tick, from the last to the first.                *)

\* What the loops of a Tick end in.
RowsTyped(rs, own, tk) ==
  /\ rs \in [Run -> RunRecord]
  /\ own \in [Role -> Run \cup {NoRun}]
  /\ tk \in [Task -> TaskRecord]

LEMMA DispatchedType ==
  ASSUME NEW tk \in [Task -> TaskRecord], NEW started, NEW queued, NEW denied
  PROVE  Dispatched(tk, started, queued, denied) \in [Task -> TaskRecord]
<1>1. ASSUME NEW t \in Task
      PROVE  [Started(tk[t]) EXCEPT !.tries = @ + 1] \in TaskRecord
  <2>1. Started(tk[t]) \in TaskRecord
    BY TaskTypes
  <2> QED
    BY <2>1 DEF TaskRecord
<1>2. \A t \in Task : /\ [tk[t] EXCEPT !.state = "needs_review"] \in TaskRecord
                      /\ [tk[t] EXCEPT !.state = "queued"] \in TaskRecord
  BY TaskTypes DEF TaskStates
<1> QED
  BY <1>1, <1>2 DEF Dispatched

LEMMA SteppedType ==
  ASSUME NEW tk \in [Task -> TaskRecord], NEW rs \in [Run -> RunRecord], NEW steps
  PROVE  Stepped(tk, rs, steps) \in [Task -> TaskRecord]
<1>1. ASSUME NEW t \in Task
      PROVE  NewTask("queued", rs[runOf[t]].guidance) \in TaskRecord
  <2>1. rs[runOf[t]].guidance \in Nat
    BY TopologyAssumption DEF RunRecord
  <2> QED
    BY <2>1, NewTaskType DEF TaskStates
<1> QED
  BY <1>1 DEF Stepped

LEMMA ContinuedType ==
  ASSUME NEW tk \in [Task -> TaskRecord], NEW refused, NEW resumed
  PROVE  Continued(tk, refused, resumed) \in [Task -> TaskRecord]
<1>1. \A t \in Task : /\ Started(tk[t]) \in TaskRecord
                      /\ [tk[t] EXCEPT !.state = "needs_review"] \in TaskRecord
  BY TaskTypes DEF TaskStates
<1> QED
  BY <1>1 DEF Continued

LEMMA ReviewedType ==
  ASSUME NEW tk \in [Task -> TaskRecord], NEW refused, NEW reviews
  PROVE  Reviewed(tk, refused, reviews) \in [Task -> TaskRecord]
<1>1. /\ NewTask("planned", 0) \in TaskRecord
      /\ \A t \in Task : [tk[t] EXCEPT !.state = "needs_review"] \in TaskRecord
  BY TaskTypes, NewTaskType DEF TaskStates
<1> QED
  BY <1>1 DEF Reviewed

LEMMA ExpiredType ==
  ASSUME task \in [Task -> TaskRecord], NEW changed, NEW overdue, NEW lapsed
  PROVE  Expired(changed, overdue, lapsed) \in [Task -> TaskRecord]
<1>1. \A t \in Task : /\ Interrupted(task[t]) \in TaskRecord
                      /\ Lapsed(task[t]) \in TaskRecord
                      /\ [task[t] EXCEPT !.state = "needs_review"] \in TaskRecord
  BY TaskTypes DEF TaskStates
<1> QED
  BY <1>1 DEF Expired

\* A Tick writes well-formed rows, loop after loop.
LEMMA TickType ==
  ASSUME TypeOK, Tick
  PROVE  TypeOK'
<1>1. PICK changed, overdue, lapsed :
        AdmitRuns(Expired(changed, overdue, lapsed),
                  FailRunsOf(run, changed \cup overdue \cup lapsed))
  BY DEF Tick
<1> DEFINE rs1 == FailRunsOf(run, changed \cup overdue \cup lapsed)
           tk1 == Expired(changed, overdue, lapsed)
           A == Admissible(rs1)
           rs2 == Admit(rs1, A)
           own == Acquire(A)
<1>2. EnsureReviews(tk1, rs2, own)
  BY <1>1 DEF AdmitRuns
<1>3. RowsTyped(rs2, own, tk1)
  <2>1. rs1 \in [Run -> RunRecord]
    BY FailRunsOfType DEF TypeOK
  <2>2. A \in SUBSET Run
    BY DEF Admissible
  <2> QED
    BY <2>1, <2>2, AdmitType, AcquireType, ExpiredType DEF TypeOK, RowsTyped
<1> HIDE DEF rs2, own, tk1
<1>4. PICK refused, reviews :
        ResumeReady(Reviewed(tk1, refused, reviews), FailRunsOf(rs2, refused), own)
  BY <1>2 DEF EnsureReviews
<1> DEFINE rs3 == FailRunsOf(rs2, refused)
           tk2 == Reviewed(tk1, refused, reviews)
<1>5. RowsTyped(rs3, own, tk2)
  BY <1>3, FailRunsOfType, ReviewedType DEF RowsTyped
<1> HIDE DEF rs3, tk2
<1>6. PICK stuck, resumed :
        EnsureLeaderSteps(Continued(tk2, stuck, resumed), FailRunsOf(rs3, stuck), own)
  BY <1>4 DEF ResumeReady, rs3, tk2
<1> DEFINE rs4 == FailRunsOf(rs3, stuck)
           tk3 == Continued(tk2, stuck, resumed)
<1>7. RowsTyped(rs4, own, tk3)
  BY <1>5, FailRunsOfType, ContinuedType DEF RowsTyped
<1> HIDE DEF rs4, tk3
<1>8. PICK stepping, steps :
        Dispatch(Stepped(tk3, rs4, steps),
                 [r \in Run |-> [rs4[r] EXCEPT !.news = @ /\ r \notin stepping]], own)
  BY <1>6 DEF EnsureLeaderSteps, rs4, tk3
<1> DEFINE rs5 == [r \in Run |-> [rs4[r] EXCEPT !.news = @ /\ r \notin stepping]]
           tk4 == Stepped(tk3, rs4, steps)
<1>9. RowsTyped(rs5, own, tk4)
  <2>1. rs5 \in [Run -> RunRecord]
    BY <1>7 DEF RowsTyped, RunRecord
  <2> QED
    BY <1>7, <2>1, SteppedType DEF RowsTyped
<1> HIDE DEF rs5, tk4
<1>10. PICK started, queued, denied :
         /\ task' = Dispatched(tk4, started, queued, denied)
         /\ run' = FailRunsOf(rs5, denied)
         /\ owner' = own
  BY <1>8 DEF Dispatch, rs5, tk4
<1>11. RowsTyped(run', owner', task')
  BY <1>9, <1>10, FailRunsOfType, DispatchedType DEF RowsTyped
<1> QED
  BY <1>11 DEF RowsTyped, TypeOK, Tick

-----------------------------------------------------------------------------
(* Types.  Every other step.                                               *)

LEMMA SetTaskType ==
  ASSUME TypeOK, NEW t \in Task, NEW k \in TaskRecord, SetTask(t, k)
  PROVE  task' \in [Task -> TaskRecord]
BY DEF TypeOK, SetTask

LEMMA CleanupRunType ==
  ASSUME TypeOK, NEW r \in Run, NEW rec \in RunRecord, NEW tk, CleanupRun(r, rec, tk)
  PROVE  run' \in [Run -> RunRecord] /\ owner' \in [Role -> Run \cup {NoRun}]
<1>1. Revise(Cleaned(rec, LiveIn(tk, r) # {})) \in RunRecord
  BY CleanedType, ReviseType
<1> QED
  BY <1>1, DisownType DEF CleanupRun, TypeOK

LEMMA DecideType ==
  ASSUME TypeOK, NEW t \in Task, NEW rec \in RunRecord, Decide(t, rec)
  PROVE  run' \in [Run -> RunRecord] /\ owner' = owner /\ queueSeq' = queueSeq /\ lead' = lead
<1>1. task[t].seen \in Nat /\ rec.guidance \in Nat
  BY DEF TypeOK, TaskRecord, RunRecord
<1> DEFINE late == task[t].seen < rec.guidance
<1>2. late \in BOOLEAN
  BY <1>1
<1>3. \A b \in BOOLEAN : [rec EXCEPT !.news = b] \in RunRecord
  BY DEF RunRecord
<1>4. [rec EXCEPT !.news = late] \in RunRecord
  BY <1>2, <1>3
<1> QED
  BY <1>4 DEF Decide, TypeOK

LEMMA AdapterStepType ==
  ASSUME TypeOK, NEW t \in Task, AdapterStep(t)
  PROVE  TypeOK'
<1> DEFINE r == runOf[t]
<1>0. /\ task[t] \in TaskRecord
      /\ r \in Run
      /\ run[r] \in RunRecord
  BY TopologyAssumption DEF TypeOK
<1>1. CASE InjectionRequested(t) \/ InputObserved(t) \/ ResultProposed(t) \/ Suspend(t)
  <2>1. /\ [task[t] EXCEPT !.fresh = FALSE] \in TaskRecord
        /\ [task[t] EXCEPT !.exec = "running", !.state = "running"] \in TaskRecord
        /\ [task[t] EXCEPT !.exec = "proposed", !.state = "result_proposed"] \in TaskRecord
        /\ [task[t] EXCEPT !.exec = "suspended", !.state = "waiting_dependency"] \in TaskRecord
    BY <1>0 DEF TaskRecord, Executions, TaskStates
  <2>2. task' \in [Task -> TaskRecord]
    BY <1>1, <2>1, SetTaskType DEF InjectionRequested, InputObserved, ResultProposed, Suspend
  <2> QED
    BY <1>1, <2>2 DEF TypeOK, InjectionRequested, InputObserved, ResultProposed, Suspend
<1>2. CASE SettledFailed(t) \/ SettledMissing(t) \/ Interrupt(t)
  <2>1. Release(task[t]) \in TaskRecord
    BY <1>0, TaskTypes
  <2>2. /\ [Release(task[t]) EXCEPT !.state = "interrupted"] \in TaskRecord
        /\ [task[t] EXCEPT !.exec = "needs_review", !.state = "needs_review"] \in TaskRecord
        /\ Interrupted(task[t]) \in TaskRecord
    <3>1. [Release(task[t]) EXCEPT !.state = "interrupted"] \in TaskRecord
      BY <2>1, TaskTypes DEF TaskStates
    <3>2. [task[t] EXCEPT !.exec = "needs_review", !.state = "needs_review"] \in TaskRecord
      BY <1>0 DEF TaskRecord, Executions, TaskStates
    <3> QED
      BY <3>1, <3>2, <1>0, TaskTypes
  <2>3. task' \in [Task -> TaskRecord]
    BY <1>2, <2>2, SetTaskType DEF SettledFailed, SettledMissing, Interrupt
  <2>4. run' \in [Run -> RunRecord]
    BY <1>2, FailRunsOfType DEF SettledFailed, SettledMissing, Interrupt, TypeOK
  <2> QED
    BY <1>2, <2>3, <2>4 DEF TypeOK, SettledFailed, SettledMissing, Interrupt
<1>3. ASSUME NEW ok \in BOOLEAN, SettledBusiness(t, ok)
      PROVE  TypeOK'
  <2>1. Release(task[t]) \in TaskRecord
    BY <1>0, TaskTypes
  <2>2. [Release(task[t]) EXCEPT !.state = IF ok THEN "completed" ELSE "needs_review"]
          \in TaskRecord
    BY <2>1 DEF TaskRecord, TaskStates
  <2>3. task' \in [Task -> TaskRecord]
    BY <1>3, <2>2, SetTaskType DEF SettledBusiness
  <2>4. run' \in [Run -> RunRecord]
    <3>1. /\ FailRunsOf(run, {t}) \in [Run -> RunRecord]
          /\ Revise(run[r]) \in RunRecord
      BY <1>0, ReviseType, FailRunsOfType DEF TypeOK
    <3>2. run' = [run EXCEPT ![r] = Revise(@)] \/ run' = FailRunsOf(run, {t})
      BY <1>3 DEF SettledBusiness
    <3> QED
      BY <3>1, <3>2 DEF TypeOK
  <2> QED
    BY <1>3, <2>3, <2>4 DEF TypeOK, SettledBusiness
<1>4. ASSUME NEW ok \in BOOLEAN, SettledLeader(t, ok)
      PROVE  TypeOK'
  <2>1. Release(task[t]) \in TaskRecord
    BY <1>0, TaskTypes
  <2>2. [Release(task[t]) EXCEPT !.state = "completed"] \in TaskRecord
    BY <2>1 DEF TaskRecord, TaskStates
  <2> DEFINE tk == [task EXCEPT ![t] = [Release(@) EXCEPT !.state = "completed"]]
  <2>3. tk \in [Task -> TaskRecord]
    BY <2>2 DEF TypeOK
  <2>4. /\ [Revise(run[r]) EXCEPT !.intent = "none"] \in RunRecord
        /\ [Revise(run[r]) EXCEPT !.intent = "none", !.hold = TRUE, !.phase = "needs_review"]
             \in RunRecord
        /\ [run[r] EXCEPT !.phase = "completed"] \in RunRecord
    BY <1>0, ReviseType DEF RunRecord, Phases
  <2>5. run' \in [Run -> RunRecord] /\ owner' \in [Role -> Run \cup {NoRun}]
    <3>1. \/ run' = run /\ owner' = owner
          \/ /\ run' = [run EXCEPT ![r] = [Revise(run[r]) EXCEPT !.intent = "none"]]
             /\ owner' = owner
          \/ CleanupRun(r, [run[r] EXCEPT !.phase = "completed"], tk)
          \/ /\ run' = [run EXCEPT ![r] = [Revise(run[r]) EXCEPT !.intent = "none",
                                             !.hold = TRUE, !.phase = "needs_review"]]
             /\ owner' = owner
      BY <1>4 DEF SettledLeader
    <3>2. CASE CleanupRun(r, [run[r] EXCEPT !.phase = "completed"], tk)
      BY <3>2, <2>4, <1>0, CleanupRunType
    <3>3. CASE ~CleanupRun(r, [run[r] EXCEPT !.phase = "completed"], tk)
      BY <3>1, <3>3, <2>4 DEF TypeOK
    <3> QED
      BY <3>2, <3>3
  <2> QED
    BY <1>4, <2>3, <2>5 DEF SettledLeader, TypeOK
<1>5. CASE (\E P \in SUBSET Unplanned(r) : DecideDispatch(t, P)) \/ DecideWait(t) \/ DecideComplete(t)
  <2>1. Revise(run[r]) \in RunRecord /\ Proposed(task[t]) \in TaskRecord
    BY <1>0, ReviseType, TaskTypes
  <2>2. /\ [Revise(run[r]) EXCEPT !.phase = "running"] \in RunRecord
        /\ [Revise(run[r]) EXCEPT !.intent = "current"] \in RunRecord
    BY <2>1 DEF RunRecord, Phases
  <2>3. CASE \E P \in SUBSET Unplanned(r) : DecideDispatch(t, P)
    <3>1. PICK P \in SUBSET Unplanned(r) : DecideDispatch(t, P)
      BY <2>3
    <3>2. Plan(task, P) \in [Task -> TaskRecord]
      BY PlanType DEF TypeOK
    <3>3. Proposed(Plan(task, P)[t]) \in TaskRecord
      BY <3>2, TaskTypes
    <3>4. task' \in [Task -> TaskRecord]
      BY <3>1, <3>2, <3>3 DEF DecideDispatch
    <3>5. Decide(t, [Revise(run[r]) EXCEPT !.phase = "running"])
      BY <3>1 DEF DecideDispatch
    <3> QED
      BY <3>4, <3>5, <2>2, DecideType DEF TypeOK
  <2>4. CASE DecideWait(t)
    <3>1. Decide(t, Revise(run[r])) /\ SetTask(t, Proposed(task[t]))
      BY <2>4 DEF DecideWait
    <3> QED
      BY <3>1, <2>1, DecideType, SetTaskType DEF TypeOK
  <2>5. CASE DecideComplete(t)
    <3>1. /\ Decide(t, [Revise(run[r]) EXCEPT !.intent = "current"])
          /\ SetTask(t, Proposed(task[t]))
      BY <2>5 DEF DecideComplete
    <3> QED
      BY <3>1, <2>1, <2>2, DecideType, SetTaskType DEF TypeOK
  <2> QED
    BY <1>5, <2>3, <2>4, <2>5
<1>6. CASE Stopped(t)
  <2> DEFINE tk == [task EXCEPT ![t] = Release(@)]
  <2>1. Release(task[t]) \in TaskRecord
    BY <1>0, TaskTypes
  <2>2. tk \in [Task -> TaskRecord]
    BY <2>1 DEF TypeOK
  <2>3. task' = tk /\ CleanupRun(r, run[r], tk) /\ UNCHANGED <<queueSeq, lead>>
    BY <1>6 DEF Stopped
  <2> QED
    BY <2>2, <2>3, <1>0, CleanupRunType DEF TypeOK
<1> QED
  BY <1>1, <1>2, <1>3, <1>4, <1>5, <1>6 DEF AdapterStep

LEMMA CreateRunType ==
  ASSUME TypeOK, NEW r \in Run, NEW P \in SUBSET Unplanned(r), CreateRun(r, P)
  PROVE  TypeOK'
<1> DEFINE new == [run[r] EXCEPT !.phase = "queued_run", !.seq = queueSeq + 1,
                                 !.leader = lead[teamOf[r]].epoch, !.news = TRUE]
           rs == [run EXCEPT ![r] = new]
           A == Admissible(rs)
<1>1. new \in RunRecord
  <2>1. lead[teamOf[r]].epoch \in Nat /\ queueSeq + 1 \in Nat /\ run[r] \in RunRecord
    BY TopologyAssumption DEF TypeOK, LeadRecord
  <2> QED
    BY <2>1 DEF RunRecord, Phases
<1>2. rs \in [Run -> RunRecord]
  BY <1>1 DEF TypeOK
<1>3. A \in SUBSET Run
  BY DEF Admissible
<1>4. /\ Admit(rs, A) \in [Run -> RunRecord]
      /\ Acquire(A) \in [Role -> Run \cup {NoRun}]
      /\ Plan(task, P) \in [Task -> TaskRecord]
  BY <1>2, <1>3, AdmitType, AcquireType, PlanType DEF TypeOK
<1>5. /\ run' = Admit(rs, A) /\ owner' = Acquire(A)
      /\ task' = Plan(task, P) /\ queueSeq' = queueSeq + 1 /\ lead' = lead
  BY DEF CreateRun
<1> HIDE DEF rs, A
<1> QED
  BY <1>4, <1>5 DEF TypeOK

LEMMA OperatorStepType ==
  ASSUME TypeOK, OperatorStep
  PROVE  TypeOK'
<1>1. ASSUME NEW r \in Run, NEW P \in SUBSET Unplanned(r), CreateRun(r, P)
      PROVE  TypeOK'
  BY <1>1, CreateRunType
<1>2. ASSUME NEW r \in Run, RunCancel(r)
      PROVE  TypeOK'
  <2> DEFINE tk == [t \in Task |-> IF /\ runOf[t] = r /\ task[t].state # "absent"
                                      /\ ~Terminal(task[t].state)
                                   THEN Cancelled(task[t]) ELSE task[t]]
             rec == [run[r] EXCEPT !.phase = "cancelled", !.hold = TRUE]
  <2>1. tk \in [Task -> TaskRecord]
    <3>1. \A t \in Task : task[t] \in TaskRecord /\ Cancelled(task[t]) \in TaskRecord
      BY TaskTypes DEF TypeOK
    <3> QED
      BY <3>1
  <2>2. rec \in RunRecord
    BY DEF TypeOK, RunRecord, Phases
  <2>3. task' = tk /\ CleanupRun(r, rec, tk) /\ UNCHANGED <<queueSeq, lead>>
    BY <1>2 DEF RunCancel
  <2> HIDE DEF tk, rec
  <2> QED
    BY <2>1, <2>2, <2>3, CleanupRunType DEF TypeOK
<1>3. ASSUME NEW r \in Run, RunResume(r)
      PROVE  TypeOK'
  <2>1. Revise(run[r]) \in RunRecord /\ lead[teamOf[r]].epoch \in Nat
    BY ReviseType, TopologyAssumption DEF TypeOK, LeadRecord
  <2>2. \A n \in Nat, ph \in {"running", "queued_run"} :
          [Revise(run[r]) EXCEPT !.leader = n, !.hold = FALSE, !.phase = ph] \in RunRecord
    BY <2>1 DEF RunRecord, Phases
  <2>3. run' \in [Run -> RunRecord]
    BY <1>3, <2>1, <2>2 DEF RunResume, TypeOK
  <2> QED
    BY <1>3, <2>3 DEF RunResume, TypeOK
<1>4. ASSUME NEW r \in Run, RunGuidance(r)
      PROVE  TypeOK'
  <2>1. Revise(run[r]) \in RunRecord
    BY ReviseType DEF TypeOK
  <2>2. run[r].guidance + 1 \in Nat
    BY DEF TypeOK, RunRecord
  <2>3. [Revise(run[r]) EXCEPT !.guidance = run[r].guidance + 1] \in RunRecord
    BY <2>1, <2>2 DEF RunRecord
  <2> QED
    BY <1>4, <2>3 DEF RunGuidance, TypeOK
<1>5. ASSUME NEW t \in Task,
             CreateTask(t) \/ TaskCancel(t) \/ TaskRetry(t) \/ TaskRecover(t) \/ TaskVerdict(t)
      PROVE  TypeOK'
  <2>1. /\ NewTask("queued", 0) \in TaskRecord
        /\ Cancelled(task[t]) \in TaskRecord
        /\ [task[t] EXCEPT !.state = "queued"] \in TaskRecord
        /\ [task[t] EXCEPT !.state = "completed"] \in TaskRecord
    <3>1. task[t] \in TaskRecord
      BY DEF TypeOK
    <3> QED
      BY <3>1, NewTaskType, TaskTypes DEF TaskStates
  <2>2. Revise(run[runOf[t]]) \in RunRecord
    BY ReviseType, TopologyAssumption DEF TypeOK
  <2>3. CASE CreateTask(t) \/ TaskCancel(t) \/ TaskRetry(t) \/ TaskRecover(t)
    <3>1. /\ task' \in [Task -> TaskRecord]
          /\ UNCHANGED <<run, owner, queueSeq, lead>>
      BY <2>1, <2>3 DEF CreateTask, TaskCancel, TaskRetry, TaskRecover, SetTask, TypeOK
    <3> QED
      BY <3>1 DEF TypeOK
  <2>4. CASE TaskVerdict(t)
    BY <2>2, <2>4 DEF TaskVerdict, TypeOK
  <2> QED
    BY <1>5, <2>3, <2>4
<1>6. ASSUME NEW t \in Task, Reconcile(t)
      PROVE  TypeOK'
  <2> DEFINE r == runOf[t]
             k == Release(task[t])
             k2 == [k EXCEPT !.state = IF Terminal(@) THEN @ ELSE "interrupted"]
             tk == [task EXCEPT ![t] = k2]
             rec == IF Terminal(k.state) THEN run[r] ELSE Fail(run[r])
  <2>1. k \in TaskRecord
    BY TaskTypes DEF TypeOK
  <2>2. k2 \in TaskRecord
    <3>1. (IF Terminal(k.state) THEN k.state ELSE "interrupted") \in TaskStates
      BY <2>1 DEF TaskRecord, TaskStates
    <3> QED
      BY <3>1, <2>1, TaskTypes
  <2>3. tk \in [Task -> TaskRecord]
    BY <2>2 DEF TypeOK
  <2>4. r \in Run /\ rec \in RunRecord
    BY FailType, TopologyAssumption DEF TypeOK
  <2>5. task' = tk /\ CleanupRun(r, rec, tk) /\ UNCHANGED <<queueSeq, lead>>
    BY <1>6 DEF Reconcile
  <2> HIDE DEF tk, rec
  <2> QED
    BY <2>3, <2>4, <2>5, CleanupRunType DEF TypeOK
<1> QED
  BY <1>1, <1>2, <1>3, <1>4, <1>5, <1>6 DEF OperatorStep

LEMMA LeaderStepType ==
  ASSUME TypeOK, LeaderStep
  PROVE  TypeOK'
<1> PICK m \in Team : LeaderSilent(m) \/ LeaderHeartbeat(m) \/ LeaderRegister(m)
                        \/ LeaderRelease(m)
  BY DEF LeaderStep
<1>0. lead[m] \in LeadRecord
  BY DEF TypeOK
<1>1. CASE LeaderSilent(m) \/ LeaderHeartbeat(m) \/ LeaderRelease(m)
  <2>1. /\ [lead[m] EXCEPT !.online = FALSE] \in LeadRecord
        /\ [lead[m] EXCEPT !.online = TRUE] \in LeadRecord
        /\ [lead[m] EXCEPT !.bound = FALSE, !.online = FALSE] \in LeadRecord
    BY <1>0 DEF LeadRecord
  <2>2. lead' \in [Team -> LeadRecord]
    <3>1. CASE LeaderSilent(m)
      BY <3>1, <1>0 DEF LeaderSilent, LeadRecord, TypeOK
    <3>2. CASE LeaderHeartbeat(m)
      BY <3>2, <1>0 DEF LeaderHeartbeat, LeadRecord, TypeOK
    <3>3. CASE LeaderRelease(m)
      BY <3>3, <1>0 DEF LeaderRelease, LeadRecord, TypeOK
    <3> QED
      BY <1>1, <3>1, <3>2, <3>3
  <2> QED
    BY <1>1, <2>2 DEF LeaderSilent, LeaderHeartbeat, LeaderRelease, TypeOK
<1>2. CASE LeaderRegister(m)
  <2>1. lead' \in [Team -> LeadRecord]
    <3>1. [epoch |-> lead[m].epoch + 1, bound |-> TRUE, online |-> TRUE] \in LeadRecord
      BY <1>0 DEF LeadRecord
    <3> QED
      BY <3>1, <1>2 DEF LeaderRegister, TypeOK
  <2>2. task' \in [Task -> TaskRecord]
    <3>1. \A t \in Task : task[t] \in TaskRecord /\ Interrupted(task[t]) \in TaskRecord
      BY TaskTypes DEF TypeOK
    <3> QED
      BY <3>1, <1>2 DEF LeaderRegister
  <2>3. run' \in [Run -> RunRecord]
    BY <1>2, FailRunsOfType DEF LeaderRegister, TypeOK
  <2> QED
    BY <1>2, <2>1, <2>2, <2>3 DEF LeaderRegister, TypeOK
<1> QED
  BY <1>1, <1>2

LEMMA RestartType ==
  ASSUME TypeOK, Restart
  PROVE  TypeOK'
<1>1. run' \in [Run -> RunRecord]
  <2>1. ASSUME NEW r \in Run
        PROVE  [Revise(run[r]) EXCEPT !.hold = TRUE] \in RunRecord /\ run[r] \in RunRecord
    <3>1. run[r] \in RunRecord /\ Revise(run[r]) \in RunRecord
      BY ReviseType DEF TypeOK
    <3> QED
      BY <3>1 DEF RunRecord
  <2> QED
    BY <2>1 DEF Restart
<1>2. task' \in [Task -> TaskRecord]
  <2>1. ASSUME NEW t \in Task
        PROVE  /\ [task[t] EXCEPT !.exec = "needs_review", !.state = "needs_review"] \in TaskRecord
               /\ task[t] \in TaskRecord
    BY DEF TypeOK, TaskRecord, Executions, TaskStates
  <2> QED
    BY <2>1 DEF Restart
<1>3. lead' \in [Team -> LeadRecord]
  <2>1. \A m \in Team : [lead[m] EXCEPT !.online = FALSE] \in LeadRecord
    BY DEF TypeOK, LeadRecord
  <2> QED
    BY <2>1 DEF Restart
<1> QED
  BY <1>1, <1>2, <1>3 DEF Restart, TypeOK

LEMMA InitType == Init => TypeOK
<1> SUFFICES ASSUME Init PROVE TypeOK
  OBVIOUS
<1>1. run \in [Run -> RunRecord]
  BY DEF Init, RunRecord, Phases
<1>2. owner \in [Role -> Run \cup {NoRun}] /\ queueSeq \in Nat
  BY DEF Init
<1>3. lead \in [Team -> LeadRecord]
  BY DEF Init, LeadRecord
<1>4. task \in [Task -> TaskRecord]
  BY NewTaskType DEF Init, TaskStates
<1> QED
  BY <1>1, <1>2, <1>3, <1>4 DEF TypeOK

\* TypeOK is inductive.
LEMMA NextType == TypeOK /\ [Next]_vars => TypeOK'
<1> SUFFICES ASSUME TypeOK, [Next]_vars PROVE TypeOK'
  OBVIOUS
<1>1. CASE Tick
  BY <1>1, TickType
<1>2. CASE Restart
  BY <1>2, RestartType
<1>3. CASE OperatorStep
  BY <1>3, OperatorStepType
<1>4. CASE LeaderStep
  BY <1>4, LeaderStepType
<1>5. CASE \E t \in Task : AdapterStep(t)
  BY <1>5, AdapterStepType
<1>6. CASE UNCHANGED vars
  BY <1>6 DEF vars, TypeOK
<1> QED
  BY <1>1, <1>2, <1>3, <1>4, <1>5, <1>6 DEF Next

\* The rows the controller writes are always well formed.
THEOREM TypeCorrect == Spec => []TypeOK
<1> QED
  BY InitType, NextType, PTL DEF Spec
=============================================================================
