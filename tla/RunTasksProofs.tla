---------------------------- MODULE RunTasksProofs ----------------------------
(* RunAdmission: what a Run owes to its Tasks and to its Leader.  An        *)
(* inductive invariant about Tasks, above the one about ownership, and the  *)
(* properties that follow from it.                                          *)
EXTENDS RunOwnershipProofs, FiniteSetTheorems

-----------------------------------------------------------------------------
(* The invariant, of Runs rs and Tasks tk.                                 *)

Unresolved(k) == k.state \in {"needs_review", "interrupted"}

\* What waits for the operator holds its Run.
Held(rs, tk) ==
  \A t \in Task : Unresolved(tk[t]) /\ Open(rs[runOf[t]]) => rs[runOf[t]].hold

\* No LeaderStep knows more guidance than was given ...
Seen(rs, tk) ==
  \A t \in Task : ~Business(t) => tk[t].seen <= rs[runOf[t]].guidance

\* ... and one knows all of it when the Leader has nothing left to look at.
Guided(rs, tk) ==
  \A r \in Run : Open(rs[r]) /\ ~rs[r].news =>
     \E t \in TasksOf(r) : ~Business(t) /\ tk[t].seen = rs[r].guidance

Finished(rs, tk, r) ==
  /\ \E t \in TasksOf(r) : Business(t) /\ tk[t].state = "completed"
  /\ \A t \in TasksOf(r) : /\ ~Live(tk[t])
                           /\ Business(t) => tk[t].state \in {"absent", "completed", "cancelled"}
  /\ rs[r].cleanup = "released"

Done(rs, tk) == \A r \in Run : rs[r].phase = "completed" => Finished(rs, tk, r)

\* A cancelled Run is held for good.
Closed(rs) == \A r \in Run : rs[r].phase = "cancelled" => rs[r].hold

TaskInv(rs, tk) ==
  Held(rs, tk) /\ Seen(rs, tk) /\ Guided(rs, tk) /\ Done(rs, tk) /\ Closed(rs)

-----------------------------------------------------------------------------
(* Steps that take nothing away from what is owed.                         *)

\* Nearly every write of a Run: it opens nothing that was over, lifts no hold,
\* and hides no news.
RunStep(a, b) ==
  /\ b.phase = "completed" <=> a.phase = "completed"
  /\ a.cleanup = "released" => b.cleanup = "released"
  /\ b.guidance = a.guidance
  /\ Open(b) /\ ~b.hold => Open(a) /\ ~a.hold
  /\ b.phase = "cancelled" /\ ~b.hold => a.phase = "cancelled" /\ ~a.hold
  /\ Open(b) /\ ~b.news => Open(a) /\ ~a.news

\* Nearly every write of a Task, whose Run is a before and b after.
TaskStep(t, k, k2, a, b) ==
  /\ Business(t) \/ k2.seen = k.seen
  /\ Open(b) /\ ~b.hold /\ Unresolved(k2) => Unresolved(k)
  /\ a.phase = "completed" => /\ Live(k2) => Live(k)
                              /\ Business(t) => k2.state = k.state

LEMMA StepKeeps ==
  ASSUME NEW rs, NEW rs2, NEW tk, NEW tk2, TaskInv(rs, tk),
         \A r \in Run : RunStep(rs[r], rs2[r]),
         \A t \in Task : TaskStep(t, tk[t], tk2[t], rs[runOf[t]], rs2[runOf[t]])
  PROVE  TaskInv(rs2, tk2)
<1>0. \A t \in Task : runOf[t] \in Run
  BY TopologyAssumption
<1>1. Held(rs2, tk2)
  BY <1>0 DEF TaskInv, Held, RunStep, TaskStep
<1>2. Seen(rs2, tk2)
  BY <1>0 DEF TaskInv, Seen, RunStep, TaskStep
<1>3. Guided(rs2, tk2)
  <2> SUFFICES ASSUME NEW r \in Run, Open(rs2[r]), ~rs2[r].news
               PROVE  \E t \in TasksOf(r) : ~Business(t) /\ tk2[t].seen = rs2[r].guidance
    BY DEF Guided
  <2>1. PICK t \in TasksOf(r) : ~Business(t) /\ tk[t].seen = rs[r].guidance
    BY DEF TaskInv, Guided, RunStep
  <2> QED
    BY <2>1 DEF TasksOf, RunStep, TaskStep
<1>4. Done(rs2, tk2)
  <2> SUFFICES ASSUME NEW r \in Run, rs2[r].phase = "completed"
               PROVE  Finished(rs2, tk2, r)
    BY DEF Done
  <2>1. rs[r].phase = "completed" /\ Finished(rs, tk, r)
    BY DEF TaskInv, Done, RunStep
  <2> QED
    BY <2>1 DEF Finished, TasksOf, RunStep, TaskStep
<1>5. Closed(rs2)
  BY DEF TaskInv, Closed, RunStep
<1> QED
  BY <1>1, <1>2, <1>3, <1>4, <1>5 DEF TaskInv

LEMMA SameRun ==
  ASSUME NEW a
  PROVE  RunStep(a, a)
BY DEF RunStep

LEMMA SameTask ==
  ASSUME NEW t, NEW k, NEW a, NEW b
  PROVE  TaskStep(t, k, k, a, b)
BY DEF TaskStep

LEMMA ReviseStep ==
  ASSUME NEW a \in RunRecord
  PROVE  RunStep(a, Revise(a))
BY DEF RunStep, Revise, RunRecord, Open

LEMMA FailStep ==
  ASSUME NEW a \in RunRecord
  PROVE  RunStep(a, Fail(a)) /\ Fail(a).hold
<1>1. Revise(a) \in RunRecord /\ Revise(a).phase = a.phase /\ Revise(a).cleanup = a.cleanup
      /\ Revise(a).guidance = a.guidance /\ Revise(a).news
  BY ReviseType DEF Revise, RunRecord
<1> QED
  BY <1>1 DEF RunStep, Fail, RunRecord, Open, Terminal

\* What a stage of a Tick, or a handler, leaves to the operator in the Tasks T
\* may become unresolved: their Runs are held.
LEMMA FailRunsKeeps ==
  ASSUME NEW rs \in [Run -> RunRecord], NEW tk, NEW tk2, NEW T, TaskInv(rs, tk),
         \A t \in Task :
           /\ Business(t) \/ tk2[t].seen = tk[t].seen
           /\ Unresolved(tk2[t]) => Unresolved(tk[t]) \/ t \in T
           /\ rs[runOf[t]].phase = "completed" => /\ Live(tk2[t]) => Live(tk[t])
                                                  /\ Business(t) => tk2[t].state = tk[t].state
  PROVE  TaskInv(FailRunsOf(rs, T), tk2)
<1> DEFINE rs2 == FailRunsOf(rs, T)
<1>1. \A r \in Run : rs2[r] = IF \E t \in T : runOf[t] = r THEN Fail(rs[r]) ELSE rs[r]
  BY DEF FailRunsOf
<1>2. \A r \in Run : RunStep(rs[r], rs2[r])
  BY <1>1, FailStep, SameRun
<1>3. \A t \in Task : t \in T => rs2[runOf[t]].hold
  BY <1>1, FailStep, TopologyAssumption
<1> HIDE DEF rs2
<1>4. \A t \in Task : TaskStep(t, tk[t], tk2[t], rs[runOf[t]], rs2[runOf[t]])
  BY <1>3 DEF TaskStep
<1> QED
  BY <1>2, <1>4, StepKeeps DEF rs2

-----------------------------------------------------------------------------
(* The scheduler's transaction, loop by loop, from the last to the first.  *)

\* A Task executes, or has a segment admitted, only if it did before.
StartsNot(k, k2) == /\ Live(k2) => Live(k)
                    /\ k2.exec = "admitted" => k.exec = "admitted"

\* Nothing of a Run that was held has been started so far.
NoStart(rs, tk) ==
  \A t \in Task : run[runOf[t]].hold => rs[runOf[t]].hold /\ StartsNot(task[t], tk[t])

Stage(rs, tk) == TaskInv(rs, tk) /\ NoStart(rs, tk)

\* Two ways in which a loop keeps what the loops before it have kept: it revises
\* Runs, or leaves some Tasks T to the operator.
LEMMA StageRevises ==
  ASSUME NEW rs, NEW rs2, NEW tk, Stage(rs, tk),
         \A r \in Run : RunStep(rs[r], rs2[r]) /\ (rs[r].hold => rs2[r].hold)
  PROVE  Stage(rs2, tk)
<1>1. TaskInv(rs2, tk)
  BY SameTask, StepKeeps DEF Stage
<1>2. NoStart(rs2, tk)
  BY TopologyAssumption DEF Stage, NoStart
<1> QED
  BY <1>1, <1>2 DEF Stage

LEMMA StageFails ==
  ASSUME NEW rs \in [Run -> RunRecord], NEW tk, NEW tk2, NEW T, Stage(rs, tk),
         \A t \in Task :
           /\ Business(t) \/ tk2[t].seen = tk[t].seen
           /\ Unresolved(tk2[t]) => Unresolved(tk[t]) \/ t \in T
           /\ rs[runOf[t]].phase = "completed" => /\ Live(tk2[t]) => Live(tk[t])
                                                  /\ Business(t) => tk2[t].state = tk[t].state
           /\ StartsNot(tk[t], tk2[t]) \/ ~rs[runOf[t]].hold
  PROVE  Stage(FailRunsOf(rs, T), tk2)
<1>1. TaskInv(FailRunsOf(rs, T), tk2)
  BY FailRunsKeeps DEF Stage
<1>2. \A r \in Run : rs[r].hold => FailRunsOf(rs, T)[r].hold
  BY FailStep DEF FailRunsOf
<1>3. NoStart(FailRunsOf(rs, T), tk2)
  BY <1>2, TopologyAssumption DEF Stage, NoStart, StartsNot
<1> QED
  BY <1>1, <1>3 DEF Stage

LEMMA DispatchTasks ==
  ASSUME NEW rs \in [Run -> RunRecord], NEW tk \in [Task -> TaskRecord], NEW own,
         Stage(rs, tk), Dispatch(tk, rs, own)
  PROVE  Stage(run', task')
<1>1. PICK started \in SUBSET Dispatchable(tk, rs, own) :
      \E denied \in SUBSET (Deniable(tk, rs) \ started) :
      \E queued \in SUBSET {t \in Pending(tk) \ (started \cup denied) :
                              tk[t].state = "planned" /\ Working(rs[runOf[t]])} :
        /\ task' = Dispatched(tk, started, queued, denied)
        /\ run' = FailRunsOf(rs, denied)
  BY DEF Dispatch
<1>2. PICK denied \in SUBSET (Deniable(tk, rs) \ started) :
      \E queued \in SUBSET {t \in Pending(tk) \ (started \cup denied) :
                              tk[t].state = "planned" /\ Working(rs[runOf[t]])} :
        /\ task' = Dispatched(tk, started, queued, denied)
        /\ run' = FailRunsOf(rs, denied)
  BY <1>1
<1>3. PICK queued \in SUBSET {t \in Pending(tk) \ (started \cup denied) :
                                tk[t].state = "planned" /\ Working(rs[runOf[t]])} :
        /\ task' = Dispatched(tk, started, queued, denied)
        /\ run' = FailRunsOf(rs, denied)
  BY <1>2
<1>4. ASSUME NEW t \in Task
      PROVE  /\ task'[t].seen = tk[t].seen
             /\ Unresolved(task'[t]) => Unresolved(tk[t]) \/ t \in denied
             /\ rs[runOf[t]].phase = "completed" =>
                  /\ Live(task'[t]) => Live(tk[t])
                  /\ Business(t) => task'[t].state = tk[t].state
             /\ StartsNot(tk[t], task'[t]) \/ ~rs[runOf[t]].hold
  <2>0. tk[t] \in TaskRecord
    OBVIOUS
  <2>1. CASE t \in denied
    <3>1. task'[t] = [tk[t] EXCEPT !.state = "needs_review"]
      BY <1>3, <2>1 DEF Dispatched
    <3>2. task'[t].seen = tk[t].seen /\ task'[t].exec = tk[t].exec
      BY <2>0, <3>1 DEF TaskRecord
    <3>3. tk[t].state \in {"planned", "queued", "waiting_dependency", "running"}
      BY <2>1 DEF Deniable, Pending
    <3>4. rs[runOf[t]].phase = "completed" => ~Business(t)
      BY <3>3, TopologyAssumption DEF Stage, TaskInv, Done, Finished, TasksOf
    <3> QED
      BY <2>1, <3>2, <3>4 DEF Live, StartsNot
  <2>2. CASE t \in started /\ t \notin denied
    <3>1. Working(rs[runOf[t]])
      BY <2>2 DEF Dispatchable
    <3>2. task'[t] = [Started(tk[t]) EXCEPT !.tries = @ + 1]
      BY <1>3, <2>2 DEF Dispatched
    <3>3. /\ Started(tk[t]) \in TaskRecord
          /\ Started(tk[t]).seen = tk[t].seen /\ Started(tk[t]).state = "dispatching"
      BY <2>0, TaskTypes DEF Started, TaskRecord
    <3>4. task'[t].seen = tk[t].seen /\ task'[t].state = "dispatching"
      BY <3>2, <3>3 DEF TaskRecord
    <3> QED
      BY <3>1, <3>4 DEF Working, Terminal, Unresolved
  <2>3. CASE t \in queued /\ t \notin denied \cup started
    <3>1. Working(rs[runOf[t]])
      BY <2>3
    <3>2. task'[t] = [tk[t] EXCEPT !.state = "queued"]
      BY <1>3, <2>3 DEF Dispatched
    <3>3. task'[t].seen = tk[t].seen /\ task'[t].exec = tk[t].exec /\ task'[t].state = "queued"
      BY <2>0, <3>2 DEF TaskRecord
    <3> QED
      BY <3>1, <3>3 DEF Working, Terminal, Unresolved
  <2>4. CASE t \notin denied \cup started \cup queued
    BY <1>3, <2>4 DEF Dispatched, StartsNot
  <2> QED
    BY <2>1, <2>2, <2>3, <2>4
<1> QED
  BY <1>3, <1>4, StageFails

\* ensureLeaderSteps: the step it plans for a Run knows all guidance.
LEMMA LeaderStepsTasks ==
  ASSUME NEW rs \in [Run -> RunRecord], NEW tk \in [Task -> TaskRecord], NEW own,
         Stage(rs, tk), EnsureLeaderSteps(tk, rs, own)
  PROVE  Stage(run', task')
<1> DEFINE stepping == {r \in Stepping(tk, rs) : StepSlots(tk, r) # {}}
           rs2 == [r \in Run |-> [rs[r] EXCEPT !.news = @ /\ r \notin stepping]]
<1>1. PICK steps \in SUBSET UNION {StepSlots(tk, r) : r \in stepping} :
        /\ \A r \in stepping : Cardinality(steps \cap TasksOf(r)) = 1
        /\ Dispatch(Stepped(tk, rs, steps), rs2, own)
  BY DEF EnsureLeaderSteps
<1> DEFINE tk2 == Stepped(tk, rs, steps)
<1>2. /\ tk2 \in [Task -> TaskRecord]
      /\ \A t \in Task : tk2[t] = IF t \in steps THEN NewTask("queued", rs[runOf[t]].guidance)
                                  ELSE tk[t]
  BY SteppedType DEF Stepped
<1>3. ASSUME NEW r \in Run
      PROVE  /\ rs2[r] \in RunRecord
             /\ rs2[r].phase = rs[r].phase /\ rs2[r].hold = rs[r].hold
             /\ rs2[r].cleanup = rs[r].cleanup /\ rs2[r].guidance = rs[r].guidance
             /\ rs2[r].news = (rs[r].news /\ r \notin stepping)
  <2>1. rs[r] \in RunRecord
    OBVIOUS
  <2>2. rs2[r] = [rs[r] EXCEPT !.news = @ /\ r \notin stepping]
    OBVIOUS
  <2> HIDE DEF rs2, stepping
  <2> QED
    BY <2>1, <2>2 DEF RunRecord
<1>4. \A t \in steps : /\ t \in Task /\ ~Business(t)
                       /\ Working(rs[runOf[t]]) /\ runOf[t] \in stepping
  BY DEF StepSlots, TasksOf, Stepping
<1>5. ASSUME NEW r \in stepping
      PROVE  \E t \in steps : t \in TasksOf(r)
  <2>1. Cardinality({}) = 0
    BY FS_EmptySet
  <2>2. Cardinality(steps \cap TasksOf(r)) = 1
    BY <1>1
  <2>3. steps \cap TasksOf(r) # {}
    <3> SUFFICES ASSUME steps \cap TasksOf(r) = {} PROVE FALSE
      OBVIOUS
    <3>1. Cardinality(steps \cap TasksOf(r)) = 0
      BY <2>1, Zenon
    <3> QED
      BY <2>2, <3>1
  <2> QED
    BY <2>3
<1>6. rs2 \in [Run -> RunRecord]
  BY <1>3
<1> HIDE DEF rs2, tk2, stepping
<1>7. \A t \in Task : t \in steps => /\ tk2[t].state = "queued" /\ tk2[t].exec = "none"
                                     /\ tk2[t].seen = rs2[runOf[t]].guidance
  BY <1>2, <1>3, TopologyAssumption DEF NewTask
<1>8. \A r \in Run : rs2[r].guidance \in Nat
  BY <1>6 DEF RunRecord
<1>9. /\ Held(rs2, tk2) /\ Closed(rs2)
      /\ \A t \in Task : StartsNot(tk[t], tk2[t])
  BY <1>2, <1>3, <1>7, TopologyAssumption
  DEF Stage, TaskInv, Held, Closed, StartsNot, Live, Open, Unresolved
<1>10. Seen(rs2, tk2)
  BY <1>2, <1>3, <1>7, <1>8, TopologyAssumption DEF Stage, TaskInv, Seen
<1>11. Guided(rs2, tk2)
  <2> SUFFICES ASSUME NEW r \in Run, Open(rs2[r]), ~rs2[r].news
               PROVE  \E t \in TasksOf(r) : ~Business(t) /\ tk2[t].seen = rs2[r].guidance
    BY DEF Guided
  <2>1. CASE r \in stepping
    BY <1>4, <1>5, <1>7, <2>1 DEF TasksOf
  <2>2. CASE r \notin stepping
    <3>1. Open(rs[r]) /\ ~rs[r].news
      BY <1>3, <2>2 DEF Open
    <3>2. PICK t \in TasksOf(r) : ~Business(t) /\ tk[t].seen = rs[r].guidance
      BY <3>1 DEF Stage, TaskInv, Guided
    <3>3. t \notin steps
      BY <1>4, <2>2 DEF TasksOf
    <3> QED
      BY <1>2, <1>3, <3>2, <3>3 DEF TasksOf
  <2> QED
    BY <2>1, <2>2
<1>12. Done(rs2, tk2)
  <2> SUFFICES ASSUME NEW r \in Run, rs2[r].phase = "completed"
               PROVE  Finished(rs2, tk2, r)
    BY DEF Done
  <2>1. rs[r].phase = "completed" /\ Finished(rs, tk, r)
    BY <1>3 DEF Stage, TaskInv, Done
  <2>2. \A t \in TasksOf(r) : t \notin steps
    BY <1>4, <2>1 DEF TasksOf, Working, Terminal
  <2> QED
    BY <1>2, <1>3, <2>1, <2>2 DEF Finished, TasksOf
<1>13. Stage(rs2, tk2)
  <2>1. NoStart(rs2, tk2)
    BY <1>3, <1>9, TopologyAssumption DEF Stage, NoStart, StartsNot
  <2> QED
    BY <1>9, <1>10, <1>11, <1>12, <2>1 DEF Stage, TaskInv
<1>14. Dispatch(tk2, rs2, own)
  BY <1>1 DEF rs2, tk2
<1> QED
  BY <1>2, <1>6, <1>13, <1>14, DispatchTasks

LEMMA ResumeTasks ==
  ASSUME NEW rs \in [Run -> RunRecord], NEW tk \in [Task -> TaskRecord], NEW own,
         Stage(rs, tk), ResumeReady(tk, rs, own)
  PROVE  Stage(run', task')
<1>1. PICK refused \in SUBSET Resumable(tk, rs) :
      \E resumed \in SUBSET (Resumable(tk, rs) \ refused) :
        EnsureLeaderSteps(Continued(tk, refused, resumed), FailRunsOf(rs, refused), own)
  BY DEF ResumeReady
<1>2. PICK resumed \in SUBSET (Resumable(tk, rs) \ refused) :
        EnsureLeaderSteps(Continued(tk, refused, resumed), FailRunsOf(rs, refused), own)
  BY <1>1
<1> DEFINE tk2 == Continued(tk, refused, resumed)
<1>3. ASSUME NEW t \in Task
      PROVE  /\ tk2[t].seen = tk[t].seen
             /\ Unresolved(tk2[t]) => Unresolved(tk[t]) \/ t \in refused
             /\ rs[runOf[t]].phase = "completed" =>
                  /\ Live(tk2[t]) => Live(tk[t])
                  /\ Business(t) => tk2[t].state = tk[t].state
             /\ StartsNot(tk[t], tk2[t]) \/ ~rs[runOf[t]].hold
  <2>0. tk[t] \in TaskRecord
    OBVIOUS
  <2>1. t \in refused \cup resumed => Working(rs[runOf[t]])
    BY DEF Resumable
  <2>2. CASE t \in refused
    <3>1. tk2[t] = [tk[t] EXCEPT !.state = "needs_review"]
      BY <2>2 DEF Continued
    <3> HIDE DEF tk2
    <3>2. tk2[t].seen = tk[t].seen /\ tk2[t].exec = tk[t].exec
      BY <2>0, <3>1 DEF TaskRecord
    <3> QED
      BY <2>1, <2>2, <3>2 DEF Working, Terminal
  <2>3. CASE t \in resumed /\ t \notin refused
    <3>1. tk2[t] = Started(tk[t])
      BY <2>3 DEF Continued
    <3> HIDE DEF tk2
    <3>2. tk2[t].seen = tk[t].seen /\ tk2[t].state = "dispatching"
      BY <2>0, <3>1 DEF Started, TaskRecord
    <3> QED
      BY <2>1, <2>3, <3>2 DEF Working, Terminal, Unresolved
  <2>4. CASE t \notin refused \cup resumed
    BY <2>4 DEF Continued, StartsNot
  <2> QED
    BY <2>2, <2>3, <2>4
<1>4. tk2 \in [Task -> TaskRecord] /\ FailRunsOf(rs, refused) \in [Run -> RunRecord]
  BY ContinuedType, FailRunsOfType
<1> HIDE DEF tk2
<1>5. Stage(FailRunsOf(rs, refused), tk2)
  BY <1>3, StageFails
<1> QED
  BY <1>2, <1>4, <1>5, LeaderStepsTasks DEF tk2

LEMMA ReviewsTasks ==
  ASSUME NEW rs \in [Run -> RunRecord], NEW tk \in [Task -> TaskRecord], NEW own,
         Stage(rs, tk), EnsureReviews(tk, rs, own)
  PROVE  Stage(run', task')
<1>1. PICK refused \in SUBSET Reviewable(tk, rs),
           reviews \in SUBSET {t \in Task : /\ kind[t] = "review" /\ tk[t].state = "absent"
                                            /\ Open(rs[runOf[t]]) /\ ~rs[runOf[t]].hold} :
        ResumeReady(Reviewed(tk, refused, reviews), FailRunsOf(rs, refused), own)
  BY DEF EnsureReviews
<1> DEFINE tk2 == Reviewed(tk, refused, reviews)
<1>2. ASSUME NEW t \in Task
      PROVE  /\ Business(t) \/ tk2[t].seen = tk[t].seen
             /\ Unresolved(tk2[t]) => Unresolved(tk[t]) \/ t \in refused
             /\ rs[runOf[t]].phase = "completed" =>
                  /\ Live(tk2[t]) => Live(tk[t])
                  /\ Business(t) => tk2[t].state = tk[t].state
             /\ StartsNot(tk[t], tk2[t])
  <2>0. tk[t] \in TaskRecord
    OBVIOUS
  <2>1. t \in refused \cup reviews => Open(rs[runOf[t]]) /\ Business(t)
    BY DEF Reviewable, Business
  <2>2. CASE t \in refused
    <3>0. t \notin reviews
      BY <2>2 DEF Reviewable
    <3>1. tk2[t] = [tk[t] EXCEPT !.state = "needs_review"]
      BY <2>2, <3>0 DEF Reviewed
    <3> HIDE DEF tk2
    <3>2. tk2[t].exec = tk[t].exec
      BY <2>0, <3>1 DEF TaskRecord
    <3> QED
      BY <2>1, <2>2, <3>2 DEF Open, Terminal, StartsNot, Live
  <2>3. CASE t \in reviews /\ t \notin refused
    <3>1. tk2[t] = NewTask("planned", 0)
      BY <2>3 DEF Reviewed
    <3> QED
      BY <2>1, <2>3, <3>1 DEF Open, Terminal, NewTask, Unresolved, StartsNot, Live
  <2>4. CASE t \notin refused \cup reviews
    BY <2>4 DEF Reviewed, StartsNot
  <2> QED
    BY <2>2, <2>3, <2>4
<1>3. tk2 \in [Task -> TaskRecord] /\ FailRunsOf(rs, refused) \in [Run -> RunRecord]
  BY ReviewedType, FailRunsOfType
<1> HIDE DEF tk2
<1>4. Stage(FailRunsOf(rs, refused), tk2)
  BY <1>2, StageFails
<1> QED
  BY <1>1, <1>3, <1>4, ResumeTasks DEF tk2

\* admitRuns.
LEMMA AdmitStep ==
  ASSUME NEW rs \in [Run -> RunRecord], NEW r \in Run
  PROVE  LET rs2 == Admit(rs, Admissible(rs)) IN
         RunStep(rs[r], rs2[r]) /\ (rs[r].hold => rs2[r].hold)
<1> DEFINE rs2 == Admit(rs, Admissible(rs))
<1>1. CASE r \in Admissible(rs)
  <2>1. Open(rs[r]) /\ ~rs[r].hold
    BY <1>1 DEF Admissible, Waiting
  <2>2. rs2[r] = [Revise(rs[r]) EXCEPT !.admitted = TRUE, !.phase = "planning"]
    BY <1>1 DEF Admit
  <2>3. rs[r] \in RunRecord /\ Revise(rs[r]) \in RunRecord
    BY ReviseType
  <2>4. /\ Revise(rs[r]).cleanup = rs[r].cleanup /\ Revise(rs[r]).news
        /\ Revise(rs[r]).guidance = rs[r].guidance
    BY <2>3 DEF Revise, RunRecord
  <2> HIDE DEF rs2
  <2>5. /\ rs2[r].phase = "planning" /\ rs2[r].cleanup = rs[r].cleanup
        /\ rs2[r].guidance = rs[r].guidance /\ rs2[r].news
    BY <2>2, <2>3, <2>4 DEF RunRecord
  <2>6. RunStep(rs[r], rs2[r]) /\ (rs[r].hold => rs2[r].hold)
    BY <2>1, <2>5 DEF RunStep, Open, Terminal
  <2> QED
    BY <2>6 DEF rs2
<1>2. CASE r \notin Admissible(rs)
  BY <1>2, SameRun DEF Admit
<1> QED
  BY <1>1, <1>2

LEMMA TickTasks ==
  ASSUME TypeOK, TaskInv(run, task), Tick
  PROVE  Stage(run', task')
<1>1. PICK changed \in SUBSET Invalidatable :
      \E overdue \in SUBSET {t \in Task \ changed : Live(task[t])} :
      \E lapsed \in SUBSET {t \in Task \ (changed \cup overdue) :
                              Live(task[t]) /\ task[t].exec # "suspended"} :
        AdmitRuns(Expired(changed, overdue, lapsed),
                  FailRunsOf(run, changed \cup overdue \cup lapsed))
  BY DEF Tick
<1>2. PICK overdue \in SUBSET {t \in Task \ changed : Live(task[t])} :
      \E lapsed \in SUBSET {t \in Task \ (changed \cup overdue) :
                              Live(task[t]) /\ task[t].exec # "suspended"} :
        AdmitRuns(Expired(changed, overdue, lapsed),
                  FailRunsOf(run, changed \cup overdue \cup lapsed))
  BY <1>1
<1>3. PICK lapsed \in SUBSET {t \in Task \ (changed \cup overdue) :
                              Live(task[t]) /\ task[t].exec # "suspended"} :
        AdmitRuns(Expired(changed, overdue, lapsed),
                  FailRunsOf(run, changed \cup overdue \cup lapsed))
  BY <1>2
<1> DEFINE T == changed \cup overdue \cup lapsed
           rs1 == FailRunsOf(run, T)
           tk1 == Expired(changed, overdue, lapsed)
           rs2 == Admit(rs1, Admissible(rs1))
<1>4. ASSUME NEW t \in Task
      PROVE  /\ tk1[t].seen = task[t].seen
             /\ Unresolved(tk1[t]) => Unresolved(task[t]) \/ t \in T
             /\ run[runOf[t]].phase = "completed" =>
                  /\ Live(tk1[t]) => Live(task[t])
                  /\ Business(t) => tk1[t].state = task[t].state
             /\ StartsNot(task[t], tk1[t])
  <2>0. task[t] \in TaskRecord
    BY DEF TypeOK
  <2>1. t \in T => run[runOf[t]].phase # "completed"
    <3>1. Live(task[t]) => run[runOf[t]].phase # "completed"
      BY TopologyAssumption DEF TaskInv, Done, Finished, TasksOf
    <3>2. t \in changed => run[runOf[t]].phase # "completed"
      BY DEF Invalidatable, Open, Terminal
    <3> QED
      BY <3>1, <3>2
  <2>2. t \notin T => tk1[t] = task[t]
    BY DEF Expired
  <2>3. tk1[t].seen = task[t].seen /\ StartsNot(task[t], tk1[t])
    <3>1. \A x \in {[task[t] EXCEPT !.state = "needs_review"], Interrupted(task[t]),
                    Lapsed(task[t]), task[t]} :
            x.seen = task[t].seen /\ (x.exec = "admitted" => task[t].exec = "admitted")
      BY <2>0 DEF Interrupted, Lapsed, TaskRecord
    <3>2. tk1[t] \in {[task[t] EXCEPT !.state = "needs_review"], Interrupted(task[t]),
                      Lapsed(task[t]), task[t]}
      BY DEF Expired
    <3>3. Live(tk1[t]) => Live(task[t])
      <4>1. t \in overdue \cup lapsed => Live(task[t])
        OBVIOUS
      <4>2. [task[t] EXCEPT !.state = "needs_review"].exec = task[t].exec
        BY <2>0 DEF TaskRecord
      <4> QED
        BY <4>1, <4>2 DEF Expired, Live
    <3> HIDE DEF tk1
    <3> QED
      BY <3>1, <3>2, <3>3 DEF StartsNot
  <2> QED
    BY <2>1, <2>2, <2>3
<1>5. Stage(run, task) /\ run \in [Run -> RunRecord] /\ task \in [Task -> TaskRecord]
  BY DEF Stage, NoStart, StartsNot, TypeOK
<1>6. tk1 \in [Task -> TaskRecord] /\ rs1 \in [Run -> RunRecord]
  BY <1>5, ExpiredType, FailRunsOfType
<1> HIDE DEF tk1, T
<1>7. Stage(rs1, tk1)
  BY <1>4, <1>5, StageFails
<1> HIDE DEF rs1
<1>8. \A r \in Run : RunStep(rs1[r], rs2[r]) /\ (rs1[r].hold => rs2[r].hold)
  BY <1>6, AdmitStep
<1>9. rs2 \in [Run -> RunRecord] /\ EnsureReviews(tk1, rs2, Acquire(Admissible(rs1)))
  BY <1>3, <1>6, AdmitType DEF AdmitRuns, rs1, tk1, T
<1> HIDE DEF rs2
<1>10. Stage(rs2, tk1)
  BY <1>7, <1>8, StageRevises
<1> QED
  BY <1>6, <1>9, <1>10, ReviewsTasks

-----------------------------------------------------------------------------
(* Adapters and Leaders.                                                   *)

\* What has an execution, or work that waits, does not belong to a completed Run.
LEMMA NotCompleted ==
  ASSUME TaskInv(run, task), NEW t \in Task,
         Live(task[t]) \/ (Business(t) /\ task[t].state \notin {"absent", "completed", "cancelled"})
  PROVE  run[runOf[t]].phase # "completed"
BY TopologyAssumption DEF TaskInv, Done, Finished, TasksOf

\* Writing one Task, or one Task and its Run.
LEMMA OneTaskKeeps ==
  ASSUME TypeOK, TaskInv(run, task), NEW t \in Task, NEW k, NEW b,
         RunStep(run[runOf[t]], b), TaskStep(t, task[t], k, run[runOf[t]], b)
  PROVE  TaskInv([run EXCEPT ![runOf[t]] = b], [task EXCEPT ![t] = k])
<1> DEFINE rs == [run EXCEPT ![runOf[t]] = b]
           tk == [task EXCEPT ![t] = k]
<1>0. /\ \A r \in Run : rs[r] = IF r = runOf[t] THEN b ELSE run[r]
      /\ \A u \in Task : tk[u] = IF u = t THEN k ELSE task[u]
  BY DEF TypeOK
<1> HIDE DEF rs, tk
<1>1. \A r \in Run : RunStep(run[r], rs[r])
  BY <1>0, SameRun
<1>2. \A u \in Task : TaskStep(u, task[u], tk[u], run[runOf[u]], rs[runOf[u]])
  BY <1>0, SameTask, TopologyAssumption
<1>3. TaskInv(rs, tk)
  BY <1>1, <1>2, StepKeeps
<1> QED
  BY <1>3 DEF rs, tk

LEMMA TaskAloneKeeps ==
  ASSUME TypeOK, TaskInv(run, task), NEW t \in Task, NEW k,
         TaskStep(t, task[t], k, run[runOf[t]], run[runOf[t]])
  PROVE  TaskInv(run, [task EXCEPT ![t] = k])
<1>1. TaskInv([run EXCEPT ![runOf[t]] = run[runOf[t]]], [task EXCEPT ![t] = k])
  BY SameRun, OneTaskKeeps
<1>2. [run EXCEPT ![runOf[t]] = run[runOf[t]]] = run
  BY DEF TypeOK
<1> QED
  BY <1>1, <1>2

\* A failure of the execution of t.
LEMMA FailOneKeeps ==
  ASSUME TypeOK, TaskInv(run, task), NEW t \in Task, NEW k,
         Live(task[t]), k.seen = task[t].seen
  PROVE  TaskInv(FailRunsOf(run, {t}), [task EXCEPT ![t] = k])
<1> DEFINE tk == [task EXCEPT ![t] = k]
<1>1. \A u \in Task : tk[u] = IF u = t THEN k ELSE task[u]
  BY DEF TypeOK
<1>2. run[runOf[t]].phase # "completed"
  BY NotCompleted
<1> HIDE DEF tk
<1>3. TaskInv(FailRunsOf(run, {t}), tk)
  BY <1>1, <1>2, FailRunsKeeps DEF TypeOK
<1> QED
  BY <1>3 DEF tk

\* cleanupRun of a Run written by rec.
LEMMA CleanedStep ==
  ASSUME NEW a \in RunRecord, NEW rec \in RunRecord, NEW busy \in BOOLEAN, RunStep(a, rec)
  PROVE  RunStep(a, Revise(Cleaned(rec, busy)))
         /\ (rec.hold => Revise(Cleaned(rec, busy)).hold)
<1> DEFINE c == Cleaned(rec, busy)
<1>1. /\ c \in RunRecord /\ c.phase = rec.phase /\ c.hold = rec.hold
      /\ c.guidance = rec.guidance
      /\ rec.cleanup = "released" => c.cleanup = "released"
  BY CleanedType DEF Cleaned, Drains, RunRecord
<1> HIDE DEF c
<1>2. /\ Revise(c).phase = rec.phase /\ Revise(c).hold = rec.hold /\ Revise(c).news
      /\ Revise(c).guidance = rec.guidance /\ Revise(c).cleanup = c.cleanup
  BY <1>1 DEF Revise, RunRecord
<1>3. RunStep(a, Revise(c)) /\ (rec.hold => Revise(c).hold)
  BY <1>1, <1>2 DEF RunStep, Open
<1> QED
  BY <1>3 DEF c

\* A Leader decides on a Run whose guidance its step knows, or leaves the news.
LEMMA DecideStep ==
  ASSUME TypeOK, TaskInv(run, task), NEW t \in Task, NEW rec \in RunRecord, Decide(t, rec),
         RunStep(run[runOf[t]], rec),
         \A u \in Task : TaskStep(u, task[u], task'[u], run[runOf[u]], run[runOf[u]]),
         task'[t].seen = task[t].seen
  PROVE  TaskInv(run', task')
<1> DEFINE r == runOf[t]
           b == [rec EXCEPT !.news = task[t].seen < rec.guidance]
           rec2 == [rec EXCEPT !.news = TRUE]
<1>0. /\ r \in Run /\ run[r] \in RunRecord /\ run' = [run EXCEPT ![r] = b]
      /\ ~Business(t) /\ Working(run[r])
  BY TopologyAssumption DEF TypeOK, Decide
<1>1. /\ b.phase = rec.phase /\ b.hold = rec.hold /\ b.cleanup = rec.cleanup
      /\ b.guidance = rec.guidance /\ b.news = (task[t].seen < rec.guidance)
      /\ rec2.phase = rec.phase /\ rec2.hold = rec.hold /\ rec2.cleanup = rec.cleanup
      /\ rec2.guidance = rec.guidance /\ rec2.news
  BY DEF RunRecord
<1>2. rec.guidance = run[r].guidance
  BY DEF RunStep
<1> HIDE DEF b, rec2
<1>3. RunStep(run[r], rec2)
  BY <1>1 DEF RunStep, Open
<1> DEFINE rs == [run EXCEPT ![r] = rec2]
<1>4. \A s \in Run : rs[s] = IF s = r THEN rec2 ELSE run[s]
  BY DEF TypeOK
<1>5. \A s \in Run : run'[s] = IF s = r THEN b ELSE run[s]
  BY <1>0 DEF TypeOK
<1> HIDE DEF rs
<1>6. \A s \in Run : RunStep(run[s], rs[s])
  BY <1>3, <1>4, SameRun
<1>7. \A u \in Task : TaskStep(u, task[u], task'[u], run[runOf[u]], rs[runOf[u]])
  BY <1>6, TopologyAssumption DEF TaskStep, RunStep
<1>8. TaskInv(rs, task')
  BY <1>6, <1>7, StepKeeps
<1>9. Held(run', task') /\ Seen(run', task') /\ Done(run', task')
  BY <1>1, <1>4, <1>5, <1>8, TopologyAssumption
     DEF TaskInv, Held, Seen, Done, Finished, Open
<1>10. Guided(run', task')
  <2> SUFFICES ASSUME NEW s \in Run, Open(run'[s]), ~run'[s].news
               PROVE  \E u \in TasksOf(s) : ~Business(u) /\ task'[u].seen = run'[s].guidance
    BY DEF Guided
  <2>1. CASE s = r
    <3>1. ~(task[t].seen < run[r].guidance)
      BY <1>1, <1>2, <1>5, <2>1
    <3>2. task[t].seen <= run[r].guidance
      BY <1>0 DEF TaskInv, Seen
    <3>3. task[t].seen \in Nat /\ run[r].guidance \in Nat
      BY <1>0 DEF TypeOK, TaskRecord, RunRecord
    <3>4. task'[t].seen = run'[r].guidance
      BY <1>0, <1>1, <1>2, <1>5, <3>1, <3>2, <3>3
    <3> QED
      BY <1>0, <2>1, <3>4 DEF TasksOf
  <2>2. CASE s # r
    BY <1>4, <1>5, <1>8, <2>2 DEF TaskInv, Guided
  <2> QED
    BY <2>1, <2>2
<1>11. Closed(run')
  BY <1>1, <1>4, <1>5, <1>8 DEF TaskInv, Closed
<1> QED
  BY <1>9, <1>10, <1>11 DEF TaskInv

\* The gate has passed a second time: the Run completes and owes nothing.
LEMMA CompletionKeeps ==
  ASSUME IInv, TaskInv(run, task), NEW t \in Task, NEW tk \in [Task -> TaskRecord],
         ~Business(t), ~Unresolved(tk[t]), tk[t].seen = task[t].seen,
         \A u \in Task : u # t => tk[u] = task[u],
         run[runOf[t]].intent = "current", GateReady(tk, runOf[t], {}),
         CleanupRun(runOf[t], [run[runOf[t]] EXCEPT !.phase = "completed"], tk)
  PROVE  TaskInv(run', tk)
<1> DEFINE r == runOf[t]
           rec == [run[r] EXCEPT !.phase = "completed"]
           c == Cleaned(rec, LiveIn(tk, r) # {})
<1>0. /\ r \in Run /\ run \in [Run -> RunRecord] /\ run[r] \in RunRecord
      /\ RunOK(run[r])
  BY TopologyAssumption DEF IInv, TypeOK, Inv
<1>1. /\ LiveIn(tk, r) = {}
      /\ \E u \in TasksOf(r) : Owed(tk[u], u)
      /\ \A u \in TasksOf(r) : Owed(tk[u], u) => tk[u].state = "completed"
  BY DEF GateReady
<1>2. /\ rec \in RunRecord /\ rec.phase = "completed" /\ rec.guidance = run[r].guidance
      /\ rec.cleanup = run[r].cleanup
  BY <1>0 DEF RunRecord, Phases
<1>3. /\ run[r].cleanup # "released" /\ ~run[r].hold /\ Open(run[r])
  BY <1>0 DEF RunOK, Working, Open
<1>4. /\ c \in RunRecord /\ c.phase = "completed" /\ c.cleanup = "released"
      /\ c.guidance = run[r].guidance
  BY <1>1, <1>2, <1>3, CleanedType DEF Cleaned, Drains, Terminal, RunRecord
<1> HIDE DEF c
<1>5. run' = [run EXCEPT ![r] = Revise(c)]
  BY DEF CleanupRun, c
<1>6. /\ Revise(c).phase = "completed" /\ Revise(c).cleanup = "released"
      /\ Revise(c).guidance = run[r].guidance
  BY <1>4 DEF Revise, RunRecord
<1>7. /\ run'[r].phase = "completed" /\ run'[r].cleanup = "released"
      /\ run'[r].guidance = run[r].guidance
      /\ \A s \in Run : s # r => run'[s] = run[s]
  BY <1>0, <1>5, <1>6
<1>8. Held(run', tk) /\ Seen(run', tk)
  BY <1>7, TopologyAssumption DEF TaskInv, Held, Seen, Open, Terminal
<1>9. Guided(run', tk)
  BY <1>7 DEF TaskInv, Guided, Open, Terminal, TasksOf
<1>10. Finished(run', tk, r)
  <2>1. ASSUME NEW u \in TasksOf(r)
        PROVE  /\ ~Live(tk[u])
               /\ Business(u) => tk[u].state \in {"absent", "completed", "cancelled"}
    <3>1. ~Live(tk[u])
      BY <1>1 DEF LiveIn
    <3>2. ~Unresolved(tk[u])
      BY <1>3 DEF TaskInv, Held, TasksOf
    <3>3. tk[u].state \in TaskStates
      BY DEF TasksOf, TaskRecord
    <3>4. Terminal(tk[u].state) => tk[u].state \in {"completed", "cancelled"}
      BY <3>2, <3>3 DEF Terminal, TaskStates, Unresolved
    <3> QED
      BY <1>1, <3>1, <3>4 DEF Owed
  <2>2. \E u \in TasksOf(r) : Business(u) /\ tk[u].state = "completed"
    BY <1>1 DEF Owed
  <2> QED
    BY <1>7, <2>1, <2>2 DEF Finished
<1>11. Done(run', tk)
  BY <1>7, <1>10, TopologyAssumption DEF TaskInv, Done, Finished, TasksOf
<1>12. Closed(run')
  BY <1>7 DEF TaskInv, Closed
<1> QED
  BY <1>8, <1>9, <1>11, <1>12 DEF TaskInv

LEMMA SettledTasks ==
  ASSUME IInv, TaskInv(run, task), NEW t \in Task, NEW ok \in BOOLEAN,
         SettledBusiness(t, ok) \/ SettledLeader(t, ok)
  PROVE  TaskInv(run', task')
<1> DEFINE r == runOf[t]
           rec == run[r]
<1>0. /\ TypeOK /\ task[t] \in TaskRecord /\ r \in Run /\ rec \in RunRecord /\ RunOK(rec)
  BY TopologyAssumption DEF IInv, TypeOK, Inv
<1>1. Live(task[t])
  BY DEF SettledBusiness, SettledLeader, Live
<1>2. rec.phase # "completed"
  BY <1>1, NotCompleted
<1>3. /\ Release(task[t]) \in TaskRecord /\ Release(task[t]).seen = task[t].seen
      /\ Revise(rec) \in RunRecord /\ RunStep(rec, Revise(rec))
  BY <1>0, TaskTypes, ReviseType, ReviseStep DEF Release, TaskRecord
<1> DEFINE done == [Release(task[t]) EXCEPT !.state = "completed"]
           lost == [Release(task[t]) EXCEPT !.state = "needs_review"]
<1>4. /\ done \in TaskRecord /\ done.seen = task[t].seen /\ done.state = "completed"
      /\ lost.seen = task[t].seen
  BY <1>3 DEF TaskRecord, TaskStates
<1> HIDE DEF done, lost
<1>5. \A b : TaskStep(t, task[t], done, rec, b)
  BY <1>2, <1>4 DEF TaskStep, Unresolved
<1> DEFINE tk == [task EXCEPT ![t] = done]
<1>6. CASE SettledBusiness(t, ok)
  <2>1. CASE ok
    <3>1. task' = tk /\ run' = [run EXCEPT ![r] = Revise(rec)]
      BY <1>6, <2>1 DEF SettledBusiness, SetTask, done
    <3>2. TaskInv([run EXCEPT ![r] = Revise(rec)], tk)
      BY <1>0, <1>3, <1>5, OneTaskKeeps
    <3> QED
      BY <3>1, <3>2
  <2>2. CASE ~ok
    <3>1. task' = [task EXCEPT ![t] = lost] /\ run' = FailRunsOf(run, {t})
      BY <1>6, <2>2 DEF SettledBusiness, SetTask, lost
    <3> QED
      BY <1>0, <1>1, <1>4, <3>1, FailOneKeeps
  <2> QED
    BY <2>1, <2>2
<1>7. CASE SettledLeader(t, ok)
  <2>1. task' = tk /\ ~Business(t)
    BY <1>7 DEF SettledLeader, done
  <2>2. CASE run' = run
    <3>1. TaskInv(run, tk)
      BY <1>0, <1>5, TaskAloneKeeps
    <3> QED
      BY <2>1, <2>2, <3>1
  <2>3. CASE run' = [run EXCEPT ![r] = [Revise(rec) EXCEPT !.intent = "none"]]
    <3> DEFINE b == [Revise(rec) EXCEPT !.intent = "none"]
    <3>1. RunStep(rec, b)
      BY <1>3 DEF RunStep, RunRecord, Open
    <3> HIDE DEF b
    <3>2. TaskInv([run EXCEPT ![r] = b], tk)
      BY <1>0, <1>5, <3>1, OneTaskKeeps
    <3> QED
      BY <2>1, <2>3, <3>2 DEF b
  <2>4. CASE run' = [run EXCEPT ![r] = [Revise(rec) EXCEPT !.intent = "none", !.hold = TRUE,
                                                           !.phase = "needs_review"]]
    <3> DEFINE b == [Revise(rec) EXCEPT !.intent = "none", !.hold = TRUE,
                                        !.phase = "needs_review"]
    <3>0. /\ b.phase = "needs_review" /\ b.hold /\ b.news = Revise(rec).news
          /\ b.cleanup = Revise(rec).cleanup /\ b.guidance = Revise(rec).guidance
      BY <1>3 DEF RunRecord
    <3> HIDE DEF b
    <3>1. RunStep(rec, b)
      <4>1. Revise(rec).news
        BY <1>0 DEF Revise, RunRecord
      <4> QED
        BY <1>2, <1>3, <3>0, <4>1 DEF RunStep
    <3>2. TaskInv([run EXCEPT ![r] = b], tk)
      BY <1>0, <1>5, <3>1, OneTaskKeeps
    <3> QED
      BY <2>1, <2>4, <3>2 DEF b
  <2>5. CASE /\ rec.intent = "current" /\ GateReady(tk, r, {})
             /\ CleanupRun(r, [rec EXCEPT !.phase = "completed"], tk)
    <3>1. /\ tk \in [Task -> TaskRecord] /\ tk[t] = done
          /\ \A u \in Task : u # t => tk[u] = task[u]
      BY <1>0, <1>4 DEF TypeOK
    <3> HIDE DEF tk
    <3>2. ~Unresolved(tk[t]) /\ tk[t].seen = task[t].seen
      BY <1>4, <3>1 DEF Unresolved
    <3>3. TaskInv(run', tk)
      BY <2>1, <2>5, <3>1, <3>2, CompletionKeeps
    <3> QED
      BY <2>1, <3>3
  <2> QED
    BY <1>7, <2>2, <2>3, <2>4, <2>5 DEF SettledLeader, done
<1> QED
  BY <1>6, <1>7

LEMMA DecideTasks ==
  ASSUME IInv, TaskInv(run, task), NEW t \in Task,
         \/ \E P \in SUBSET Unplanned(runOf[t]) : DecideDispatch(t, P)
         \/ DecideWait(t) \/ DecideComplete(t)
  PROVE  TaskInv(run', task')
<1> DEFINE r == runOf[t]
           rec == run[r]
<1>0. /\ TypeOK /\ task[t] \in TaskRecord /\ r \in Run /\ rec \in RunRecord
  BY TopologyAssumption DEF IInv, TypeOK
<1>1. /\ ~Business(t) /\ Working(rec) /\ Live(task[t])
  BY DEF DecideDispatch, DecideWait, DecideComplete, Decide, Live
<1>2. rec.phase # "absent" /\ Open(rec)
  BY <1>0, <1>1 DEF IInv, Inv, RunOK, Working, Open
<1>3. /\ Revise(rec) \in RunRecord /\ RunStep(rec, Revise(rec))
      /\ Revise(rec).news /\ Revise(rec).phase = rec.phase /\ Revise(rec).hold = rec.hold
  BY <1>0, ReviseType, ReviseStep DEF Revise, RunRecord
<1>4. /\ Proposed(task[t]).seen = task[t].seen
      /\ TaskStep(t, task[t], Proposed(task[t]), rec, rec)
  <2>1. Proposed(task[t]).seen = task[t].seen /\ Proposed(task[t]).state = "result_proposed"
    BY <1>0 DEF Proposed, TaskRecord
  <2> QED
    BY <1>1, <2>1 DEF TaskStep, Unresolved, Working, Terminal
<1>5. ASSUME task' = [task EXCEPT ![t] = Proposed(task[t])]
      PROVE  /\ \A u \in Task : TaskStep(u, task[u], task'[u], run[runOf[u]], run[runOf[u]])
             /\ task'[t].seen = task[t].seen
  <2>1. \A u \in Task : task'[u] = IF u = t THEN Proposed(task[t]) ELSE task[u]
    BY <1>0, <1>5 DEF TypeOK
  <2> QED
    BY <1>4, <2>1, SameTask
<1>6. ASSUME NEW P \in SUBSET Unplanned(r), DecideDispatch(t, P)
      PROVE  TaskInv(run', task')
  <2> DEFINE new == [Revise(rec) EXCEPT !.phase = "running"]
  <2>1. new \in RunRecord /\ RunStep(rec, new)
    BY <1>1, <1>2, <1>3 DEF RunStep, RunRecord, Phases, Open, Working, Terminal
  <2>2. Decide(t, new) /\ task' = [Plan(task, P) EXCEPT ![t] = Proposed(@)]
    BY <1>6 DEF DecideDispatch
  <2>3. /\ \A u \in P : u \in Task /\ Business(u) /\ runOf[u] = r
        /\ t \notin P
    BY <1>1 DEF Unplanned, TasksOf
  <2>4. \A u \in Task : task'[u] = CASE u \in P -> NewTask("planned", 0)
                                      [] u = t -> Proposed(task[t])
                                      [] OTHER -> task[u]
    BY <2>2, <2>3 DEF Plan
  <2>5. \A u \in Task : TaskStep(u, task[u], task'[u], run[runOf[u]], run[runOf[u]])
    <3> TAKE u \in Task
    <3>1. CASE u \in P
      <4>1. task'[u] = NewTask("planned", 0)
        BY <2>3, <2>4, <3>1
      <4>2. Business(u) /\ run[runOf[u]].phase # "completed"
        BY <1>1, <2>3, <3>1 DEF Working, Terminal
      <4> QED
        BY <4>1, <4>2 DEF TaskStep, NewTask, Unresolved
    <3>2. CASE u = t
      BY <1>4, <2>3, <2>4, <3>2
    <3>3. CASE u \notin P /\ u # t
      BY <2>4, <3>3, SameTask
    <3> QED
      BY <3>1, <3>2, <3>3
  <2>6. task'[t].seen = task[t].seen
    BY <1>4, <2>3, <2>4
  <2> HIDE DEF new
  <2> QED
    BY <1>0, <2>1, <2>2, <2>5, <2>6, DecideStep
<1>7. CASE DecideWait(t)
  <2>1. Decide(t, Revise(rec)) /\ task' = [task EXCEPT ![t] = Proposed(task[t])]
    BY <1>7 DEF DecideWait, SetTask
  <2> QED
    BY <1>0, <1>3, <1>5, <2>1, DecideStep
<1>8. CASE DecideComplete(t)
  <2> DEFINE new == [Revise(rec) EXCEPT !.intent = "current"]
  <2>1. Decide(t, new) /\ task' = [task EXCEPT ![t] = Proposed(task[t])]
    BY <1>8 DEF DecideComplete, SetTask
  <2>2. new \in RunRecord /\ RunStep(rec, new)
    BY <1>3 DEF RunStep, RunRecord, Open
  <2> HIDE DEF new
  <2> QED
    BY <1>0, <1>5, <2>1, <2>2, DecideStep
<1> QED
  BY <1>6, <1>7, <1>8

LEMMA AdapterTasks ==
  ASSUME IInv, TaskInv(run, task), NEW t \in Task, AdapterStep(t)
  PROVE  TaskInv(run', task')
<1> DEFINE r == runOf[t]
<1>0. /\ TypeOK /\ task[t] \in TaskRecord /\ r \in Run /\ run[r] \in RunRecord
  BY TopologyAssumption DEF IInv, TypeOK
<1>1. CASE InjectionRequested(t) \/ InputObserved(t) \/ ResultProposed(t) \/ Suspend(t)
  <2>1. run[r].phase # "completed"
    <3>1. Live(task[t])
      BY <1>1 DEF InjectionRequested, InputObserved, ResultProposed, Suspend, Live
    <3> QED
      BY <3>1, NotCompleted
  <2>2. PICK k : /\ task' = [task EXCEPT ![t] = k] /\ run' = run
                 /\ k.seen = task[t].seen
                 /\ k.state \in {task[t].state, "running", "result_proposed",
                                 "waiting_dependency"}
    <3>1. /\ \A x \in {"running", "proposed", "suspended"},
                y \in {"running", "result_proposed", "waiting_dependency"} :
               LET k == [task[t] EXCEPT !.exec = x, !.state = y] IN
               k.seen = task[t].seen /\ k.state = y
          /\ LET k == [task[t] EXCEPT !.fresh = FALSE] IN
             k.seen = task[t].seen /\ k.state = task[t].state
      BY <1>0 DEF TaskRecord
    <3> QED
      BY <1>1, <3>1 DEF InjectionRequested, InputObserved, ResultProposed, Suspend, SetTask
  <2>3. TaskStep(t, task[t], k, run[r], run[r])
    BY <2>1, <2>2 DEF TaskStep, Unresolved
  <2> QED
    BY <1>0, <2>2, <2>3, TaskAloneKeeps
<1>2. CASE SettledFailed(t) \/ SettledMissing(t) \/ Interrupt(t)
  <2>1. Live(task[t])
    BY <1>2 DEF SettledFailed, SettledMissing, Interrupt, Accepting, Live
  <2>2. PICK k : /\ task' = [task EXCEPT ![t] = k] /\ run' = FailRunsOf(run, {t})
                 /\ k.seen = task[t].seen
    <3>1. /\ [Release(task[t]) EXCEPT !.state = "interrupted"].seen = task[t].seen
          /\ [task[t] EXCEPT !.exec = "needs_review", !.state = "needs_review"].seen
               = task[t].seen
          /\ Interrupted(task[t]).seen = task[t].seen
      BY <1>0 DEF Release, Interrupted, TaskRecord
    <3> QED
      BY <1>2, <3>1 DEF SettledFailed, SettledMissing, Interrupt, SetTask
  <2> QED
    BY <1>0, <2>1, <2>2, FailOneKeeps
<1>3. CASE Stopped(t)
  <2> DEFINE k == Release(task[t])
             tk == [task EXCEPT ![t] = k]
             busy == LiveIn(tk, r) # {}
             b == Revise(Cleaned(run[r], busy))
  <2>1. task' = tk /\ run' = [run EXCEPT ![r] = b]
    BY <1>3 DEF Stopped, CleanupRun
  <2>2. RunStep(run[r], b)
    BY <1>0, SameRun, CleanedStep
  <2>3. Live(task[t])
    BY <1>3 DEF Stopped, Live
  <2>4. run[r].phase # "completed"
    BY <2>3, NotCompleted
  <2>5. k.seen = task[t].seen /\ k.state = task[t].state
    BY <1>0 DEF Release, TaskRecord
  <2> HIDE DEF k, b
  <2>6. TaskStep(t, task[t], k, run[r], b)
    BY <2>4, <2>5 DEF TaskStep, Unresolved
  <2>7. TaskInv([run EXCEPT ![r] = b], [task EXCEPT ![t] = k])
    BY <1>0, <2>2, <2>6, OneTaskKeeps
  <2> QED
    BY <2>1, <2>7
<1> QED
  BY <1>1, <1>2, <1>3, SettledTasks, DecideTasks DEF AdapterStep

-----------------------------------------------------------------------------
(* The operator, the Leader's identity, a new Controller process.          *)

LEMMA CreateRunTasks ==
  ASSUME IInv, TaskInv(run, task), NEW r \in Run, NEW P \in SUBSET Unplanned(r),
         CreateRun(r, P)
  PROVE  TaskInv(run', task')
<1> DEFINE new == [run[r] EXCEPT !.phase = "queued_run", !.seq = queueSeq + 1,
                                 !.leader = lead[teamOf[r]].epoch, !.news = TRUE]
           rs == [run EXCEPT ![r] = new]
           tk == Plan(task, P)
           A == Admissible(rs)
<1>0. run[r] \in RunRecord /\ run \in [Run -> RunRecord] /\ run[r].phase = "absent"
  BY DEF IInv, TypeOK, CreateRun, Absent
<1>1. /\ new.phase = "queued_run" /\ new.hold = run[r].hold /\ new.news
      /\ new.guidance = run[r].guidance /\ new.cleanup = run[r].cleanup
  BY <1>0 DEF RunRecord
<1>2. new \in RunRecord
  <2>1. lead[teamOf[r]].epoch \in Nat /\ queueSeq + 1 \in Nat
    BY TopologyAssumption DEF IInv, TypeOK, LeadRecord
  <2> QED
    BY <1>0, <2>1 DEF RunRecord, Phases
<1>3. run' = Admit(rs, A) /\ task' = tk
  BY DEF CreateRun
<1> HIDE DEF new
<1>4. /\ rs \in [Run -> RunRecord]
      /\ \A s \in Run : rs[s] = IF s = r THEN new ELSE run[s]
  BY <1>0, <1>2
<1> HIDE DEF rs
<1>5. /\ \A t \in P : t \in Task /\ Business(t) /\ runOf[t] = r
      /\ \A t \in Task : tk[t] = IF t \in P THEN NewTask("planned", 0) ELSE task[t]
  BY DEF Unplanned, TasksOf, Plan
<1> HIDE DEF tk
<1>6. \A t \in P : ~Unresolved(tk[t])
  BY <1>5 DEF NewTask, Unresolved
<1>7. \A t \in Task : runOf[t] = r => ~Unresolved(tk[t])
  BY <1>0, <1>5, <1>6 DEF IInv, Inv, AtHome, Unresolved
<1>8. TaskInv(rs, tk)
  <2>1. Held(rs, tk)
    BY <1>4, <1>5, <1>7, TopologyAssumption DEF TaskInv, Held
  <2>2. Seen(rs, tk)
    BY <1>1, <1>4, <1>5, TopologyAssumption DEF TaskInv, Seen
  <2>3. Guided(rs, tk)
    BY <1>1, <1>4, <1>5 DEF TaskInv, Guided, TasksOf
  <2>4. Done(rs, tk)
    BY <1>1, <1>4, <1>5 DEF TaskInv, Done, Finished, TasksOf
  <2>5. Closed(rs)
    BY <1>1, <1>4 DEF TaskInv, Closed
  <2> QED
    BY <2>1, <2>2, <2>3, <2>4, <2>5 DEF TaskInv
<1>9. TaskInv(Admit(rs, A), tk)
  BY <1>4, <1>8, AdmitStep, SameTask, StepKeeps
<1> QED
  BY <1>3, <1>9

LEMMA OperatorTasks ==
  ASSUME IInv, TaskInv(run, task), OperatorStep
  PROVE  TaskInv(run', task')
<1>0. /\ TypeOK /\ run \in [Run -> RunRecord] /\ task \in [Task -> TaskRecord]
  BY DEF IInv, TypeOK
<1>1. ASSUME NEW r \in Run, RunCancel(r)
      PROVE  TaskInv(run', task')
  <2> DEFINE tk == [t \in Task |-> IF /\ runOf[t] = r /\ task[t].state # "absent"
                                      /\ ~Terminal(task[t].state)
                                   THEN Cancelled(task[t]) ELSE task[t]]
             rec == [run[r] EXCEPT !.phase = "cancelled", !.hold = TRUE]
             b == Revise(Cleaned(rec, LiveIn(tk, r) # {}))
  <2>1. run[r] \in RunRecord /\ run[r].cleanup # "released"
    BY <1>0, <1>1 DEF RunCancel
  <2>2. run[r].phase # "completed"
    BY <2>1 DEF TaskInv, Done, Finished
  <2>3. rec \in RunRecord /\ RunStep(run[r], rec)
    BY <2>1, <2>2 DEF RunRecord, Phases, RunStep, Open, Terminal
  <2>4. run' = [run EXCEPT ![r] = b] /\ task' = tk
    BY <1>1 DEF RunCancel, CleanupRun
  <2>5. /\ rec.phase = "cancelled"
        /\ RunStep(run[r], b) /\ b.phase = "cancelled"
    <3>1. rec.phase = "cancelled"
      BY <2>1 DEF RunRecord
    <3> HIDE DEF rec, tk
    <3>2. RunStep(run[r], b)
      BY <2>1, <2>3, CleanedStep
    <3>3. b.phase = rec.phase
      BY <2>3 DEF Cleaned, Revise, RunRecord
    <3> QED
      BY <3>1, <3>2, <3>3
  <2> HIDE DEF b
  <2>6. \A s \in Run : run'[s] = IF s = r THEN b ELSE run[s]
    BY <1>0, <2>4
  <2>7. ASSUME NEW t \in Task
        PROVE  TaskStep(t, task[t], tk[t], run[runOf[t]], run'[runOf[t]])
    <3>1. CASE runOf[t] = r
      <4>1. task[t] \in TaskRecord
        BY <1>0
      <4>2. Cancelled(task[t]).seen = task[t].seen
        BY <4>1 DEF Cancelled, Release, TaskRecord
      <4>3. tk[t].seen = task[t].seen
        BY <4>2
      <4> HIDE DEF tk
      <4> QED
        BY <2>2, <2>5, <2>6, <3>1, <4>3 DEF TaskStep, Open, Terminal
    <3>2. CASE runOf[t] # r
      BY <3>2, SameTask
    <3> QED
      BY <3>1, <3>2
  <2>8. \A s \in Run : RunStep(run[s], run'[s])
    BY <2>5, <2>6, SameRun
  <2> HIDE DEF tk
  <2>9. TaskInv(run', tk)
    BY <2>7, <2>8, StepKeeps
  <2> QED
    BY <2>4, <2>9
<1>2. ASSUME NEW r \in Run, RunResume(r) \/ RunGuidance(r)
      PROVE  TaskInv(run', task')
  <2> DEFINE a == Revise(run[r])
  <2>1. Open(run[r]) /\ run[r] \in RunRecord /\ task' = task
    BY <1>0, <1>2 DEF RunResume, RunGuidance
  <2>2. /\ a \in RunRecord /\ a.news /\ a.guidance = run[r].guidance /\ a.phase = run[r].phase
        /\ a.hold = run[r].hold /\ a.cleanup = run[r].cleanup
    BY <2>1, ReviseType DEF Revise, RunRecord
  <2>3. PICK b : /\ run' = [run EXCEPT ![r] = b]
                 /\ b.news /\ Open(b) /\ b.phase # "completed"
                 /\ b.guidance \in {run[r].guidance, run[r].guidance + 1}
                 /\ ~b.hold => \/ ~run[r].hold
                               \/ \A t \in TasksOf(r) : ~Unresolved(task[t])
    <3>1. CASE RunResume(r)
      <4> DEFINE ph == IF run[r].admitted THEN "running" ELSE "queued_run"
                 b == [a EXCEPT !.leader = lead[teamOf[r]].epoch, !.hold = FALSE, !.phase = ph]
      <4>1. run' = [run EXCEPT ![r] = b] /\ \A t \in TasksOf(r) : ~Unresolved(task[t])
        BY <3>1 DEF RunResume, Unresolved
      <4> HIDE DEF a
      <4>2. b.news /\ b.phase = ph /\ b.guidance = run[r].guidance
        BY <2>2 DEF RunRecord
      <4> HIDE DEF b
      <4>3. Open(b) /\ b.phase # "completed"
        BY <4>2 DEF Open, Terminal
      <4> QED
        BY <4>1, <4>2, <4>3
    <3>2. CASE RunGuidance(r)
      <4> DEFINE b == [a EXCEPT !.guidance = run[r].guidance + 1]
      <4>1. run' = [run EXCEPT ![r] = b]
        BY <3>2 DEF RunGuidance
      <4> HIDE DEF a
      <4>2. /\ b.news /\ b.phase = run[r].phase /\ b.guidance = run[r].guidance + 1
            /\ b.hold = run[r].hold
        BY <2>2 DEF RunRecord
      <4> HIDE DEF b
      <4>3. Open(b) /\ b.phase # "completed"
        BY <2>1, <4>2 DEF Open, Terminal
      <4> QED
        BY <4>1, <4>2, <4>3
    <3> QED
      BY <1>2, <3>1, <3>2
  <2>4. \A s \in Run : run'[s] = IF s = r THEN b ELSE run[s]
    BY <1>0, <2>3
  <2>5. Held(run', task)
    BY <2>1, <2>3, <2>4, TopologyAssumption DEF TaskInv, Held, TasksOf
  <2>6. Seen(run', task)
    <3>1. \A s \in Run : run[s].guidance \in Nat
      BY <1>0 DEF RunRecord
    <3>2. \A t \in Task : task[t].seen \in Nat
      BY <1>0 DEF TaskRecord
    <3> QED
      BY <2>3, <2>4, <3>1, <3>2, TopologyAssumption DEF TaskInv, Seen
  <2>7. Guided(run', task)
    BY <2>3, <2>4 DEF TaskInv, Guided
  <2>8. Done(run', task)
    BY <2>3, <2>4 DEF TaskInv, Done, Finished
  <2>9. Closed(run')
    BY <2>3, <2>4 DEF TaskInv, Closed, Open, Terminal
  <2> QED
    BY <2>1, <2>5, <2>6, <2>7, <2>8, <2>9 DEF TaskInv
<1>3. ASSUME NEW t \in Task, CreateTask(t) \/ TaskCancel(t) \/ TaskRetry(t) \/ TaskRecover(t)
      PROVE  TaskInv(run', task')
  <2>0. task[t] \in TaskRecord /\ run' = run
    BY <1>0, <1>3 DEF CreateTask, TaskCancel, TaskRetry, TaskRecover
  <2>1. CASE CreateTask(t)
    <3>1. task' = [task EXCEPT ![t] = NewTask("queued", 0)]
      BY <2>1 DEF CreateTask
    <3>2. Business(t) /\ run[runOf[t]].phase # "completed"
      BY <2>1 DEF CreateTask, Open, Terminal
    <3>3. TaskStep(t, task[t], NewTask("queued", 0), run[runOf[t]], run[runOf[t]])
      BY <3>2 DEF TaskStep, NewTask, Unresolved
    <3> QED
      BY <1>0, <2>0, <3>1, <3>3, TaskAloneKeeps
  <2>2. CASE TaskCancel(t)
    <3>1. task' = [task EXCEPT ![t] = Cancelled(task[t])]
      BY <2>2 DEF TaskCancel, SetTask
    <3>2. run[runOf[t]].phase = "completed" => ~Business(t)
      BY <2>2, NotCompleted DEF TaskCancel
    <3>3. /\ Cancelled(task[t]).seen = task[t].seen
          /\ Cancelled(task[t]).state \in {task[t].state, "cancelled"}
          /\ Live(Cancelled(task[t])) => Live(task[t])
      BY <2>0 DEF Cancelled, Release, TaskRecord, Live
    <3>4. TaskStep(t, task[t], Cancelled(task[t]), run[runOf[t]], run[runOf[t]])
      BY <3>2, <3>3 DEF TaskStep, Unresolved
    <3> QED
      BY <1>0, <2>0, <3>1, <3>4, TaskAloneKeeps
  <2>3. CASE TaskRetry(t) \/ TaskRecover(t)
    <3>1. PICK st \in {"queued", "completed"} : task' = [task EXCEPT ![t] = [@ EXCEPT !.state = st]]
      BY <2>3 DEF TaskRetry, TaskRecover, SetTask
    <3> DEFINE k == [task[t] EXCEPT !.state = st]
    <3>2. run[runOf[t]].phase = "completed" => ~Business(t)
      <4>1. CASE TaskRetry(t)
        BY <4>1 DEF TaskRetry, Open, Terminal
      <4>2. CASE TaskRecover(t)
        BY <4>2, NotCompleted DEF TaskRecover
      <4> QED
        BY <2>3, <4>1, <4>2
    <3>3. k.seen = task[t].seen /\ k.state = st /\ k.exec = task[t].exec
      BY <2>0 DEF TaskRecord
    <3> HIDE DEF k
    <3>4. TaskStep(t, task[t], k, run[runOf[t]], run[runOf[t]])
      BY <3>2, <3>3 DEF TaskStep, Unresolved, Live
    <3>5. TaskInv(run, [task EXCEPT ![t] = k])
      BY <1>0, <3>4, TaskAloneKeeps
    <3> QED
      BY <2>0, <3>1, <3>5 DEF k
  <2> QED
    BY <1>3, <2>1, <2>2, <2>3
<1>4. ASSUME NEW t \in Task, TaskVerdict(t)
      PROVE  TaskInv(run', task')
  <2>1. /\ runOf[t] \in Run /\ run[runOf[t]] \in RunRecord
        /\ run' = [run EXCEPT ![runOf[t]] = Revise(run[runOf[t]])] /\ task' = task
    BY <1>0, <1>4, TopologyAssumption DEF TaskVerdict
  <2>2. \A s \in Run : RunStep(run[s], run'[s])
    BY <1>0, <2>1, ReviseStep, SameRun
  <2> QED
    BY <2>1, <2>2, SameTask, StepKeeps
<1>5. ASSUME NEW t \in Task, Reconcile(t)
      PROVE  TaskInv(run', task')
  <2> DEFINE r == runOf[t]
             k0 == Release(task[t])
             k == [k0 EXCEPT !.state = IF Terminal(@) THEN @ ELSE "interrupted"]
             tk == [task EXCEPT ![t] = k]
             rec == IF Terminal(k0.state) THEN run[r] ELSE Fail(run[r])
             b == Revise(Cleaned(rec, LiveIn(tk, r) # {}))
  <2>0. r \in Run /\ run[r] \in RunRecord /\ task[t] \in TaskRecord
    BY <1>0, TopologyAssumption
  <2>1. task' = tk /\ run' = [run EXCEPT ![r] = b]
    BY <1>5 DEF Reconcile, CleanupRun
  <2>2. run[r].phase # "completed"
    BY <1>5, NotCompleted DEF Reconcile
  <2>3. rec \in RunRecord /\ RunStep(run[r], rec) /\ (~Terminal(k0.state) => rec.hold)
    BY <2>0, FailType, FailStep, SameRun
  <2>4. /\ k.seen = task[t].seen
        /\ k.state = IF Terminal(task[t].state) THEN task[t].state ELSE "interrupted"
        /\ k0.state = task[t].state
    BY <2>0 DEF Release, TaskRecord
  <2> HIDE DEF rec, k, k0
  <2>5. RunStep(run[r], b) /\ (rec.hold => b.hold)
    BY <2>0, <2>3, CleanedStep
  <2> HIDE DEF b
  <2>6. TaskStep(t, task[t], k, run[r], b)
    BY <2>2, <2>3, <2>4, <2>5 DEF TaskStep, Unresolved
  <2>7. TaskInv([run EXCEPT ![r] = b], [task EXCEPT ![t] = k])
    BY <1>0, <2>5, <2>6, OneTaskKeeps
  <2> QED
    BY <2>1, <2>7
<1> QED
  BY <1>1, <1>2, <1>3, <1>4, <1>5, CreateRunTasks DEF OperatorStep

LEMMA LeaderTasks ==
  ASSUME IInv, TaskInv(run, task), LeaderStep
  PROVE  TaskInv(run', task')
<1>0. /\ run \in [Run -> RunRecord] /\ task \in [Task -> TaskRecord]
  BY DEF IInv, TypeOK
<1>1. PICK m \in Team : LeaderSilent(m) \/ LeaderHeartbeat(m) \/ LeaderRegister(m)
                          \/ LeaderRelease(m)
  BY DEF LeaderStep
<1>2. CASE LeaderSilent(m) \/ LeaderHeartbeat(m) \/ LeaderRelease(m)
  BY <1>2 DEF LeaderSilent, LeaderHeartbeat, LeaderRelease
<1>3. CASE LeaderRegister(m)
  <2>1. \A t \in Task : task'[t] = IF t \in StepsOfTeam(m) THEN Interrupted(task[t]) ELSE task[t]
    BY <1>3 DEF LeaderRegister
  <2>2. \A t \in Task : Interrupted(task[t]).seen = task[t].seen
    BY <1>0 DEF Interrupted, TaskRecord
  <2>3. \A t \in StepsOfTeam(m) : run[runOf[t]].phase # "completed"
    BY NotCompleted DEF StepsOfTeam
  <2>4. run' = FailRunsOf(run, StepsOfTeam(m))
    BY <1>3 DEF LeaderRegister
  <2> QED
    BY <1>0, <2>1, <2>2, <2>3, <2>4, FailRunsKeeps
<1> QED
  BY <1>1, <1>2, <1>3

LEMMA RestartTasks ==
  ASSUME IInv, TaskInv(run, task), Restart
  PROVE  TaskInv(run', task')
<1>0. /\ run \in [Run -> RunRecord] /\ task \in [Task -> TaskRecord]
  BY DEF IInv, TypeOK
<1>1. ASSUME NEW r \in Run
      PROVE  /\ RunStep(run[r], run'[r])
             /\ Holding(run[r]) => run'[r].hold
  <2>1. run[r] \in RunRecord /\ RunOK(run[r])
    BY <1>0 DEF IInv, Inv
  <2>2. CASE Absent(r) \/ run[r].cleanup = "released"
    <3>1. run'[r] = run[r] /\ ~Holding(run[r])
      BY <2>1, <2>2 DEF Restart, Absent, RunOK, Holding
    <3> QED
      BY <3>1, SameRun
  <2>3. CASE ~Absent(r) /\ run[r].cleanup # "released"
    <3>1. run'[r] = [Revise(run[r]) EXCEPT !.hold = TRUE]
      BY <2>3 DEF Restart
    <3>2. Revise(run[r]) \in RunRecord /\ RunStep(run[r], Revise(run[r]))
      BY <2>1, ReviseType, ReviseStep
    <3> QED
      BY <3>1, <3>2 DEF RunStep, RunRecord, Open
  <2> QED
    BY <2>2, <2>3
<1>2. ASSUME NEW t \in Task
      PROVE  TaskStep(t, task[t], task'[t], run[runOf[t]], run'[runOf[t]])
  <2>0. task[t] \in TaskRecord
    BY <1>0
  <2>1. CASE Live(task[t])
    <3>1. task'[t] = [task[t] EXCEPT !.exec = "needs_review", !.state = "needs_review"]
      BY <2>1 DEF Restart
    <3>2. task'[t].seen = task[t].seen
      BY <2>0, <3>1 DEF TaskRecord
    <3>3. run'[runOf[t]].hold
      BY <1>1, <2>1, TopologyAssumption DEF IInv, Inv, AtHome
    <3>4. run[runOf[t]].phase # "completed"
      BY <2>1, NotCompleted
    <3> QED
      BY <3>2, <3>3, <3>4 DEF TaskStep
  <2>2. CASE ~Live(task[t])
    BY <2>2, SameTask DEF Restart
  <2> QED
    BY <2>1, <2>2
<1> QED
  BY <1>1, <1>2, StepKeeps

-----------------------------------------------------------------------------
(* The theorems.                                                           *)

LEMMA InitTasks == Init => TaskInv(run, task)
<1> SUFFICES ASSUME Init PROVE TaskInv(run, task)
  OBVIOUS
<1>1. \A r \in Run : run[r].phase = "absent" /\ run[r].guidance = 0
  BY DEF Init
<1>2. \A t \in Task : task[t].state = "absent" /\ task[t].seen = 0
  BY DEF Init, NewTask
<1> QED
  BY <1>1, <1>2, TopologyAssumption DEF TaskInv, Held, Seen, Guided, Done, Closed, Open, Unresolved

LEMMA NextTasks == IInv /\ TaskInv(run, task) /\ [Next]_vars => TaskInv(run, task)'
<1> SUFFICES ASSUME IInv, TaskInv(run, task), [Next]_vars PROVE TaskInv(run', task')
  BY DEF TaskInv, Held, Seen, Guided, Done, Closed, Finished
<1>1. CASE Tick
  BY <1>1, TickTasks DEF IInv, Stage
<1>2. CASE UNCHANGED vars
  BY <1>2 DEF vars
<1> QED
  BY <1>1, <1>2, RestartTasks, OperatorTasks, LeaderTasks, AdapterTasks DEF Next

\* Unresolved work holds its Run, guidance is remembered and a completed Run is
\* finished, in every reachable state.
THEOREM TasksInvariant == Spec => []TaskInv(run, task)
<1> QED
  BY InductiveInvariant, InitTasks, NextTasks, PTL DEF Spec

\* A Run whose Leader's completion went through never owes anything again,
\* whatever guidance, Tasks, retries, restarts or lost control came between.
THEOREM CompletedDone == Spec => []CompletedMeansDone
<1>1. TaskInv(run, task) => CompletedMeansDone
  BY DEF TaskInv, Done, Finished, CompletedMeansDone, TasksOf, LiveIn
<1> QED
  BY <1>1, TasksInvariant, PTL

\* Nothing that waits for the operator is worked around: its Run is held.
THEOREM UnresolvedHeld == Spec => []UnresolvedImpliesHold
<1>1. TaskInv(run, task) => UnresolvedImpliesHold
  BY DEF TaskInv, Held, Unresolved, UnresolvedImpliesHold
<1> QED
  BY <1>1, TasksInvariant, PTL

\* Guidance that arrives while a LeaderStep runs or settles is never lost.
THEOREM GuidanceKept == Spec => []GuidanceReachesLeader
<1>1. TaskInv(run, task) => GuidanceReachesLeader
  BY DEF TaskInv, Guided, GuidanceReachesLeader
<1> QED
  BY <1>1, TasksInvariant, PTL

-----------------------------------------------------------------------------
(* Only a Tick starts anything.                                            *)

NothingStarted == \A t \in Task : StartsNot(task[t], task'[t])

LEMMA OneTaskStartsNothing ==
  ASSUME task \in [Task -> TaskRecord], NEW t \in Task, NEW k,
         task' = [task EXCEPT ![t] = k],
         StartsNot(task[t], k)
  PROVE  NothingStarted
BY DEF NothingStarted, StartsNot

\* The ways in which anything but a Tick writes an Attempt.
LEMMA WritesStartNothing ==
  ASSUME NEW k \in TaskRecord
  PROVE  /\ \A st \in TaskStates : /\ StartsNot(k, [k EXCEPT !.state = st])
                                   /\ StartsNot(k, [Release(k) EXCEPT !.state = st])
         /\ \A st \in TaskStates, ex \in Executions \ {"admitted"} :
              Live(k) => StartsNot(k, [k EXCEPT !.exec = ex, !.state = st])
         /\ StartsNot(k, [k EXCEPT !.fresh = FALSE])
         /\ StartsNot(k, Release(k)) /\ StartsNot(k, Cancelled(k))
         /\ Live(k) => StartsNot(k, Interrupted(k)) /\ StartsNot(k, Proposed(k))
<1>1. /\ \A st \in TaskStates : /\ [k EXCEPT !.state = st].exec = k.exec
                                /\ [Release(k) EXCEPT !.state = st].exec = "released"
      /\ \A st \in TaskStates, ex \in Executions : [k EXCEPT !.exec = ex, !.state = st].exec = ex
      /\ [k EXCEPT !.fresh = FALSE].exec = k.exec
      /\ Release(k).exec = "released"
      /\ Interrupted(k).exec = "interrupted" /\ Proposed(k).exec = "proposed"
  BY DEF TaskRecord, Release, Interrupted, Proposed
<1>2. Cancelled(k).exec \in {k.exec, "released"} \/ (Live(k) /\ Cancelled(k).exec = "cancelled")
  BY DEF TaskRecord, Release, Cancelled
<1> QED
  BY <1>1, <1>2 DEF StartsNot, Live

LEMMA AdapterStartsNothing ==
  ASSUME TypeOK, NEW t \in Task, AdapterStep(t)
  PROVE  NothingStarted
<1>0. task \in [Task -> TaskRecord] /\ task[t] \in TaskRecord
  BY DEF TypeOK
<1> DEFINE k == task[t]
<1> USE DEF SetTask, TaskStates, Executions
<1>1. CASE InjectionRequested(t)
  BY <1>0, <1>1, WritesStartNothing, OneTaskStartsNothing DEF InjectionRequested
<1>2. CASE InputObserved(t) \/ ResultProposed(t) \/ Suspend(t) \/ SettledMissing(t)
  <2>1. Live(k)
    BY <1>2 DEF InputObserved, ResultProposed, Suspend, SettledMissing, Live
  <2>2. \A st \in TaskStates, ex \in Executions \ {"admitted"} :
          StartsNot(k, [k EXCEPT !.exec = ex, !.state = st])
    BY <1>0, <2>1, WritesStartNothing
  <2>3. \E x : task' = [task EXCEPT ![t] = x] /\ StartsNot(k, x)
    BY <1>2, <2>2 DEF InputObserved, ResultProposed, Suspend, SettledMissing
  <2> QED
    BY <1>0, <2>3, OneTaskStartsNothing
<1>3. CASE \/ SettledFailed(t) \/ Interrupt(t) \/ Stopped(t)
           \/ \E ok \in BOOLEAN : SettledBusiness(t, ok) \/ SettledLeader(t, ok)
  <2>1. /\ \A st \in TaskStates : StartsNot(k, [Release(k) EXCEPT !.state = st])
        /\ StartsNot(k, Release(k)) /\ (Live(k) => StartsNot(k, Interrupted(k)))
    BY <1>0, WritesStartNothing
  <2>2. \E x : task' = [task EXCEPT ![t] = x] /\ StartsNot(k, x)
    <3>1. CASE SettledFailed(t) \/ Interrupt(t) \/ Stopped(t)
      BY <2>1, <3>1 DEF SettledFailed, Interrupt, Stopped
    <3>2. ASSUME NEW ok \in BOOLEAN, SettledBusiness(t, ok) \/ SettledLeader(t, ok)
          PROVE  \E x : task' = [task EXCEPT ![t] = x] /\ StartsNot(k, x)
      BY <2>1, <3>2 DEF SettledBusiness, SettledLeader
    <3> QED
      BY <1>3, <3>1, <3>2
  <2> QED
    BY <1>0, <2>2, OneTaskStartsNothing
<1>4. CASE DecideWait(t) \/ DecideComplete(t)
  <2>1. task' = [task EXCEPT ![t] = Proposed(k)] /\ Live(k)
    BY <1>4 DEF DecideWait, DecideComplete, Decide, Live
  <2> QED
    BY <1>0, <2>1, WritesStartNothing, OneTaskStartsNothing
<1>5. ASSUME NEW P \in SUBSET Unplanned(runOf[t]), DecideDispatch(t, P)
      PROVE  NothingStarted
  <2>1. t \notin P /\ Live(k)
    BY <1>5 DEF DecideDispatch, Decide, Unplanned, Live
  <2>2. NewTask("planned", 0).exec = "none"
    BY DEF NewTask
  <2>3. \A u \in Task : task'[u] = IF u = t THEN Proposed(k)
                                   ELSE IF u \in P THEN NewTask("planned", 0) ELSE task[u]
    BY <1>0, <1>5, <2>1 DEF DecideDispatch, Plan
  <2>4. StartsNot(k, Proposed(k))
    BY <1>0, <2>1, WritesStartNothing
  <2> QED
    BY <2>2, <2>3, <2>4 DEF NothingStarted, StartsNot, Live
<1> QED
  BY <1>1, <1>2, <1>3, <1>4, <1>5 DEF AdapterStep

LEMMA OperatorStartsNothing ==
  ASSUME TypeOK, OperatorStep
  PROVE  NothingStarted
<1>0. /\ task \in [Task -> TaskRecord]
      /\ \A t \in Task : StartsNot(task[t], Cancelled(task[t])) /\ StartsNot(task[t], task[t])
  BY WritesStartNothing DEF TypeOK, StartsNot
<1>1. ASSUME NEW r \in Run, NEW P \in SUBSET Unplanned(r), CreateRun(r, P)
      PROVE  NothingStarted
  BY <1>1 DEF CreateRun, Plan, NewTask, NothingStarted, StartsNot, Live
<1>2. ASSUME NEW r \in Run, RunCancel(r) \/ RunResume(r) \/ RunGuidance(r)
      PROVE  NothingStarted
  BY <1>0, <1>2 DEF RunCancel, RunResume, RunGuidance, NothingStarted
<1>3. ASSUME NEW t \in Task, CreateTask(t) \/ TaskCancel(t) \/ TaskVerdict(t)
      PROVE  NothingStarted
  <2>1. StartsNot(task[t], NewTask("queued", 0))
    BY DEF NewTask, StartsNot, Live
  <2>2. CASE TaskVerdict(t)
    BY <1>0, <2>2 DEF TaskVerdict, NothingStarted
  <2>3. CASE CreateTask(t)
    BY <1>0, <2>1, <2>3, OneTaskStartsNothing DEF CreateTask
  <2>4. CASE TaskCancel(t)
    BY <1>0, <2>4, OneTaskStartsNothing DEF TaskCancel, SetTask
  <2> QED
    BY <1>3, <2>2, <2>3, <2>4
<1>4. ASSUME NEW t \in Task, TaskRetry(t) \/ TaskRecover(t) \/ Reconcile(t)
      PROVE  NothingStarted
  <2>0. task[t] \in TaskRecord
    BY <1>0
  <2>1. \A st \in TaskStates : /\ StartsNot(task[t], [task[t] EXCEPT !.state = st])
                               /\ StartsNot(task[t], [Release(task[t]) EXCEPT !.state = st])
    BY <2>0, WritesStartNothing
  <2>2. CASE TaskRetry(t) \/ TaskRecover(t)
    BY <1>0, <2>1, <2>2, OneTaskStartsNothing DEF TaskRetry, TaskRecover, SetTask, TaskStates
  <2>3. CASE Reconcile(t)
    <3>1. Release(task[t]).state \in TaskStates
      BY <2>0 DEF Release, TaskRecord
    <3>2. \E st \in TaskStates : task' = [task EXCEPT ![t] = [Release(task[t]) EXCEPT !.state = st]]
      BY <2>3, <3>1 DEF Reconcile, TaskStates
    <3> QED
      BY <1>0, <2>1, <3>2, OneTaskStartsNothing
  <2> QED
    BY <1>4, <2>2, <2>3
<1> QED
  BY <1>1, <1>2, <1>3, <1>4 DEF OperatorStep

\* Whatever the Tick that finds a Run held does before it dispatches, nothing of
\* the Run starts, a first segment or a later one.
LEMMA HeldStartsNothing ==
  ASSUME IInv, TaskInv(run, task), [Next]_vars, NEW t \in Task, run[runOf[t]].hold
  PROVE  StartsNot(task[t], task'[t])
<1>0. TypeOK /\ task \in [Task -> TaskRecord]
  BY DEF IInv, TypeOK
<1>1. CASE Tick
  BY <1>0, <1>1, TickTasks DEF Stage, NoStart
<1>2. CASE Restart
  <2>1. task[t] \in TaskRecord
    BY <1>0
  <2> QED
    BY <1>2, <2>1 DEF Restart, TaskRecord, StartsNot, Live
<1>3. CASE LeaderStep
  <2>1. \A u \in Task : Live(task[u]) => StartsNot(task[u], Interrupted(task[u]))
    BY <1>0, WritesStartNothing
  <2>2. \A u \in Task : StartsNot(task[u], task[u])
    BY DEF StartsNot
  <2> QED
    BY <1>0, <1>3, <2>1, <2>2 DEF LeaderStep, LeaderSilent, LeaderHeartbeat, LeaderRegister,
                                  LeaderRelease, StepsOfTeam
<1>4. CASE OperatorStep \/ \E u \in Task : AdapterStep(u)
  BY <1>0, <1>4, OperatorStartsNothing, AdapterStartsNothing DEF NothingStarted
<1>5. CASE UNCHANGED vars
  BY <1>5 DEF vars, StartsNot
<1> QED
  BY <1>1, <1>2, <1>3, <1>4, <1>5 DEF Next

\* A held Run starts no new segment, whatever the Tick that finds it held does
\* before it dispatches.
THEOREM HoldBlocks == Spec => HoldBlocksNewSegments
<1> DEFINE HeldBack == \A t \in Task : run[runOf[t]].hold /\ task[t].exec # "admitted"
                                        => task'[t].exec # "admitted"
<1>1. IInv /\ TaskInv(run, task) /\ [Next]_vars => [HeldBack]_vars
  BY HeldStartsNothing DEF StartsNot
<1> QED
  BY <1>1, InductiveInvariant, TasksInvariant, PTL DEF Spec, HoldBlocksNewSegments

\* What executes for a cancelled Run only becomes less: no Tick, adapter, Leader or
\* operator gives it an execution again, so that the stops that are confirmed add
\* up to the release of its Roles.
CancelledDrains ==
  [][\A r \in Run : run[r].phase = "cancelled" =>
       run'[r].phase = "cancelled" /\ LiveIn(task', r) \subseteq LiveIn(task, r)]_vars

\* A cancelled Run stays cancelled and drains: with TurnIsKept, the part of HandOver
\* that needs no fairness.
THEOREM CancelledOnlyDrains == Spec => CancelledDrains
<1>1. IInv /\ TaskInv(run, task) /\ [Next]_vars =>
        [\A r \in Run : run[r].phase = "cancelled" =>
           run'[r].phase = "cancelled" /\ LiveIn(task', r) \subseteq LiveIn(task, r)]_vars
  <2> SUFFICES ASSUME IInv, TaskInv(run, task), [Next]_vars,
                      NEW r \in Run, run[r].phase = "cancelled"
               PROVE  /\ run'[r].phase = "cancelled"
                      /\ LiveIn(task', r) \subseteq LiveIn(task, r)
    OBVIOUS
  <2>1. run[r].hold
    BY DEF TaskInv, Closed
  <2>2. \A t \in TasksOf(r) : Live(task'[t]) => Live(task[t])
    BY <2>1, HeldStartsNothing DEF TasksOf, StartsNot
  <2> QED
    BY <2>2, CancelledStays DEF LiveIn
<1> QED
  BY <1>1, InductiveInvariant, TasksInvariant, PTL DEF Spec, CancelledDrains
=============================================================================
