---------------------------- MODULE RunAdmission ----------------------------
(***************************************************************************)
(* Team Runs of the Pi Squad controller: creation, FIFO admission of a     *)
(* whole roster of Roles, LeaderSteps, holds, cancellation and clean-up    *)
(* (pi_squad/controller/scheduler).  Every HTTP handler and every Tick of  *)
(* the controller is one SQLite transaction on one connection, so each is  *)
(* one action here.                                                        *)
(*                                                                         *)
(* The question the module answers: do two Runs ever share a Role, is a    *)
(* Role ever given back while an execution of its Run may still be         *)
(* running, and does a Run only complete when everything it owes is done?  *)
(*                                                                         *)
(* Abstractions.  Clocks, agents, leases, fencing tokens and capacity are  *)
(* left to Execution: here a Tick chooses which executions are             *)
(* overdue and which ready Tasks get an agent.  Artifacts, schemas and     *)
(* acceptance evidence are a nondeterministic verdict.  Delegated child    *)
(* Tasks, clarifications and rework chains are not part of these Runs.     *)
(* An optimistic-concurrency check (task.CAS) succeeds exactly when the    *)
(* request was computed from the current state, so an action reads the     *)
(* state it is enabled in; the requests that lose the race change nothing. *)
(***************************************************************************)
EXTENDS Integers, FiniteSets

CONSTANTS
  Run, Team, Role, Task,
  NoRun,          \* role_ownership has no row for the Role
  teamOf,         \* [Run -> Team]
  roster,         \* [Run -> SUBSET Role]: the Roles of the frozen Team config
  runOf,          \* [Task -> Run]
  kind,           \* [Task -> {"execute", "review", "leader_step"}]
  roleOf,         \* [Task -> Role]: the Role a business Task is addressed to
  MaxAttempts,    \* Policy.MaxAttemptsPerTask
  MaxGuidance,    \* bound of the model: guidance texts given to one Run
  MaxEpoch        \* bound of the model: identities a Leader registers with

ASSUME TopologyAssumption ==
  /\ teamOf \in [Run -> Team]
  /\ roster \in [Run -> SUBSET Role]
  /\ runOf \in [Task -> Run]
  /\ kind \in [Task -> {"execute", "review", "leader_step"}]
  /\ roleOf \in [Task -> Role]
  /\ NoRun \notin Run

ASSUME BoundAssumption ==
  MaxAttempts \in Nat /\ MaxGuidance \in Nat /\ MaxEpoch \in Nat

VARIABLES
  run,        \* [Run -> record]: the rows of table runs
  owner,      \* [Role -> Run \cup {NoRun}]: table role_ownership
  queueSeq,   \* controller_state.queue_seq
  lead,       \* [Team -> record]: the Leader's binding and its presence
  task        \* [Task -> record]: a Task and its latest Attempt

vars == <<run, owner, queueSeq, lead, task>>

-----------------------------------------------------------------------------
(* States of the entities.                                                 *)

Terminal(state) == state \in {"completed", "failed", "cancelled", "interrupted"}

Phases == {"absent", "queued_run", "planning", "running", "needs_review",
           "cancelled", "completed"}

TaskStates == {"absent", "planned", "queued", "dispatching", "running",
               "result_proposed", "waiting_dependency", "completed",
               "interrupted", "cancelled", "needs_review"}

\* "none" and "released" bracket an Attempt whose Cleanup is "pending".
Executions == {"none", "admitted", "running", "proposed", "suspended",
               "interrupted", "cancelled", "needs_review", "released"}

\* intent compares Run.CompletionIntent with Run.Revision; news says that
\* LeaderRevision < Revision, so that the Leader has something to look at.
RunRecord ==
  [phase : Phases, admitted : BOOLEAN, hold : BOOLEAN,
   cleanup : {"pending", "reconciling", "released"}, seq : Nat, leader : Nat,
   intent : {"none", "current", "stale"}, news : BOOLEAN, guidance : Nat]

\* fresh: the Attempt's Receipt is still dispatch_intent or adapter_received,
\* so the adapter has not been allowed to inject the input.  seen is the
\* GuidanceCount of a LeaderStep.
TaskRecord ==
  [state : TaskStates, exec : Executions, fresh : BOOLEAN, tries : Nat, seen : Nat]

LeadRecord == [epoch : Nat, bound : BOOLEAN, online : BOOLEAN]

TypeOK ==
  /\ run \in [Run -> RunRecord]
  /\ owner \in [Role -> Run \cup {NoRun}]
  /\ queueSeq \in Nat
  /\ lead \in [Team -> LeadRecord]
  /\ task \in [Task -> TaskRecord]

-----------------------------------------------------------------------------
(* Runs.                                                                   *)

Absent(r) == run[r].phase = "absent"
Open(rec) == rec.phase # "absent" /\ ~Terminal(rec.phase)

\* A Run that owns its roster: the rows the unique index one_active_team covers.
Holding(rec) == rec.admitted /\ rec.cleanup # "released"

\* Mutant: a write that leaves a proposed completion in force.
ReviseKeepingIntent(rec) == [rec EXCEPT !.news = TRUE]

\* Every write of a Run increments Revision: a CompletionIntent recorded for an
\* earlier revision is stale and LeaderRevision lags behind.
Revise(rec) == [rec EXCEPT !.intent = IF @ = "current" THEN "stale" ELSE @,
                           !.news = TRUE]

\* Mutant: the Run asks for review and is not held.
FailWithoutHold(rec) ==
  [Revise(rec) EXCEPT !.phase = IF Terminal(@) THEN @ ELSE "needs_review"]

\* failAncestors, its part for the Run of the Task.
Fail(rec) == [Revise(rec) EXCEPT !.hold = TRUE,
                                 !.phase = IF Terminal(@) THEN @ ELSE "needs_review"]

FailRunsOf(rs, T) ==
  [r \in Run |-> IF \E t \in T : runOf[t] = r THEN Fail(rs[r]) ELSE rs[r]]

\* Mutant: a recovery hold that only the display knows.
WorkingThoughHeld(rec) == rec.admitted /\ ~Terminal(rec.phase)

\* A Run that may make progress: the test of dispatch, resumeReady,
\* ensureLeaderSteps and Decide.
Working(rec) == rec.admitted /\ ~rec.hold /\ ~Terminal(rec.phase)

-----------------------------------------------------------------------------
(* Admission.                                                              *)

LeaderReady(t) == lead[t].bound /\ lead[t].online

Waiting(rec) == Open(rec) /\ ~rec.admitted

Clash(r, s) == roster[r] \cap roster[s] # {} \/ teamOf[r] = teamOf[s]

\* Mutants: no queue at all; a queue in which a held Run lets others pass.
EarlierNeverBlocks(rs, s, r) == FALSE
EarlierHeldPasses(rs, s, r) ==
  Waiting(rs[s]) /\ ~rs[s].hold /\ rs[s].seq < rs[r].seq /\ Clash(s, r)

\* Blocker earlier_run: s stands before r in the queue.
EarlierBlocks(rs, s, r) == Waiting(rs[s]) /\ rs[s].seq < rs[r].seq /\ Clash(s, r)

\* Mutant: another Run of the Team does not matter while no Role is shared.
ActiveNeverBlocks(rs, s, r) == FALSE

\* Blocker active_run: the Team of r works on s.
ActiveBlocks(rs, s, r) == Holding(rs[s]) /\ teamOf[s] = teamOf[r]

\* The Runs one pass of admitRuns admits.  The code walks the queue in
\* queue_seq order; a Run passes when nothing blocks it: no hold, its Leader
\* online under the binding the Run recorded, no earlier clashing Run still in
\* the queue, no active Run of its Team, no roster Role owned.  An earlier
\* clashing Run of the queue blocks it either way: as earlier_run if it stayed,
\* as active_run or role_busy if the same pass has just admitted it.
Admissible(rs) ==
  {r \in Run :
     /\ Waiting(rs[r]) /\ ~rs[r].hold
     /\ LeaderReady(teamOf[r]) /\ lead[teamOf[r]].epoch = rs[r].leader
     /\ \A s \in Run : ~EarlierBlocks(rs, s, r) /\ ~ActiveBlocks(rs, s, r)
     /\ \A role \in roster[r] : owner[role] = NoRun}

Admit(rs, A) ==
  [r \in Run |-> IF r \in A
                 THEN [Revise(rs[r]) EXCEPT !.admitted = TRUE, !.phase = "planning"]
                 ELSE rs[r]]

Acquire(A) ==
  [role \in Role |-> IF \E r \in A : role \in roster[r]
                     THEN CHOOSE r \in A : role \in roster[r]
                     ELSE owner[role]]

\* The loop itself, which the set above stands for.  It visits the queue in
\* queue_seq order, remembers the Runs it has left, and meets the rows it has
\* written for those it has admitted.
Blocked(rs, seen, r) ==
  \/ rs[r].hold
  \/ ~LeaderReady(teamOf[r]) \/ lead[teamOf[r]].epoch # rs[r].leader
  \/ \E s \in seen.earlier : Clash(s, r)
  \/ \E s \in Run : teamOf[s] = teamOf[r] /\ (Holding(rs[s]) \/ s \in seen.admitted)
  \/ \E role \in roster[r] : owner[role] # NoRun \/ \E s \in seen.admitted : role \in roster[s]

Visit(rs, seen, r) ==
  IF Blocked(rs, seen, r) THEN [seen EXCEPT !.earlier = @ \cup {r}]
                          ELSE [seen EXCEPT !.admitted = @ \cup {r}]

At(rs, n) == {r \in Run : Waiting(rs[r]) /\ rs[r].seq = n}

VisitPlace(rs, seen, n) ==
  IF At(rs, n) = {} THEN seen ELSE Visit(rs, seen, CHOOSE r \in At(rs, n) : TRUE)

NobodyYet == [earlier |-> {}, admitted |-> {}]

AdmissionPass(rs) ==
  LET pass[n \in 0..queueSeq] ==
        VisitPlace(rs, IF n = 0 THEN NobodyYet ELSE pass[n - 1], n)
  IN pass[queueSeq].admitted

-----------------------------------------------------------------------------
(* Tasks and executions.                                                   *)

TasksOf(r) == {t \in Task : runOf[t] = r}
Business(t) == kind[t] # "leader_step"

\* An Attempt whose clean-up is not confirmed.
Live(k) == k.exec \notin {"none", "released"}
LiveIn(tk, r) == {t \in TasksOf(r) : Live(tk[t])}

\* AttemptEvent accepts events only for these.
Accepting(k) == k.exec \in {"admitted", "running", "proposed", "suspended"}

\* startAttempt and resumeReady: a segment is admitted, its input not injected.
Started(k) == [k EXCEPT !.state = "dispatching", !.exec = "admitted", !.fresh = TRUE]

Release(k) == [k EXCEPT !.exec = "released", !.fresh = FALSE]

\* interruptAgent: the loss of control overwrites the Task whatever its state.
Interrupted(k) == [k EXCEPT !.exec = "interrupted", !.state = "interrupted"]

\* expire, second loop: a lapsed lease quarantines, and keeps the reservation.
Lapsed(k) ==
  [k EXCEPT !.exec = IF Terminal(@) THEN @ ELSE "needs_review",
            !.state = IF Terminal(@) THEN @ ELSE "needs_review"]

\* Mutant: the Attempt is not told of the cancellation.
CancelledSilently(k) ==
  IF k.state \in {"cancelled", "completed"} THEN k
  ELSE LET c == [k EXCEPT !.state = "cancelled"] IN
       IF Live(k) /\ (k.fresh \/ k.exec = "suspended") THEN Release(c) ELSE c

\* cancelTask: an input that was never injected, or a suspended Attempt, needs
\* no proof of stop.
Cancelled(k) ==
  IF k.state \in {"cancelled", "completed"} THEN k
  ELSE LET c == [k EXCEPT !.state = "cancelled"] IN
       CASE ~Live(k) -> c
         [] Live(k) /\ (k.fresh \/ k.exec = "suspended") -> Release(c)
         [] OTHER -> [c EXCEPT !.exec = "cancelled"]

NewTask(state, seen) ==
  [state |-> state, exec |-> "none", fresh |-> FALSE, tries |-> 0, seen |-> seen]

Plan(tk, P) == [t \in Task |-> IF t \in P THEN NewTask("planned", 0) ELSE tk[t]]

Unplanned(r) == {t \in TasksOf(r) : Business(t) /\ task[t].state = "absent"}

\* finalGate: what its queries decide; the evidence it validates besides
\* (artifact hashes, refs, acceptance records) is a verdict of its callers.
Owed(k, t) == /\ Business(t) /\ k.state \notin {"absent", "cancelled"}
              /\ ~(kind[t] = "review" /\ Terminal(k.state) /\ k.state # "completed")

\* Mutant: a gate that only looks for unconfirmed executions.
GateOnExecutions(tk, r, own) ==
  {t \in TasksOf(r) : Owed(tk[t], t)} # {} /\ LiveIn(tk, r) \subseteq own

GateReady(tk, r, own) ==
  LET owed == {t \in TasksOf(r) : Owed(tk[t], t)} IN
  /\ owed # {}
  /\ \A t \in owed : tk[t].state = "completed"
  /\ LiveIn(tk, r) \subseteq own

\* Mutant: a cancelled Run gives its Roles back at once.
DrainsAtOnce(rec, busy) == rec.cleanup # "released" /\ Terminal(rec.phase)

\* cleanupRun, given whether an execution of the Run is unconfirmed.
Drains(rec, busy) == rec.cleanup # "released" /\ ~busy /\ Terminal(rec.phase)

Cleaned(rec, busy) ==
  [rec EXCEPT !.cleanup = IF Drains(rec, busy) THEN "released"
                          ELSE IF @ # "released" /\ busy THEN "reconciling"
                          ELSE @]

\* Mutant: the rows are deleted by Team.
DisownByTeam(r) ==
  [role \in Role |-> IF \E s \in Run : owner[role] = s /\ teamOf[s] = teamOf[r]
                     THEN NoRun ELSE owner[role]]

Disown(r) == [role \in Role |-> IF owner[role] = r THEN NoRun ELSE owner[role]]

CleanupRun(r, rec, tk) ==
  LET busy == LiveIn(tk, r) # {} IN
  /\ run' = [run EXCEPT ![r] = Revise(Cleaned(rec, busy))]
  /\ owner' = IF Drains(rec, busy) THEN Disown(r) ELSE owner

-----------------------------------------------------------------------------
Init ==
  /\ run = [r \in Run |->
              [phase |-> "absent", admitted |-> FALSE, hold |-> FALSE,
               cleanup |-> "pending", seq |-> 0, leader |-> 0,
               intent |-> "none", news |-> FALSE, guidance |-> 0]]
  /\ owner = [role \in Role |-> NoRun]
  /\ queueSeq = 0
  /\ lead = [t \in Team |-> [epoch |-> 0, bound |-> FALSE, online |-> FALSE]]
  /\ task = [t \in Task |-> NewTask("absent", 0)]

-----------------------------------------------------------------------------
(* Creating a Run, and work for it.                                        *)

\* The operator, or the configured Leader while its Team has no active Run.
CreateRun(r, P) ==
  /\ Absent(r) /\ LeaderReady(teamOf[r])
  /\ P \subseteq Unplanned(r)
  /\ queueSeq' = queueSeq + 1
  /\ LET rs == [run EXCEPT ![r] = [@ EXCEPT !.phase = "queued_run", !.seq = queueSeq + 1,
                                            !.leader = lead[teamOf[r]].epoch, !.news = TRUE]]
         A == Admissible(rs)
     IN run' = Admit(rs, A) /\ owner' = Acquire(A)
  /\ task' = Plan(task, P)
  /\ UNCHANGED lead

\* CreateTask for a Run: accepted at once, without a change of the Run.
CreateTask(t) ==
  /\ Business(t) /\ task[t].state = "absent"
  /\ Open(run[runOf[t]]) /\ ~run[runOf[t]].hold
  /\ task' = [task EXCEPT ![t] = NewTask("queued", 0)]
  /\ UNCHANGED <<run, owner, queueSeq, lead>>

-----------------------------------------------------------------------------
(* The scheduler's transaction.                                            *)

\* Completed work whose artifact, reference or goal may have changed.
Invalidatable == {t \in Task : /\ Business(t) /\ task[t].state = "completed"
                               /\ Open(run[runOf[t]])}

\* Suspended Attempts resumeReady may continue.
Resumable(tk, rs) ==
  {t \in Task : /\ tk[t].state = "waiting_dependency" /\ tk[t].exec = "suspended"
                /\ Working(rs[runOf[t]])}

\* Completed work ensureReviews may find without a possible reviewer.
Reviewable(tk, rs) ==
  {t \in Task : /\ kind[t] = "execute" /\ tk[t].state = "completed"
                /\ ~rs[runOf[t]].hold /\ Open(rs[runOf[t]])}

OpenStep(tk, r) == \E t \in TasksOf(r) : /\ ~Business(t) /\ tk[t].state # "absent"
                                         /\ ~Terminal(tk[t].state)

\* Runs that get a LeaderStep, and the Task identities one may take: a finished
\* step that nobody retries is forgotten, which bounds the model.
Stepping(tk, rs) ==
  {r \in Run : /\ Working(rs[r]) /\ rs[r].news /\ ~OpenStep(tk, r)
               /\ LeaderReady(teamOf[r]) /\ lead[teamOf[r]].epoch = rs[r].leader}

StepSlots(tk, r) ==
  {t \in TasksOf(r) : /\ ~Business(t) /\ ~Live(tk[t])
                      /\ tk[t].state \in {"absent", "completed", "cancelled"}}

\* Tasks the dispatch loop looks at, and those it may give an Attempt: their
\* Run is working and still owns the Role, no Attempt holds their agent.
Pending(tk) ==
  {t \in Task : tk[t].state \in {"planned", "queued", "waiting_dependency"}}

Dispatchable(tk, rs, own) ==
  {t \in Pending(tk) : /\ Working(rs[runOf[t]]) /\ ~Live(tk[t])
                       /\ Business(t) => own[roleOf[t]] = runOf[t]
                       /\ tk[t].tries < MaxAttempts}

\* Tasks the loop may send to needs_review: a passed deadline once accepted; a
\* changed binding, a withdrawn permission or a used-up budget when their turn
\* comes; and the newest Task of a wait cycle, which may be one that executes.
Deniable(tk, rs) ==
  {t \in Pending(tk) : tk[t].state = "planned" => Working(rs[runOf[t]])}
    \cup {t \in Task : Business(t) /\ tk[t].state = "running"}

\* The last loops of Tick: dispatch, and the wait graph.
Dispatched(tk, started, queued, denied) ==
  [t \in Task |-> CASE t \in denied -> [tk[t] EXCEPT !.state = "needs_review"]
                    [] t \in started -> [Started(tk[t]) EXCEPT !.tries = @ + 1]
                    [] t \in queued -> [tk[t] EXCEPT !.state = "queued"]
                    [] OTHER -> tk[t]]

Dispatch(tk, rs, own) ==
  \E started \in SUBSET Dispatchable(tk, rs, own) :
  \E denied \in SUBSET (Deniable(tk, rs) \ started) :
  \E queued \in SUBSET {t \in Pending(tk) \ (started \cup denied) :
                          tk[t].state = "planned" /\ Working(rs[runOf[t]])} :
  /\ task' = Dispatched(tk, started, queued, denied)
  /\ run' = FailRunsOf(rs, denied)
  /\ owner' = own

\* ensureLeaderSteps.
Stepped(tk, rs, steps) ==
  [t \in Task |-> IF t \in steps THEN NewTask("queued", rs[runOf[t]].guidance) ELSE tk[t]]

EnsureLeaderSteps(tk, rs, own) ==
  LET stepping == {r \in Stepping(tk, rs) : StepSlots(tk, r) # {}} IN
  \E steps \in SUBSET UNION {StepSlots(tk, r) : r \in stepping} :
  /\ \A r \in stepping : Cardinality(steps \cap TasksOf(r)) = 1
  /\ Dispatch(Stepped(tk, rs, steps),
              [r \in Run |-> [rs[r] EXCEPT !.news = @ /\ r \notin stepping]], own)

\* resumeReady: suspended Attempts go on, unless what they refer to is no longer
\* valid, which holds their Run.
Continued(tk, refused, resumed) ==
  [t \in Task |-> CASE t \in refused -> [tk[t] EXCEPT !.state = "needs_review"]
                    [] t \in resumed -> Started(tk[t])
                    [] OTHER -> tk[t]]

ResumeReady(tk, rs, own) ==
  \E refused \in SUBSET Resumable(tk, rs) :
  \E resumed \in SUBSET (Resumable(tk, rs) \ refused) :
  EnsureLeaderSteps(Continued(tk, refused, resumed), FailRunsOf(rs, refused), own)

\* ensureReviews: a review is planned, or nobody can review and the Run is held.
Reviewed(tk, refused, reviews) ==
  [t \in Task |-> CASE t \in refused -> [tk[t] EXCEPT !.state = "needs_review"]
                    [] t \in reviews -> NewTask("planned", 0)
                    [] OTHER -> tk[t]]

EnsureReviews(tk, rs, own) ==
  \E refused \in SUBSET Reviewable(tk, rs),
     reviews \in SUBSET {t \in Task : /\ kind[t] = "review" /\ tk[t].state = "absent"
                                      /\ Open(rs[runOf[t]]) /\ ~rs[runOf[t]].hold} :
  ResumeReady(Reviewed(tk, refused, reviews), FailRunsOf(rs, refused), own)

AdmitRuns(tk, rs) == LET A == Admissible(rs) IN EnsureReviews(tk, Admit(rs, A), Acquire(A))

\* invalidateChangedResults and expire.
Expired(changed, overdue, lapsed) ==
  [t \in Task |-> CASE t \in changed -> [task[t] EXCEPT !.state = "needs_review"]
                    [] t \in overdue -> Interrupted(task[t])
                    [] t \in lapsed  -> Lapsed(task[t])
                    [] OTHER -> task[t]]

\* One Tick in the order of the code: results found changed and executions
\* found overdue or without a lease; admission; reviews and continuations;
\* LeaderSteps; dispatch; the wait graph.  The sets are what clocks, files,
\* agents and capacity decide; overdue are the Attempts of every agent that any
\* Task past its deadline is bound to.
Tick ==
  /\ \E changed \in SUBSET Invalidatable :
     \E overdue \in SUBSET {t \in Task \ changed : Live(task[t])} :
     \E lapsed \in SUBSET {t \in Task \ (changed \cup overdue) :
                             Live(task[t]) /\ task[t].exec # "suspended"} :
     AdmitRuns(Expired(changed, overdue, lapsed),
               FailRunsOf(run, changed \cup overdue \cup lapsed))
  /\ UNCHANGED <<queueSeq, lead>>

-----------------------------------------------------------------------------
(* Events of an adapter about its Attempt (AttemptEvent).                  *)

SetTask(t, k) == task' = [task EXCEPT ![t] = k]

\* injection_requested: from here on the input may have reached the model.
InjectionRequested(t) ==
  /\ task[t].exec = "admitted" /\ task[t].fresh
  /\ SetTask(t, [task[t] EXCEPT !.fresh = FALSE])
  /\ UNCHANGED <<run, owner, queueSeq, lead>>

InputObserved(t) ==
  /\ task[t].exec = "admitted" /\ ~task[t].fresh
  /\ SetTask(t, [task[t] EXCEPT !.exec = "running", !.state = "running"])
  /\ UNCHANGED <<run, owner, queueSeq, lead>>

ResultProposed(t) ==
  /\ task[t].exec = "running"
  /\ SetTask(t, [task[t] EXCEPT !.exec = "proposed", !.state = "result_proposed"])
  /\ UNCHANGED <<run, owner, queueSeq, lead>>

\* settled after a yield, or with a proposal an amendment has superseded; or
\* deferred: the adapter proves that it never injected the input.
Suspend(t) ==
  /\ \/ task[t].exec \in {"running", "proposed"} /\ Business(t)
     \/ task[t].exec = "admitted"
  /\ SetTask(t, [task[t] EXCEPT !.exec = "suspended", !.state = "waiting_dependency"])
  /\ UNCHANGED <<run, owner, queueSeq, lead>>

\* settled with an outcome other than completed.
SettledFailed(t) ==
  /\ Accepting(task[t])
  /\ SetTask(t, [Release(task[t]) EXCEPT !.state = "interrupted"])
  /\ run' = FailRunsOf(run, {t})
  /\ UNCHANGED <<owner, queueSeq, lead>>

\* settled without a result: quarantined until the stop is confirmed.
SettledMissing(t) ==
  /\ task[t].exec \in {"admitted", "running", "suspended"}
  /\ SetTask(t, [task[t] EXCEPT !.exec = "needs_review", !.state = "needs_review"])
  /\ run' = FailRunsOf(run, {t})
  /\ UNCHANGED <<owner, queueSeq, lead>>

\* settled with a result, and afterCompletion.  accepted is whether the
\* acceptance evidence of the result could be applied.
SettledBusiness(t, accepted) ==
  /\ Business(t) /\ task[t].exec = "proposed"
  /\ SetTask(t, [Release(task[t]) EXCEPT !.state = IF accepted THEN "completed"
                                                  ELSE "needs_review"])
  /\ run' = IF accepted THEN [run EXCEPT ![runOf[t]] = Revise(@)]
            ELSE FailRunsOf(run, {t})
  /\ UNCHANGED <<owner, queueSeq, lead>>

\* A LeaderStep settles: a completion it proposed is dropped when the Run has
\* moved on since, and passes finalGate a second time otherwise.  valid is the
\* gate's verdict on the evidence.
SettledLeader(t, valid) ==
  LET r   == runOf[t]
      rec == run[r]
      tk  == [task EXCEPT ![t] = [Release(@) EXCEPT !.state = "completed"]]
  IN
  /\ ~Business(t) /\ task[t].exec = "proposed"
  /\ task' = tk
  /\ \/ /\ rec.intent = "none" \/ (rec.intent = "current" /\ rec.hold)
        /\ UNCHANGED <<run, owner>>
     \/ /\ rec.intent = "stale"
        /\ run' = [run EXCEPT ![r] = [Revise(rec) EXCEPT !.intent = "none"]]
        /\ UNCHANGED owner
     \/ /\ rec.intent = "current" /\ ~rec.hold /\ GateReady(tk, r, {}) /\ valid
        /\ CleanupRun(r, [rec EXCEPT !.phase = "completed"], tk)
     \/ /\ rec.intent = "current" /\ ~rec.hold /\ ~(GateReady(tk, r, {}) /\ valid)
        /\ run' = [run EXCEPT ![r] = [Revise(rec) EXCEPT !.intent = "none", !.hold = TRUE,
                                                         !.phase = "needs_review"]]
        /\ UNCHANGED owner
  /\ UNCHANGED <<queueSeq, lead>>

-----------------------------------------------------------------------------
(* Decisions of the Leader (Decide).                                       *)

\* Mutant: a decision answers guidance its LeaderStep has not seen.
DecideForAllGuidance(t, rec) ==
  LET r == runOf[t] IN
  /\ ~Business(t) /\ task[t].exec = "running"
  /\ Working(run[r]) /\ lead[teamOf[r]].bound
  /\ lead[teamOf[r]].epoch = run[r].leader
  /\ run' = [run EXCEPT ![r] = [rec EXCEPT !.news = FALSE]]
  /\ UNCHANGED <<owner, queueSeq, lead>>

\* What every decision does: the Run is revised, LeaderRevision catches up
\* when the step knew all guidance, the step has proposed its result.
Decide(t, rec) ==
  LET r == runOf[t] IN
  /\ ~Business(t) /\ task[t].exec = "running"
  /\ Working(run[r]) /\ lead[teamOf[r]].bound
  /\ lead[teamOf[r]].epoch = run[r].leader
  /\ run' = [run EXCEPT ![r] = [rec EXCEPT !.news = task[t].seen < rec.guidance]]
  /\ UNCHANGED <<owner, queueSeq, lead>>

Proposed(k) == [k EXCEPT !.exec = "proposed", !.state = "result_proposed"]

DecideDispatch(t, P) ==
  /\ P \subseteq Unplanned(runOf[t]) /\ P # {}
  /\ Decide(t, [Revise(run[runOf[t]]) EXCEPT !.phase = "running"])
  /\ task' = [Plan(task, P) EXCEPT ![t] = Proposed(@)]

DecideWait(t) ==
  /\ Decide(t, Revise(run[runOf[t]]))
  /\ SetTask(t, Proposed(task[t]))

DecideComplete(t) ==
  /\ GateReady(task, runOf[t], {t})
  /\ Decide(t, [Revise(run[runOf[t]]) EXCEPT !.intent = "current"])
  /\ SetTask(t, Proposed(task[t]))

-----------------------------------------------------------------------------
(* Loss of control, and the proof that an execution has stopped.           *)

\* Interrupt: manual interference, compaction, reload or a new session of the
\* agent that executes t.
Interrupt(t) ==
  /\ Live(task[t])
  /\ SetTask(t, Interrupted(task[t]))
  /\ run' = FailRunsOf(run, {t})
  /\ UNCHANGED <<owner, queueSeq, lead>>

Stopped(t) ==
  /\ task[t].exec \in {"interrupted", "cancelled", "needs_review"}
  /\ LET tk == [task EXCEPT ![t] = Release(@)] IN
     task' = tk /\ CleanupRun(runOf[t], run[runOf[t]], tk)
  /\ UNCHANGED <<queueSeq, lead>>

\* attempt:reconcile, the operator's attestation instead of the adapter's.
Reconcile(t) ==
  /\ Live(task[t])
  /\ LET r  == runOf[t]
         k  == Release(task[t])
         tk == [task EXCEPT ![t] = [k EXCEPT !.state = IF Terminal(@) THEN @
                                                       ELSE "interrupted"]]
     IN /\ task' = tk
        /\ CleanupRun(r, IF Terminal(k.state) THEN run[r] ELSE Fail(run[r]), tk)
  /\ UNCHANGED <<queueSeq, lead>>

\* A new Controller process (New): every Run that keeps its roster is held,
\* every execution whose end is unknown is quarantined, nobody is online.
Restart ==
  /\ run' = [r \in Run |-> IF Absent(r) \/ run[r].cleanup = "released" THEN run[r]
                            ELSE [Revise(run[r]) EXCEPT !.hold = TRUE]]
  /\ task' = [t \in Task |-> IF ~Live(task[t]) THEN task[t]
                              ELSE [task[t] EXCEPT !.exec = "needs_review",
                                                   !.state = "needs_review"]]
  /\ lead' = [t \in Team |-> [lead[t] EXCEPT !.online = FALSE]]
  /\ UNCHANGED <<owner, queueSeq>>

-----------------------------------------------------------------------------
(* Operations of the operator.                                             *)

RunCancel(r) ==
  /\ ~Absent(r) /\ run[r].cleanup # "released"
  /\ LET tk == [t \in Task |-> IF /\ runOf[t] = r /\ task[t].state # "absent"
                                   /\ ~Terminal(task[t].state)
                                THEN Cancelled(task[t]) ELSE task[t]]
     IN task' = tk /\ CleanupRun(r, [run[r] EXCEPT !.phase = "cancelled", !.hold = TRUE], tk)
  /\ UNCHANGED <<queueSeq, lead>>

\* Mutant: a Run that is resumed goes to the end of the queue.
RunResumeAtEnd(r) ==
  /\ Open(run[r]) /\ LeaderReady(teamOf[r])
  /\ queueSeq' = queueSeq + 1
  /\ run' = [run EXCEPT ![r] =
               [Revise(@) EXCEPT !.leader = lead[teamOf[r]].epoch, !.hold = FALSE,
                                 !.seq = queueSeq + 1,
                                 !.phase = IF run[r].admitted THEN "running" ELSE "queued_run"]]
  /\ UNCHANGED <<owner, lead, task>>

RunResume(r) ==
  /\ Open(run[r]) /\ LeaderReady(teamOf[r])
  /\ \A t \in TasksOf(r) : /\ Live(task[t]) => Accepting(task[t])
                           /\ task[t].state \notin {"needs_review", "interrupted"}
  /\ run' = [run EXCEPT ![r] =
               [Revise(@) EXCEPT !.leader = lead[teamOf[r]].epoch, !.hold = FALSE,
                                 !.phase = IF run[r].admitted THEN "running" ELSE "queued_run"]]
  /\ UNCHANGED <<owner, queueSeq, lead, task>>

RunGuidance(r) ==
  /\ Open(run[r]) /\ run[r].guidance < MaxGuidance
  /\ run' = [run EXCEPT ![r] = [Revise(@) EXCEPT !.guidance = run[r].guidance + 1]]
  /\ UNCHANGED <<owner, queueSeq, lead, task>>

\* task:cancel.  It neither revises the Run nor cleans it up.
TaskCancel(t) ==
  /\ task[t].state \notin {"absent", "cancelled", "completed"}
  /\ SetTask(t, Cancelled(task[t]))
  /\ UNCHANGED <<run, owner, queueSeq, lead>>

\* task:retry and task:rebind, from whatever state the Task is in.
TaskRetry(t) ==
  /\ task[t].state # "absent" /\ Open(run[runOf[t]])
  /\ ~Live(task[t]) /\ task[t].tries < MaxAttempts
  /\ ~Business(t) => LeaderReady(teamOf[runOf[t]])
  /\ SetTask(t, [task[t] EXCEPT !.state = "queued"])
  /\ UNCHANGED <<run, owner, queueSeq, lead>>

\* task:recover attaches recorded evidence of a released Attempt.
TaskRecover(t) ==
  /\ task[t].state \in {"needs_review", "interrupted"}
  /\ task[t].exec = "released"
  /\ SetTask(t, [task[t] EXCEPT !.state = "completed"])
  /\ UNCHANGED <<run, owner, queueSeq, lead>>

\* task:accept and task:reject of a human acceptance policy.
TaskVerdict(t) ==
  /\ Business(t) /\ task[t].state = "completed"
  /\ run' = [run EXCEPT ![runOf[t]] = Revise(@)]
  /\ UNCHANGED <<owner, queueSeq, lead, task>>

-----------------------------------------------------------------------------
(* The Leader's identity and presence.                                     *)

LeaderSilent(m) ==
  /\ lead[m].online
  /\ lead' = [lead EXCEPT ![m].online = FALSE]
  /\ UNCHANGED <<run, owner, queueSeq, task>>

LeaderHeartbeat(m) ==
  /\ lead[m].bound /\ ~lead[m].online
  /\ lead' = [lead EXCEPT ![m].online = TRUE]
  /\ UNCHANGED <<run, owner, queueSeq, task>>

StepsOfTeam(m) == {t \in Task : ~Business(t) /\ teamOf[runOf[t]] = m /\ Live(task[t])}

\* Register under a new identity: a first runtime, a runtime after an explicit
\* release, or a new session, which interrupts what the old one executed.
LeaderRegister(m) ==
  /\ lead[m].epoch < MaxEpoch
  /\ lead' = [lead EXCEPT ![m] = [epoch |-> @.epoch + 1, bound |-> TRUE, online |-> TRUE]]
  /\ task' = [t \in Task |-> IF t \in StepsOfTeam(m) THEN Interrupted(task[t]) ELSE task[t]]
  /\ run' = FailRunsOf(run, StepsOfTeam(m))
  /\ UNCHANGED <<owner, queueSeq>>

LeaderRelease(m) ==
  /\ lead[m].bound /\ StepsOfTeam(m) = {}
  /\ lead' = [lead EXCEPT ![m].bound = FALSE, ![m].online = FALSE]
  /\ UNCHANGED <<run, owner, queueSeq, task>>

-----------------------------------------------------------------------------
AdapterStep(t) ==
  \/ InjectionRequested(t) \/ InputObserved(t) \/ ResultProposed(t) \/ Suspend(t)
  \/ SettledFailed(t) \/ SettledMissing(t)
  \/ \E ok \in BOOLEAN : SettledBusiness(t, ok) \/ SettledLeader(t, ok)
  \/ \E P \in SUBSET Unplanned(runOf[t]) : DecideDispatch(t, P)
  \/ DecideWait(t) \/ DecideComplete(t)
  \/ Interrupt(t) \/ Stopped(t)

OperatorStep ==
  \/ \E r \in Run : \/ \E P \in SUBSET Unplanned(r) : CreateRun(r, P)
                    \/ RunCancel(r) \/ RunResume(r) \/ RunGuidance(r)
  \/ \E t \in Task : \/ CreateTask(t) \/ TaskCancel(t) \/ TaskRetry(t)
                     \/ TaskRecover(t) \/ TaskVerdict(t) \/ Reconcile(t)

LeaderStep ==
  \E m \in Team : \/ LeaderSilent(m) \/ LeaderHeartbeat(m)
                  \/ LeaderRegister(m) \/ LeaderRelease(m)

Next == Tick \/ Restart \/ OperatorStep \/ LeaderStep \/ \E t \in Task : AdapterStep(t)

Spec == Init /\ [][Next]_vars

-----------------------------------------------------------------------------
(* Properties.                                                             *)

\* A Run owns its whole roster from its admission to its clean-up, and no Role
\* outside it: role_ownership never holds part of a roster (admitRuns acquires
\* Role by Role, cleanupRun deletes by Run).
OwnsWholeRoster ==
  \A r \in Run : {role \in Role : owner[role] = r} =
                  IF Holding(run[r]) THEN roster[r] ELSE {}

\* A Team has one active Run; the unique index one_active_team would otherwise
\* roll back the whole Tick, and every later one.
OneActiveRunPerTeam ==
  \A r, s \in Run : Holding(run[r]) /\ Holding(run[s]) /\ teamOf[r] = teamOf[s] => r = s

\* FIFO among clashing Runs over their whole life: a Run that holds Roles never
\* entered the queue after a clashing Run that is still waiting, held or not.
NoOvertake ==
  \A r, s \in Run : Holding(run[r]) /\ Waiting(run[s]) /\ Clash(r, s)
                      => run[r].seq < run[s].seq

\* An execution whose stop is not confirmed keeps the roster of its Run owned:
\* cancelled, interrupted, quarantined or restarted, its Roles are not given to
\* another Run while it may still write (cleanupRun counts Attempts).
RolesHeldWhileExecuting ==
  \A t \in Task : Live(task[t]) =>
     Holding(run[runOf[t]]) /\ \A role \in roster[runOf[t]] : owner[role] = runOf[t]

\* A completed Run owes nothing: business Tasks exist, each is completed or was
\* cancelled, no execution is unconfirmed, the Roles are released.  Guidance,
\* new Tasks, retries, invalidated results and restarts may all fall between
\* the Leader's decision, its settlement and later.
CompletedMeansDone ==
  \A r \in Run : run[r].phase = "completed" =>
     LET business == {t \in TasksOf(r) : Business(t)} IN
     /\ \E t \in business : task[t].state = "completed"
     /\ \A t \in business : task[t].state \in {"absent", "completed", "cancelled"}
     /\ LiveIn(task, r) = {}
     /\ run[r].cleanup = "released"

\* A Task that waits for the operator holds its Run, so nothing new is
\* dispatched for it and the Leader cannot decide around it.
UnresolvedImpliesHold ==
  \A t \in Task : /\ task[t].state \in {"needs_review", "interrupted"}
                  /\ Open(run[runOf[t]])
                  => run[runOf[t]].hold

\* A held Run starts no new segment, neither an Attempt nor a continuation.
HoldBlocksNewSegments ==
  [][\A t \in Task : run[runOf[t]].hold /\ task[t].exec # "admitted"
                     => task'[t].exec # "admitted"]_vars

\* No guidance is lost: while nothing is left for the Leader to look at, some
\* LeaderStep of the Run was planned with every guidance text.
GuidanceReachesLeader ==
  \A r \in Run : Open(run[r]) /\ ~run[r].news =>
     \E t \in TasksOf(r) : ~Business(t) /\ task[t].seen = run[r].guidance

\* The completion a Leader proposed stands only while the Run has not changed:
\* no hold, cancellation or clean-up leaves it current.
IntentNeedsWorkingRun ==
  \A r \in Run : run[r].intent = "current" => Working(run[r])

\* The set this model admits at once is the one the code's loop arrives at.
AdmissionIsOnePass == AdmissionPass(run) = Admissible(run)

\* Teams and Roles as a service of their own: a Run needs its Team and its roster.
Things == ({"team"} \X Team) \cup ({"role"} \X Role)
Needs == [r \in Run |-> {<<"team", teamOf[r]>>} \cup ({"role"} \X roster[r])]

StageOf(rec) ==
  CASE rec.phase = "absent" -> "away"
    [] Waiting(rec) -> "inline"
    [] Holding(rec) -> "served"
    [] OTHER -> "gone"

UserOf(x) ==
  IF x[1] = "role" THEN owner[x[2]]
  ELSE IF \E r \in Run : Holding(run[r]) /\ teamOf[r] = x[2]
       THEN CHOOSE r \in Run : Holding(run[r]) /\ teamOf[r] = x[2]
       ELSE NoRun

Reservations == INSTANCE Reservations WITH
  Party <- Run, Thing <- Things, Nobody <- NoRun, needs <- Needs,
  stage <- [r \in Run |-> StageOf(run[r])],
  place <- [r \in Run |-> run[r].seq],
  user <- [x \in Things |-> UserOf(x)],
  working <- {r \in Run : LiveIn(task, r) # {}}

\* Over its whole life a Run, whatever happens to it, uses its Team and its Roles as
\* Reservations promises: all at once, in turn, for as long as anything of it may
\* still execute, and once.
ImplementsReservations == Reservations!Spec

\* A Run that is over, has nothing left to confirm, and still owns its Roles.
Stranded(r) ==
  /\ Terminal(run[r].phase) /\ run[r].cleanup # "released"
  /\ LiveIn(task, r) = {}

\* Cancelling a Run gives its roster back once every execution is confirmed to
\* have stopped (the adapter's Stopped, or the operator's attestation).
NeverStranded == \A r \in Run : ~Stranded(r)

-----------------------------------------------------------------------------
(* Fairness.  serve.go calls Tick every 500 ms, so a Tick comes while Runs   *)
(* stay admissible.  The adapter keeps reporting the stop of a quarantined *)
(* execution until the controller has it, or the operator attests to it.   *)

AdmittingTick == Admissible(run) # {} /\ Tick

StopConfirmed(t) == Stopped(t) \/ (~Accepting(task[t]) /\ Reconcile(t))

FairSpec ==
  Spec /\ WF_vars(AdmittingTick) /\ \A t \in Task : WF_vars(StopConfirmed(t))

\* First in the queue, and only cancelled Runs in the way.
NextInLine(s) ==
  /\ Waiting(run[s])
  /\ \A r \in Run \ {s} : Clash(r, s) =>
       /\ Waiting(run[r]) => run[s].seq < run[r].seq
       /\ Holding(run[r]) => run[r].phase = "cancelled"

\* The Roles of a cancelled Run are handed over: whatever restarts, lapsed
\* leases and interruptions happen on the way, the next Run in line is admitted
\* unless something of its own stops it.
HandOver ==
  \A s \in Run : NextInLine(s) ~>
     \/ ~Waiting(run[s]) \/ run[s].hold
     \/ ~LeaderReady(teamOf[s]) \/ lead[teamOf[s]].epoch # run[s].leader
     \/ \E r \in Run : Stranded(r)
=============================================================================
