-------------------------------- MODULE TaskTree --------------------------------
(***************************************************************************)
(* Trees of delegated Tasks of the Pi Squad controller: a Task invokes     *)
(* children, yields until they are done, answers their questions between   *)
(* its segments, and its accepted result covers theirs                     *)
(* (pi_squad/controller/scheduler: tasks, continuation, clarification,     *)
(* acceptance, waitgraph).                                                 *)
(*                                                                         *)
(* The question the module answers: do a Task and the Tasks it delegated   *)
(* to ever work at the same time, does an asker go on without its answer,  *)
(* does an acceptance outlive what it was given for, and does a circle of  *)
(* waits go unnoticed?                                                     *)
(*                                                                         *)
(* Abstractions.  The trees are standalone: what a Run adds is in          *)
(* RunAdmission.  Presence, leases, tokens and capacity are in Execution;  *)
(* here a Tick may leave alone any Task it could start or continue.  A     *)
(* child accepts its parent's policy (inherit_parent), a root the          *)
(* operator's verdict.  The dependencies of a Task are its children.       *)
(* Results are numbered per Task; files are the choice of a Tick that      *)
(* finds them changed.  An amendment shows as the proposal it supersedes.  *)
(***************************************************************************)
EXTENDS Integers, FiniteSets

CONSTANTS
  Task, Agent,
  None,         \* no Task
  parentOf,     \* [Task -> Task \cup {None}]
  agentOf,      \* [Task -> Agent]: Target, never the agent of an ancestor
  rank,         \* [Task -> Nat]: order of creation, which is that of the rows
  attempts,     \* [Task -> Nat]: Policy.MaxAttemptsPerTask
  MaxResults,   \* bound of the model: results of one Task
  Steered,      \* bound of the model: the Tasks the operator acts on
  Failing,      \* bound of the model: the Tasks whose segments, or adapters, may fail
  Asking,       \* bound of the model: the Tasks that may ask their parent, once
  Changing,     \* bound of the model: the Tasks whose files may change
  Dated         \* bound of the model: the Tasks whose deadline may pass in the queue

ASSUME TreeAssumption ==
  /\ IsFiniteSet(Task) /\ None \notin Task
  /\ parentOf \in [Task -> Task \cup {None}]
  /\ agentOf \in [Task -> Agent]
  /\ rank \in [Task -> Nat] /\ attempts \in [Task -> Nat]
  /\ \A t, u \in Task : rank[t] = rank[u] => t = u
  /\ \A t \in Task : parentOf[t] # None => rank[parentOf[t]] < rank[t]
  /\ Steered \cup Failing \cup Asking \cup Changing \cup Dated \subseteq Task

VARIABLES
  task,       \* [Task -> record]: table tasks
  attempt,    \* [Task -> record]: the Attempt of the Task that is not released
  question    \* [Task -> record]: table clarifications, by the Task that asks

vars == <<task, attempt, question>>

-----------------------------------------------------------------------------
Terminal(state) == state \in {"completed", "failed", "cancelled", "interrupted"}

Verdicts == [decision : {"none", "accepted", "rejected"}, result : Nat, by : Nat]
NoVerdict == [decision |-> "none", result |-> 0, by |-> 0]

\* result is the number of the current Result or 0, made counts them; refs
\* are the results of children it has been given (Refs); by is CoveredBy; flag
\* and waits are the Blockers: waits for the affinity of another Task's
\* Attempt, flag for any other that is not recomputed by the next Tick.
TaskRecord ==
  [state : {"absent", "queued", "dispatching", "running", "result_proposed",
            "waiting_dependency", "completed", "interrupted", "cancelled",
            "needs_review"},
   tries : Nat, made : Nat, result : Nat, refs : [Task -> Nat],
   flag : BOOLEAN, waits : SUBSET Task, verdict : Verdicts]

\* "fresh" stands for dispatch_intent and adapter_received.
AttemptRecord ==
  [state : {"none", "admitted", "running", "result_proposed", "suspended",
            "interrupted", "cancelled", "needs_review"},
   mode : {"work", "response_only"},
   receipt : {"fresh", "injection_requested", "input_observed"},
   yield : BOOLEAN, about : Task \cup {None}, lease : {"none", "held", "expired"}]

\* from and to number the Attempts of the asker and of its parent.
QuestionRecord ==
  [state : {"none", "waiting_child_settled", "answering", "answered"},
   from : Nat, to : Nat, answer : BOOLEAN]

TypeOK ==
  /\ task \in [Task -> TaskRecord]
  /\ attempt \in [Task -> AttemptRecord]
  /\ question \in [Task -> QuestionRecord]

NoAttempt == [state |-> "none", mode |-> "work", receipt |-> "fresh",
              yield |-> FALSE, about |-> None, lease |-> "none"]
Segment == [NoAttempt EXCEPT !.state = "admitted", !.lease = "held"]

Live(x) == x.state # "none"
Executing(x) == x.state \in {"admitted", "running", "result_proposed"}
Suspended(x) == x.state = "suspended"
Quarantined(x) == x.state \in {"interrupted", "cancelled", "needs_review"}
Working(x) == Executing(x) /\ x.mode = "work"
Blocked(c) == c.flag \/ c.waits # {}

\* The least set with the parent of t that has the parents of its members.
Ancestors ==
  LET holds(S, u) == parentOf[u] # None => parentOf[u] \in S
      upward == {S \in SUBSET Task : \A u \in S : holds(S, u)}
  IN [t \in Task |-> {u \in Task : \A S \in upward : holds(S, t) => u \in S}]
Children(T, t) == {c \in Task : parentOf[c] = t /\ T[c].state # "absent"}

-----------------------------------------------------------------------------
(* Evidence.  T is the table tasks, at some point of a transaction.        *)

\* dependencyReady for the edge execution_completed.
Ready(T, t) ==
  \A c \in Children(T, t) : T[c].state = "completed" /\ T[c].result # 0 /\ ~Blocked(T[c])

\* validateResultRefs of what t has been given, down the tree.
RefsValid(T, t) ==
  LET valid[u \in Task] ==
        \A c \in Task : parentOf[c] = u /\ T[u].refs[c] # 0 =>
          /\ T[c].state = "completed" /\ T[c].result = T[u].refs[c] /\ ~Blocked(T[c])
          /\ valid[c]
  IN valid[t]

\* resolveTaskRefs: what was given stays, new results are added.
Resolved(T, t) ==
  [c \in Task |-> IF c \in Children(T, t) /\ T[t].refs[c] = 0 THEN T[c].result
                                                             ELSE T[t].refs[c]]

\* coverChildren, when its passes change nothing more: a child's result is
\* accepted with the accepted result of its parent that refers to it, for as long
\* as that is so all the way up to the verdict on the root.
Covers(T, t) ==
  \A u \in {t} \cup Ancestors[t] :
    /\ T[u].state = "completed" /\ ~Blocked(T[u]) /\ T[u].result # 0
    /\ parentOf[u] = None => /\ T[u].verdict.decision = "accepted"
                             /\ T[u].verdict.result = T[u].result
    /\ parentOf[u] # None => T[parentOf[u]].refs[u] = T[u].result

Covered(T) ==
  [t \in Task |->
     IF parentOf[t] = None \/ T[t].result = 0 THEN T[t]
     ELSE [T[t] EXCEPT !.verdict =
             IF Covers(T, t)
             THEN [decision |-> "accepted", result |-> T[t].result,
                   by |-> T[parentOf[t]].result]
             ELSE NoVerdict]]

\* failAncestors: what the Tasks B ran into is left to the operator all the way
\* up.
Failed(c) == [c EXCEPT !.state = "needs_review", !.flag = TRUE]
FailAncestors(T, B) ==
  Covered([t \in Task |-> IF (\E b \in B : t \in Ancestors[b]) /\ ~Terminal(T[t].state)
                          THEN Failed(T[t]) ELSE T[t]])

-----------------------------------------------------------------------------
(* Creation.                                                               *)

NewTask(state) ==
  [state |-> state, tries |-> 0, made |-> 0, result |-> 0, refs |-> [t \in Task |-> 0],
   flag |-> FALSE, waits |-> {}, verdict |-> NoVerdict]

Init ==
  /\ task = [t \in Task |-> NewTask("absent")]
  /\ attempt = [t \in Task |-> NoAttempt]
  /\ question = [t \in Task |-> [state |-> "none", from |-> 0, to |-> 0, answer |-> FALSE]]

\* createTask: a root, or a child of a Task with an Attempt.  The Task itself
\* invokes its children while it works, the operator at any time.
CreateTask(t) ==
  /\ task[t].state = "absent"
  /\ \A u \in Task : rank[t] < rank[u] => task[u].state = "absent"
  /\ parentOf[t] # None =>
       /\ ~Terminal(task[parentOf[t]].state)
       /\ task[parentOf[t]].state \notin {"absent", "needs_review"}
       /\ Live(attempt[parentOf[t]])
  /\ task' = [task EXCEPT ![t] = NewTask("queued")]
  /\ UNCHANGED <<attempt, question>>

-----------------------------------------------------------------------------
(* Tick: results are checked, deadlines and leases expire, questions get   *)
(* their response segment, suspended Attempts continue, Tasks start, and   *)
(* the circles of waits are looked for.                                    *)

\* invalidateChangedResults, when the files of the Tasks X have changed.
Spoilt(T, X) ==
  LET spoilt[t \in Task] ==
        \/ t \in X
        \/ \E c \in Task : parentOf[c] = t /\ T[t].refs[c] # 0 /\ spoilt[c]
      bad == {t \in Task : /\ T[t].state = "completed" /\ T[t].result # 0
                           /\ (spoilt[t] \/ ~RefsValid(T, t))}
      marked == [t \in Task |-> IF t \in bad
                                THEN [Failed(T[t]) EXCEPT !.verdict = NoVerdict]
                                ELSE T[t]]
  IN FailAncestors(marked, bad)

\* expire: the deadline of a Task interrupts its agent, the end of a lease
\* sends the Attempt to review.
OfAgents(A) == {t \in Task : Live(attempt[t]) /\ agentOf[t] \in A}
Overdue(T) == {t \in Dated : T[t].tries > 0 /\ T[t].state \notin {"absent", "needs_review"}
                            /\ ~Terminal(T[t].state)}

Quarantine(x, state) ==
  [x EXCEPT !.state = state, !.lease = IF @ = "expired" THEN "held" ELSE @]

ExpiredAttempt(A, L) ==
  [t \in Task |->
     LET x == IF t \in OfAgents(A) THEN Quarantine(attempt[t], "interrupted") ELSE attempt[t]
     IN IF t \notin L THEN x
        ELSE [x EXCEPT !.lease = "expired",
                       !.state = IF Terminal(@) THEN @ ELSE "needs_review"]]

ExpiredTask(T, A, L) ==
  FailAncestors(
    [t \in Task |-> IF t \in OfAgents(A) THEN [T[t] EXCEPT !.state = "interrupted"]
                    ELSE IF t \in L /\ ~Terminal(T[t].state)
                         THEN [T[t] EXCEPT !.state = "needs_review"]
                         ELSE T[t]],
    OfAgents(A) \cup L)

\* startResponses: the asker has settled, its parent is between segments.
Askable(T, A, q) ==
  LET p == parentOf[q] IN
  /\ question[q].state = "waiting_child_settled"
  /\ Suspended(A[q]) /\ question[q].from = T[q].tries
  /\ Suspended(A[p]) /\ question[q].to = T[p].tries

Responding(A, R) ==
  [t \in Task |-> IF \E q \in R : parentOf[q] = t
                  THEN [Segment EXCEPT !.mode = "response_only",
                                       !.about = CHOOSE q \in R : parentOf[q] = t]
                  ELSE A[t]]

\* resumeReady: a Task that has asked needs its answer, and every Task its
\* children.  Mutant: the answer is not waited for.
ContinuableUnanswered(T, A, t) ==
  /\ T[t].state = "waiting_dependency" /\ Suspended(A[t])
  /\ Ready(T, t)

Continuable(T, A, t) ==
  /\ T[t].state = "waiting_dependency" /\ Suspended(A[t])
  /\ A[t].about # None => question[A[t].about].state = "answered"
  /\ Ready(T, t)

Given(T, t) == [T EXCEPT ![t].refs = Resolved(T, t)]

Continued(T, S) ==
  LET good == {t \in S : RefsValid(Given(T, t), t)} IN
  FailAncestors(
    [t \in Task |-> IF t \in good THEN [T[t] EXCEPT !.state = "dispatching", !.flag = FALSE,
                                                    !.waits = {}, !.refs = Resolved(T, t)]
                    ELSE IF t \in S THEN Failed(T[t])
                    ELSE T[t]],
    S \ good)

ContinuedAttempt(T, A, S) ==
  [t \in Task |-> IF t \in S /\ RefsValid(Given(T, t), t)
                  THEN Segment
                  ELSE A[t]]

Pending(c) == c.state \in {"queued", "waiting_dependency"}

\* The dispatch loop: a Task waits for its own children, for its parent to
\* yield (parent_yield), and then for the agent (agent_affinity).
\* Mutant: the parent's yield is not waited for.
CallableAtOnce(T, A, t) == Ready(T, t)

Callable(T, A, t) ==
  /\ Ready(T, t)
  /\ parentOf[t] # None => Suspended(A[parentOf[t]])

Startable(T, A, t) ==
  /\ Pending(T[t]) /\ Callable(T, A, t)
  /\ \A u \in Task : agentOf[u] = agentOf[t] => ~Live(A[u])

WaitsFor(A, D, t) ==
  {u \in Task : /\ u # t /\ agentOf[u] = agentOf[t]
                /\ (Live(A[u]) \/ (u \in D /\ rank[u] < rank[t]))}

\* The Tasks D are served; those of them whose references or attempts are used up
\* are left to the operator, and so are the Tasks whose deadline has passed.
Served(T, A, D, L) ==
  LET fit(t) == T[t].tries < attempts[t] /\ RefsValid(Given(T, t), t)
      started == {t \in D : fit(t)}
      blocked == {t \in Task : Pending(T[t])} \ (D \cup L)
  IN FailAncestors(
       [t \in Task |->
          IF t \in started
          THEN [T[t] EXCEPT !.state = "dispatching", !.tries = @ + 1, !.flag = FALSE,
                            !.waits = {}, !.refs = Resolved(T, t)]
          ELSE IF t \in D \cup L THEN [Failed(T[t]) EXCEPT !.waits = {}]
          ELSE IF t \in blocked
          THEN [T[t] EXCEPT !.flag = FALSE,
                            !.waits = IF Callable(T, A, t) THEN WaitsFor(A, started, t)
                                      ELSE {}]
          ELSE T[t]],
       (D \cup L) \ started)

StartedAttempt(T, A, D) ==
  [t \in Task |-> IF t \in D /\ T[t].tries < attempts[t] /\ RefsValid(Given(T, t), t)
                  THEN Segment
                  ELSE A[t]]

\* reconcileWaitGraph: dependencies and affinities of the Tasks that are not
\* over.
WaitEdges(T) ==
  {e \in Task \X Task :
     /\ ~Terminal(T[e[1]].state)
     /\ e[2] \in Children(T, e[1]) \cup T[e[1]].waits}

\* Mutant: only the calls are looked at.
CallEdges(T) == {e \in Task \X Task : ~Terminal(T[e[1]].state) /\ e[2] \in Children(T, e[1])}

\* The Tasks of the circles graphCycle may find: it returns one.
Circles(E) ==
  {C \in SUBSET ({e[1] : e \in E} \cap {e[2] : e \in E}) :
     /\ C # {} /\ \A t \in C : \E u \in C : <<t, u>> \in E
     /\ \E next \in [C -> C] :
          /\ \A t \in C : <<t, next[t]>> \in E
          /\ \A B \in SUBSET C : B # {} /\ B # C => \E t \in B : next[t] \notin B}

Newest(C) == CHOOSE t \in C : \A u \in C : rank[u] <= rank[t]

Unwound(T, C) ==
  IF T[Newest(C)].state = "needs_review" THEN T
  ELSE FailAncestors([T EXCEPT ![Newest(C)] = Failed(T[Newest(C)])], {Newest(C)})

\* Mutant: only the calls are looked at.
CycleMarkedCalls(T) ==
  LET found == Circles(CallEdges(T)) IN
  IF found = {} THEN {T} ELSE {Unwound(T, C) : C \in found}

CycleMarked(T) ==
  LET found == Circles(WaitEdges(T)) IN
  IF found = {} THEN {T} ELSE {Unwound(T, C) : C \in found}

Dispatch(T, A) ==
  \E D \in SUBSET {t \in Task : Startable(T, A, t)},
     late \in SUBSET {t \in Dated : Pending(T[t])} :
    /\ D \cap late = {}
    /\ \A t, u \in D : agentOf[t] = agentOf[u] => t = u
    /\ attempt' = StartedAttempt(T, A, D)
    /\ \E served \in {Served(T, A, D, late)} : task' \in CycleMarked(served)

\* One transaction; T0, T1, ... are the table tasks between its parts, A1, A2,
\* ... the table attempts.
Tick ==
  \E X \in SUBSET Changing : \E T0 \in {Spoilt(task, X)} :
  \E A \in SUBSET {agentOf[t] : t \in Overdue(T0)},
     L \in SUBSET {t \in Failing : attempt[t].lease = "held"} :
  \E T1 \in {ExpiredTask(T0, A, L)}, A1 \in {ExpiredAttempt(A, L)} :
  \E R \in SUBSET {q \in Task : Askable(T1, A1, q)} :
  \E A2 \in {Responding(A1, R)} :
  \E S \in SUBSET {t \in Task : Continuable(T1, A2, t)} :
    /\ \A q, r \in R : parentOf[q] = parentOf[r] => q = r
    /\ question' = [q \in Task |-> IF q \in R
                                   THEN [question[q] EXCEPT !.state = "answering"]
                                   ELSE question[q]]
    /\ \A t \in Task : Continuable(T1, A2, t) /\ ~RefsValid(Given(T1, t), t) => t \in S
    /\ \E T3 \in {Continued(T1, S)}, A3 \in {ContinuedAttempt(T1, A2, S)} :
         Dispatch(T3, A3)

-----------------------------------------------------------------------------
(* Events of the adapter; the stale ones are refused (Execution).  T is task *)
(* with the row of t replaced.                                               *)

SetAttempt(t, x) == attempt' = [attempt EXCEPT ![t] = x]
SetTask(t, state) == [task EXCEPT ![t].state = state]

\* injection_requested, then input_observed.
Inject(t) ==
  /\ attempt[t].state = "admitted" /\ attempt[t].receipt = "fresh"
  /\ SetAttempt(t, [attempt[t] EXCEPT !.receipt = "injection_requested"])
  /\ UNCHANGED <<task, question>>

Observe(t) ==
  /\ attempt[t].state = "admitted" /\ attempt[t].receipt = "injection_requested"
  /\ SetAttempt(t, [attempt[t] EXCEPT !.receipt = "input_observed", !.state = "running"])
  /\ task' = SetTask(t, "running")
  /\ UNCHANGED question

\* The Task waits for the children it has invoked.
Yield(t) ==
  /\ attempt[t].state = "running" /\ attempt[t].mode = "work" /\ Children(task, t) # {}
  /\ SetAttempt(t, [attempt[t] EXCEPT !.yield = TRUE])
  /\ UNCHANGED <<task, question>>

\* A child asks its parent, and will yield.
Clarify(t) ==
  LET p == parentOf[t] IN
  /\ t \in Asking /\ p # None /\ question[t].state = "none"
  /\ attempt[t].state = "running" /\ attempt[t].mode = "work"
  /\ Suspended(attempt[p])
  /\ SetAttempt(t, [attempt[t] EXCEPT !.yield = TRUE, !.about = t])
  /\ question' = [question EXCEPT ![t] = [state |-> "waiting_child_settled",
                                         from |-> task[t].tries, to |-> task[p].tries,
                                         answer |-> FALSE]]
  /\ UNCHANGED task

\* The response segment of t answers.
Answer(t) ==
  LET q == attempt[t].about IN
  /\ Executing(attempt[t]) /\ attempt[t].mode = "response_only"
  /\ question[q].state = "answering"
  /\ question' = [question EXCEPT ![q].answer = TRUE]
  /\ UNCHANGED <<task, attempt>>

ResultProposed(t) ==
  /\ attempt[t].state = "running" /\ attempt[t].mode = "work" /\ RefsValid(task, t)
  /\ SetAttempt(t, [attempt[t] EXCEPT !.state = "result_proposed"])
  /\ task' = SetTask(t, "result_proposed")
  /\ UNCHANGED question

\* settled after the model failed or was aborted.
SettledFailed(t) ==
  /\ t \in Failing /\ Executing(attempt[t])
  /\ SetAttempt(t, NoAttempt)
  /\ task' = FailAncestors(SetTask(t, "interrupted"), {t})
  /\ UNCHANGED question

\* The parent goes back to waiting; the asker may continue.
SettledResponse(t) ==
  LET q == attempt[t].about IN
  /\ Executing(attempt[t]) /\ attempt[t].mode = "response_only" /\ question[q].answer
  /\ SetAttempt(t, [NoAttempt EXCEPT !.state = "suspended", !.receipt = attempt[t].receipt])
  /\ task' = SetTask(t, "waiting_dependency")
  /\ question' = [question EXCEPT ![q].state = "answered"]

\* settled with a yield, or with a result for a goal amended since.
SettledSuspended(t) ==
  /\ Working(attempt[t])
  /\ attempt[t].yield \/ attempt[t].state = "result_proposed"
  /\ SetAttempt(t, [attempt[t] EXCEPT !.state = "suspended", !.lease = "none"])
  /\ task' = SetTask(t, "waiting_dependency")
  /\ UNCHANGED question

SettledMissing(t) ==
  /\ t \in Failing /\ Working(attempt[t]) /\ ~attempt[t].yield /\ attempt[t].state # "result_proposed"
  /\ SetAttempt(t, [attempt[t] EXCEPT !.state = "needs_review", !.lease = "none"])
  /\ task' = FailAncestors(SetTask(t, "needs_review"), {t})
  /\ UNCHANGED question

\* The result is the Task's; afterCompletion leaves it to the operator when its
\* evidence is no longer what it was proposed with.
SettledCompleted(t) ==
  LET done == [task EXCEPT ![t].state = "completed", ![t].made = @ + 1,
                           ![t].result = task[t].made + 1] IN
  /\ Working(attempt[t]) /\ ~attempt[t].yield /\ attempt[t].state = "result_proposed"
  /\ task[t].made < MaxResults
  /\ SetAttempt(t, NoAttempt)
  /\ \/ RefsValid(task, t) /\ task' = Covered(done)
     \/ /\ t \in Changing \/ ~RefsValid(task, t)
        /\ task' = FailAncestors([done EXCEPT ![t] = Failed(@)], {t})
  /\ UNCHANGED question

\* The input was provably not injected: the same Attempt may be continued.
Deferred(t) ==
  /\ t \in Failing /\ attempt[t].state = "admitted" /\ attempt[t].receipt # "input_observed"
  /\ SetAttempt(t, [attempt[t] EXCEPT !.state = "suspended", !.lease = "none"])
  /\ task' = SetTask(t, "waiting_dependency")
  /\ UNCHANGED question

\* The adapter of an agent reports an interference with its session.
Interrupt(a) ==
  /\ OfAgents({a}) # {}
  /\ attempt' = ExpiredAttempt({a}, {})
  /\ task' = ExpiredTask(task, {a}, {})
  /\ UNCHANGED question

\* The adapter confirms that a quarantined Attempt has stopped.
Stopped(t) ==
  /\ Quarantined(attempt[t])
  /\ SetAttempt(t, NoAttempt)
  /\ UNCHANGED <<task, question>>

-----------------------------------------------------------------------------
(* Operations.                                                             *)

\* The operator attests that the Attempt has stopped.
Reconcile(t) ==
  /\ Live(attempt[t])
  /\ SetAttempt(t, NoAttempt)
  /\ task' = IF Terminal(task[t].state) THEN task
             ELSE FailAncestors(SetTask(t, "interrupted"), {t})
  /\ UNCHANGED question

\* A cancellation goes down the calls that are not over, and fails upwards.
Called(t) ==
  LET down[u \in Task] ==
        {u} \cup UNION {down[c] : c \in {c \in Children(task, u) : ~Terminal(task[c].state)}}
  IN down[t]

CancelledAttempt(x) ==
  IF Live(x) /\ x.receipt # "fresh" /\ ~Suspended(x) THEN Quarantine(x, "cancelled")
  ELSE NoAttempt

TaskCancel(t) ==
  /\ task[t].state \notin {"absent", "cancelled", "completed"}
  /\ attempt' = [u \in Task |-> IF u \in Called(t) THEN CancelledAttempt(attempt[u])
                                 ELSE attempt[u]]
  /\ task' = FailAncestors([u \in Task |-> IF u \in Called(t)
                                          THEN [task[u] EXCEPT !.state = "cancelled",
                                                               !.flag = FALSE, !.waits = {}]
                                          ELSE task[u]], {t})
  /\ UNCHANGED question

\* retry, and rebind of a Task without an Attempt.
TaskRetry(t) ==
  /\ task[t].state # "absent" /\ task[t].tries < attempts[t] /\ ~Live(attempt[t])
  /\ task' = Covered([task EXCEPT ![t] = [@ EXCEPT !.state = "queued", !.flag = FALSE,
                                           !.waits = {}, !.result = 0, !.verdict = NoVerdict]])
  /\ UNCHANGED <<attempt, question>>

\* A result on record becomes the Task's.
TaskRecover(t) ==
  /\ task[t].state \in {"needs_review", "interrupted"} /\ ~Live(attempt[t])
  /\ task[t].tries > 0 /\ task[t].made < MaxResults /\ RefsValid(task, t)
  /\ task' = Covered([task EXCEPT ![t] = [@ EXCEPT !.state = "completed", !.flag = FALSE,
                                           !.waits = {}, !.made = task[t].made + 1,
                                           !.result = task[t].made + 1,
                                           !.verdict = NoVerdict]])
  /\ UNCHANGED <<attempt, question>>

\* The operator's verdict on the current result of a root.  Mutant: what it
\* covers is left for later.
JudgeAlone(t, decision) ==
  /\ parentOf[t] = None /\ task[t].state = "completed" /\ task[t].result # 0
  /\ RefsValid(task, t)
  /\ task' = [task EXCEPT ![t].verdict = [decision |-> decision,
                                         result |-> task[t].result, by |-> 0]]
  /\ UNCHANGED <<attempt, question>>

Judge(t, decision) ==
  /\ parentOf[t] = None /\ task[t].state = "completed" /\ task[t].result # 0
  /\ RefsValid(task, t)
  /\ task' = Covered([task EXCEPT ![t].verdict = [decision |-> decision,
                                                 result |-> task[t].result, by |-> 0]])
  /\ UNCHANGED <<attempt, question>>

\* New: what was in progress, or accepted and not started, is left to the
\* operator.
Restart ==
  /\ attempt' = [t \in Task |-> IF Live(attempt[t]) THEN Quarantine(attempt[t], "needs_review")
                                 ELSE attempt[t]]
  /\ task' = [t \in Task |->
       IF Live(attempt[t]) THEN [task[t] EXCEPT !.state = "needs_review"]
       ELSE IF Pending(task[t]) /\ task[t].tries = 0 THEN Failed(task[t])
       ELSE task[t]]
  /\ UNCHANGED question

-----------------------------------------------------------------------------
Event(t) ==
  \/ Inject(t) \/ Observe(t) \/ Yield(t) \/ Clarify(t) \/ Answer(t) \/ ResultProposed(t)
  \/ SettledFailed(t) \/ SettledResponse(t) \/ SettledSuspended(t) \/ SettledMissing(t)
  \/ SettledCompleted(t) \/ Deferred(t) \/ Stopped(t)

Operation(t) ==
  \/ Reconcile(t) \/ TaskCancel(t) \/ TaskRetry(t) \/ TaskRecover(t)
  \/ Judge(t, "accepted") \/ Judge(t, "rejected")

Next ==
  \/ Tick \/ Restart
  \/ \E t \in Task : CreateTask(t) \/ Event(t)
  \/ \E t \in Steered : Operation(t)
  \/ \E t \in Failing : Interrupt(agentOf[t])

Spec == Init /\ [][Next]_vars

-----------------------------------------------------------------------------
(* Properties.                                                             *)

\* While a Task works, nothing it delegated itself is unreleased, not even an
\* Attempt that was cancelled or interrupted and may still run.  (A Task further
\* down may be: task:recover completes a Task without a look at its children.)
WorksAlone ==
  \A t \in Task : parentOf[t] # None => ~(Working(attempt[parentOf[t]]) /\ Live(attempt[t]))

\* A child that counts as accepted is the very result its accepted parent
\* refers to, and the parent's own result and acceptance are the current ones.
CoverageHonest ==
  \A t \in Task : parentOf[t] # None /\ task[t].verdict.decision = "accepted" =>
    LET p == parentOf[t] IN
    /\ task[t].state = "completed" /\ task[t].verdict.result = task[t].result
    /\ task[p].state = "completed" /\ task[p].verdict.decision = "accepted"
    /\ task[p].result = task[t].verdict.by /\ task[p].verdict.result = task[p].result
    /\ task[p].refs[t] = task[t].result

\* A question of a child has been put to the Attempt of t.
HasBeenAsked(t) ==
  \E c \in Task : /\ parentOf[c] = t /\ question[c].to = task[t].tries
                  /\ question[c].state \in {"answering", "answered"}

\* Whoever has asked does not go on without the answer, and a response segment
\* executes only for a question that is being answered.  (An asker that answers a
\* child of its own forgets what it asked: startResponses overwrites the
\* ClarificationID of its Attempt.)
AnswerReachesAsker ==
  \A t \in Task :
    /\ /\ question[t].state \in {"waiting_child_settled", "answering"}
       /\ question[t].from = task[t].tries /\ Executing(attempt[t])
       /\ ~HasBeenAsked(t)
       => attempt[t].yield
    /\ Executing(attempt[t]) /\ attempt[t].mode = "response_only" =>
         question[attempt[t].about].state = "answering"

\* No Tick leaves waits that form circles without a sign: in one of the circles
\* some Task has been left to the operator.  (The code marks one circle at a time, in
\* no particular order, so that a second one may have to wait for its Tick.)
Noticed(T) ==
  LET circles == Circles(WaitEdges(T)) IN
  circles # {} => \E C \in circles : \E t \in C : T[t].state = "needs_review"

NoSilentCycle == [][~Noticed(task') => ~Tick]_vars

\* What a child ends without is not waited for: when a child is cancelled or
\* interrupted, its parent does not go on as if the result could still come.
ChildOutcomeReachesParent ==
  \A t \in Task : /\ parentOf[t] # None
                  /\ task[t].state \in {"cancelled", "interrupted"}
                  => task[parentOf[t]].state # "waiting_dependency"
=================================================================================
