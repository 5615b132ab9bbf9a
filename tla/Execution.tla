------------------------------- MODULE Execution -------------------------------
(***************************************************************************)
(* Attempts of the Pi Squad controller: which agent executes which Task,   *)
(* under which identity, fencing token, lease and paths                    *)
(* (pi_squad/controller/scheduler).  One HTTP handler or one Tick is one   *)
(* SQLite transaction, hence one action.                                   *)
(*                                                                         *)
(* The question the module answers: can two Attempts ever use one agent,   *)
(* one token or one path; can an Attempt go on for an agent that is no     *)
(* longer the one it was given to; and can an Attempt that lost contact    *)
(* come back to life?  Grants.tla states the first as a service of its own *)
(* that this module implements.                                            *)
(*                                                                         *)
(* Abstractions.  What a Tick may find against a Task elsewhere (Run held, *)
(* dependencies, Role ownership, references, missing tools, activity) is   *)
(* its choice of the Tasks it leaves alone or refuses: RunAdmission and    *)
(* TaskTree model it.  A Task has at most one Attempt that is not         *)
(* released, so an Attempt is named by its Task; the released ones, which  *)
(* decide nothing any more, are forgotten.  Renewing a lease only          *)
(* postpones LeaseLapses.  The capacity of a Team is the same test as the  *)
(* capacity of the project, on fewer leases.                               *)
(***************************************************************************)
EXTENDS Integers, FiniteSets

CONSTANTS
  Agent, Role, Task, Path,
  None,           \* no agent, no Task
  member,         \* [Agent -> Role]: the Role an agent registers for
  roleOf,         \* [Task -> Role]
  named,          \* [Task -> Agent \cup {None}]: the agent a standalone Task names
  writes,         \* [Task -> SUBSET Path]: canonical write_set
  Overlap,        \* SUBSET (Path \X Path): ContainsPath, one way or the other
  attempts,       \* [Task -> Nat]: Policy.MaxAttemptsPerTask
  MaxParallel,    \* Config.MaxParallel
  MaxFencing,     \* bound of the model: permissions to execute ever given
  MaxBinding,     \* bound of the model: identities of one agent
  Leaving,        \* bound of the model: the agents that may fall silent or go
  Dated           \* bound of the model: the Tasks whose deadline may pass

ASSUME ExecutionAssumption ==
  /\ IsFiniteSet(Task)
  /\ member \in [Agent -> Role]
  /\ roleOf \in [Task -> Role]
  /\ named \in [Task -> Agent \cup {None}]
  /\ writes \in [Task -> SUBSET Path]
  /\ None \notin Agent \cup Task
  /\ \A p \in Path : <<p, p>> \in Overlap
  /\ \A p, q \in Path : <<p, q>> \in Overlap => <<q, p>> \in Overlap
  /\ attempts \in [Task -> Nat]
  /\ MaxParallel \in Nat
  /\ MaxFencing \in Nat /\ MaxBinding \in Nat

VARIABLES
  agent,      \* [Agent -> record]: table instances
  primary,    \* [Role -> Agent \cup {None}]: table primary_bindings
  task,       \* [Task -> record]
  attempt,    \* [Task -> record]: the Attempt of the Task that is not released
  reserved,   \* [Agent -> Task \cup {None}]: table agent_reservations
  lease,      \* [Task -> Nat]: table execution_leases, the token or 0
  held,       \* [Path -> Task \cup {None}]: table write_reservations
  fencing     \* controller_state.fencing

vars == <<agent, primary, task, attempt, reserved, lease, held, fencing>>

-----------------------------------------------------------------------------
(* States.                                                                 *)

Terminal(state) == state \in {"completed", "failed", "cancelled", "interrupted"}

\* binding numbers what SameBinding compares: runtime, session and epochs.
AgentRecord == [binding : Nat, presence : {"online", "silent", "revoked"}]

\* agent and binding are Task.Target; accepted says that it is frozen; late
\* that DeadlineAt has passed.
TaskRecord ==
  [state : {"absent", "planned", "queued", "dispatching", "running",
            "result_proposed", "waiting_dependency", "completed",
            "interrupted", "cancelled", "needs_review"},
   accepted : BOOLEAN, agent : Agent \cup {None}, binding : Nat,
   tries : Nat, late : BOOLEAN]

\* "none": every Attempt of the Task is released.  lapsed: LeaseExpiresAt has
\* passed.
AttemptRecord ==
  [state : {"none", "admitted", "running", "result_proposed", "suspended",
            "interrupted", "cancelled", "needs_review"},
   agent : Agent \cup {None}, binding : Nat, token : Nat,
   receipt : {"dispatch_intent", "adapter_received", "injection_requested",
              "input_observed"},
   yield : BOOLEAN, lapsed : BOOLEAN]

TypeOK ==
  /\ agent \in [Agent -> AgentRecord]
  /\ primary \in [Role -> Agent \cup {None}]
  /\ task \in [Task -> TaskRecord]
  /\ attempt \in [Task -> AttemptRecord]
  /\ reserved \in [Agent -> Task \cup {None}]
  /\ lease \in [Task -> Nat]
  /\ held \in [Path -> Task \cup {None}]
  /\ fencing \in Nat

NoAttempt == [state |-> "none", agent |-> None, binding |-> 0, token |-> 0,
              receipt |-> "dispatch_intent", yield |-> FALSE, lapsed |-> FALSE]

Live(x) == x.state # "none"
Executing(x) == x.state \in {"admitted", "running", "result_proposed"}
Suspended(x) == x.state = "suspended"
Quarantined(x) == x.state \in {"interrupted", "cancelled", "needs_review"}

\* Binding and presence of the agent the record x (a Task's Target or an
\* Attempt's) was given to.
Current(x) == x.agent # None /\ agent[x.agent].binding = x.binding
Online(a) == agent[a].presence = "online"
Revoked(a) == agent[a].presence = "revoked"

Conflict(t, u) == \E p \in writes[t], q \in writes[u] : <<p, q>> \in Overlap

Leased == {t \in Task : lease[t] # 0}

-----------------------------------------------------------------------------
(* What several handlers share.                                            *)

\* releaseAttempt for the Attempts of the Tasks T.
Release(T) ==
  /\ reserved' = [a \in Agent |-> IF reserved[a] \in T THEN None ELSE reserved[a]]
  /\ lease' = [t \in Task |-> IF t \in T THEN 0 ELSE lease[t]]
  /\ held' = [p \in Path |-> IF held[p] \in T THEN None ELSE held[p]]

\* DELETE FROM execution_leases: the agent and its paths stay reserved.
EndLease(t) == lease' = [lease EXCEPT ![t] = 0] /\ UNCHANGED <<reserved, held>>

\* Mutant: an interruption that frees the agent before it has stopped.
InterruptedAndFreed(x) == NoAttempt

\* interruptAgent: every unreleased Attempt of the agents A, and its Task.
Interrupted(x) == [x EXCEPT !.state = "interrupted"]
OfAgents(A) == {t \in Task : Live(attempt[t]) /\ attempt[t].agent \in A}
InterruptAgents(A) ==
  /\ attempt' = [t \in Task |-> IF t \in OfAgents(A) THEN Interrupted(attempt[t])
                                                     ELSE attempt[t]]
  /\ task' = [t \in Task |-> IF t \in OfAgents(A)
                             THEN [task[t] EXCEPT !.state = "interrupted"]
                             ELSE task[t]]

-----------------------------------------------------------------------------
(* Creation.                                                               *)

\* The first agent that registers for a Role becomes its Primary.
Init ==
  /\ agent = [a \in Agent |-> [binding |-> 1, presence |-> "online"]]
  /\ primary \in [Role -> Agent \cup {None}]
  /\ \A r \in Role : IF primary[r] = None THEN \A a \in Agent : member[a] # r
                                         ELSE member[primary[r]] = r
  /\ task = [t \in Task |-> [state |-> "absent", accepted |-> FALSE, agent |-> None,
                             binding |-> 0, tries |-> 0, late |-> FALSE]]
  /\ attempt = [t \in Task |-> NoAttempt]
  /\ reserved = [a \in Agent |-> None]
  /\ lease = [t \in Task |-> 0]
  /\ held = [p \in Path |-> None]
  /\ fencing = 0

\* Freezes the Target with a deadline of its own.
Accept(rec, a) == [rec EXCEPT !.accepted = TRUE, !.agent = a,
                              !.binding = agent[a].binding, !.late = FALSE]

\* createTask for a standalone Task; a step of a Team is planned first (Decide).
CreateTask(t) ==
  /\ task[t].state = "absent"
  /\ \/ /\ named[t] # None /\ Online(named[t])
        /\ task' = [task EXCEPT ![t] = [Accept(task[t], named[t]) EXCEPT !.state = "queued"]]
     \/ /\ named[t] = None
        /\ task' = [task EXCEPT ![t].state = "planned"]
  /\ UNCHANGED <<agent, primary, attempt, reserved, lease, held, fencing>>

-----------------------------------------------------------------------------
(* Tick.  It expires, then continues suspended Attempts, then dispatches,  *)
(* each on what the passes before have left.                               *)

Overdue(t) ==
  /\ ~Terminal(task[t].state) /\ task[t].state \notin {"absent", "needs_review"}
  /\ task[t].late /\ task[t].agent # None /\ task[t].tries > 0

\* expire interrupts the agent of an overdue Task, whatever it executes.
Deadlined(t) == t \in OfAgents({task[u].agent : u \in {v \in Task : Overdue(v)}})

LeaseExpired(t) == lease[t] # 0 /\ attempt[t].lapsed

ExpiredAttempt(t) ==
  IF Deadlined(t) THEN Interrupted(attempt[t])
  ELSE IF LeaseExpired(t) /\ ~Terminal(attempt[t].state)
       THEN [attempt[t] EXCEPT !.state = "needs_review"]
       ELSE attempt[t]

ExpiredTask(t) ==
  IF Deadlined(t) THEN [task[t] EXCEPT !.state = "interrupted"]
  ELSE IF LeaseExpired(t) /\ ~Terminal(task[t].state)
       THEN [task[t] EXCEPT !.state = "needs_review"]
       ELSE task[t]

Resumable(t) ==
  /\ ExpiredTask(t).state = "waiting_dependency"
  /\ Suspended(ExpiredAttempt(t))
  /\ Current(attempt[t]) /\ Online(attempt[t].agent)

Pending(t) == ExpiredTask(t).state \in {"planned", "queued", "waiting_dependency"}

\* A planned Task is accepted when its Primary is there.
Acceptable(t) ==
  /\ Pending(t) /\ ~task[t].accepted
  /\ LET a == primary[roleOf[t]] IN a # None /\ Online(a)

Offered(t, taken) ==
  IF t \in taken
  THEN [Accept(ExpiredTask(t), primary[roleOf[t]]) EXCEPT !.state = "queued"]
  ELSE ExpiredTask(t)

\* Mutant: the same path, but not a path inside it, is a conflict.
StartableSamePath(t, c) ==
  /\ c.accepted /\ c.tries < attempts[t]
  /\ Current(c) /\ Online(c.agent)
  /\ named[t] = None => primary[roleOf[t]] = c.agent
  /\ reserved[c.agent] = None
  /\ \A p \in writes[t] : held[p] = None

\* The checks of the dispatch loop on the Task's row c.
Startable(t, c) ==
  /\ c.accepted /\ c.tries < attempts[t]
  /\ Current(c) /\ Online(c.agent)
  /\ named[t] = None => primary[roleOf[t]] = c.agent
  /\ reserved[c.agent] = None
  /\ \A p \in Path, q \in writes[t] : <<p, q>> \in Overlap => held[p] = None

NewAttempt(c, token) ==
  [state |-> "admitted", agent |-> c.agent, binding |-> c.binding,
   token |-> token, receipt |-> "dispatch_intent", yield |-> FALSE, lapsed |-> FALSE]

\* Mutant: the continuation keeps the token of the segment before.
ContinuedSameToken(x, token) ==
  [x EXCEPT !.state = "admitted", !.receipt = "dispatch_intent", !.yield = FALSE,
            !.lapsed = FALSE]

Continued(x, token) ==
  [x EXCEPT !.state = "admitted", !.token = token, !.receipt = "dispatch_intent",
            !.yield = FALSE, !.lapsed = FALSE]

\* Mutant: the counter is read before it is advanced.
TokensReadFirst(T) ==
  {f \in [T -> fencing..(fencing + Cardinality(T) - 1)] :
     \A t, u \in T : t # u => f[t] # f[u]}

\* Fresh fencing tokens for the Tasks T, in the order they are served.
Tokens(T) ==
  {f \in [T -> (fencing + 1)..(fencing + Cardinality(T))] :
     \A t, u \in T : t # u => f[t] # f[u]}

Fits(resumed, started) ==
  resumed \cup started # {} =>
    Cardinality(Leased) + Cardinality(resumed) + Cardinality(started) <= MaxParallel

Dispatchable(taken, started, refused) ==
  /\ started \cap refused = {}
  /\ \A t \in Task : Pending(t) /\ task[t].accepted /\ task[t].late => t \in refused
  /\ \A t \in refused : task[t].accepted \/ t \in taken
  /\ \A t \in started : Startable(t, Offered(t, taken))
  /\ \A t, u \in started : t # u =>
       /\ Offered(t, taken).agent # Offered(u, taken).agent
       /\ ~Conflict(t, u)

Granted(taken, resumed, started, refused, token) ==
  /\ task' = [t \in Task |->
       IF t \in refused THEN [Offered(t, taken) EXCEPT !.state = "needs_review"]
       ELSE IF t \in started THEN [Offered(t, taken) EXCEPT !.state = "dispatching",
                                                            !.tries = @ + 1]
       ELSE IF t \in resumed THEN [ExpiredTask(t) EXCEPT !.state = "dispatching"]
       ELSE Offered(t, taken)]
  /\ attempt' = [t \in Task |->
       IF t \in started THEN NewAttempt(Offered(t, taken), token[t])
       ELSE IF t \in resumed THEN Continued(ExpiredAttempt(t), token[t])
       ELSE ExpiredAttempt(t)]
  /\ reserved' = [a \in Agent |->
       IF \E t \in started : Offered(t, taken).agent = a
       THEN CHOOSE t \in started : Offered(t, taken).agent = a
       ELSE reserved[a]]
  /\ lease' = [t \in Task |-> IF t \in resumed \cup started THEN token[t] ELSE lease[t]]
  /\ held' = [p \in Path |->
       IF \E t \in started : p \in writes[t]
       THEN CHOOSE t \in started : p \in writes[t]
       ELSE held[p]]
  /\ fencing' = fencing + Cardinality(resumed \cup started)

Tick ==
  \E resumed \in SUBSET {t \in Task : Resumable(t)},
     taken \in SUBSET {t \in Task : Acceptable(t)} :
  \E started, refused \in SUBSET ({t \in Task : Pending(t)} \ resumed) :
    /\ Dispatchable(taken, started, refused)
    /\ Fits(resumed, started)
    /\ fencing + Cardinality(resumed \cup started) <= MaxFencing
    /\ \E token \in Tokens(resumed \cup started) :
         Granted(taken, resumed, started, refused, token)
    /\ UNCHANGED <<agent, primary>>

\* Time passes.
DeadlinePasses(t) ==
  /\ t \in Dated /\ task[t].accepted /\ ~task[t].late
  /\ task' = [task EXCEPT ![t].late = TRUE]
  /\ UNCHANGED <<agent, primary, attempt, reserved, lease, held, fencing>>

LeaseLapses(t) ==
  /\ lease[t] # 0 /\ ~attempt[t].lapsed
  /\ attempt' = [attempt EXCEPT ![t].lapsed = TRUE]
  /\ UNCHANGED <<agent, primary, task, reserved, lease, held, fencing>>

-----------------------------------------------------------------------------
(* Events of the adapter.  They carry binding, segment, token and revision *)
(* of the Attempt; the stale ones are refused and change nothing.          *)

Accepting(t) ==
  /\ Live(attempt[t]) /\ Current(attempt[t]) /\ ~Revoked(attempt[t].agent)
  /\ ~attempt[t].lapsed
  /\ attempt[t].state \notin {"needs_review", "interrupted", "cancelled"}

SetAttempt(t, x) == attempt' = [attempt EXCEPT ![t] = x]
SetTask(t, state) == task' = [task EXCEPT ![t].state = state]

\* An adapter that has deferred forgets the dispatch, so that no receipt
\* follows for a suspended Attempt.
Receipt(t, from, to) ==
  /\ Accepting(t) /\ attempt[t].receipt = from /\ attempt[t].state = "admitted"
  /\ \/ /\ to # "input_observed"
        /\ SetAttempt(t, [attempt[t] EXCEPT !.receipt = to])
        /\ UNCHANGED task
     \/ /\ to = "input_observed"
        /\ SetAttempt(t, [attempt[t] EXCEPT !.receipt = to, !.state = "running"])
        /\ SetTask(t, "running")
  /\ UNCHANGED <<agent, primary, reserved, lease, held, fencing>>

\* A yield needs dependencies, a clarification sets the same flag.
Yield(t) ==
  /\ Accepting(t) /\ attempt[t].state = "running"
  /\ SetAttempt(t, [attempt[t] EXCEPT !.yield = TRUE])
  /\ UNCHANGED <<agent, primary, task, reserved, lease, held, fencing>>

ResultProposed(t) ==
  /\ Accepting(t) /\ attempt[t].state = "running"
  /\ SetAttempt(t, [attempt[t] EXCEPT !.state = "result_proposed"])
  /\ SetTask(t, "result_proposed")
  /\ UNCHANGED <<agent, primary, reserved, lease, held, fencing>>

\* settled after the model failed or was aborted.
SettledFailed(t) ==
  /\ Accepting(t)
  /\ SetAttempt(t, NoAttempt)
  /\ SetTask(t, "interrupted")
  /\ Release({t})
  /\ UNCHANGED <<agent, primary, fencing>>

\* settled with a yield, or with a result for a goal amended since.
SettledSuspended(t) ==
  /\ Accepting(t)
  /\ attempt[t].yield \/ attempt[t].state = "result_proposed"
  /\ SetAttempt(t, [attempt[t] EXCEPT !.state = "suspended"])
  /\ SetTask(t, "waiting_dependency")
  /\ EndLease(t)
  /\ UNCHANGED <<agent, primary, fencing>>

SettledMissing(t) ==
  /\ Accepting(t) /\ ~attempt[t].yield /\ attempt[t].state # "result_proposed"
  /\ SetAttempt(t, [attempt[t] EXCEPT !.state = "needs_review"])
  /\ SetTask(t, "needs_review")
  /\ EndLease(t)
  /\ UNCHANGED <<agent, primary, fencing>>

\* afterCompletion may find the evidence unacceptable.
SettledCompleted(t) ==
  /\ Accepting(t) /\ ~attempt[t].yield /\ attempt[t].state = "result_proposed"
  /\ SetAttempt(t, NoAttempt)
  /\ SetTask(t, "completed") \/ SetTask(t, "needs_review")
  /\ Release({t})
  /\ UNCHANGED <<agent, primary, fencing>>

\* The input was provably not injected: the same Attempt may be continued.
Deferred(t) ==
  /\ Accepting(t) /\ attempt[t].receipt # "input_observed"
  /\ attempt[t].state = "admitted"
  /\ SetAttempt(t, [attempt[t] EXCEPT !.state = "suspended"])
  /\ SetTask(t, "waiting_dependency")
  /\ EndLease(t)
  /\ UNCHANGED <<agent, primary, fencing>>

\* The adapter reports an interference with its session.
Interrupt(a) ==
  /\ ~Revoked(a) /\ OfAgents({a}) # {}
  /\ InterruptAgents({a})
  /\ UNCHANGED <<agent, primary, reserved, lease, held, fencing>>

\* The adapter confirms that a quarantined Attempt has stopped.
Stopped(t) ==
  /\ Quarantined(attempt[t]) /\ ~Revoked(attempt[t].agent)
  /\ SetAttempt(t, NoAttempt)
  /\ Release({t})
  /\ UNCHANGED <<agent, primary, task, fencing>>

-----------------------------------------------------------------------------
(* Operations.                                                             *)

\* Only an Attempt whose input cannot have been injected, or that is between
\* segments, ends with the cancellation.
ReleasedByCancel(x) ==
  Live(x) /\ (x.receipt \in {"dispatch_intent", "adapter_received"} \/ x.state = "suspended")

TaskCancel(t) ==
  /\ task[t].state \notin {"absent", "cancelled", "completed"}
  /\ SetTask(t, "cancelled")
  /\ attempt' = IF ReleasedByCancel(attempt[t]) THEN [attempt EXCEPT ![t] = NoAttempt]
                ELSE IF Live(attempt[t]) THEN [attempt EXCEPT ![t].state = "cancelled"]
                ELSE attempt
  /\ Release(IF ReleasedByCancel(attempt[t]) THEN {t} ELSE {})
  /\ UNCHANGED <<agent, primary, fencing>>

\* retry, and rebind of an accepted Task without an Attempt: the current
\* identity becomes the Target.
TaskRetry(t) ==
  /\ task[t].state # "absent" /\ task[t].tries < attempts[t] /\ ~Live(attempt[t])
  /\ LET a == IF named[t] = None THEN primary[roleOf[t]] ELSE named[t] IN
       /\ a # None /\ Online(a)
       /\ task' = [task EXCEPT ![t] = [Accept(task[t], a) EXCEPT !.state = "queued"]]
  /\ UNCHANGED <<agent, primary, attempt, reserved, lease, held, fencing>>

TaskRecover(t) ==
  /\ task[t].state \in {"needs_review", "interrupted"} /\ ~Live(attempt[t])
  /\ task[t].tries > 0
  /\ SetTask(t, "completed")
  /\ UNCHANGED <<agent, primary, attempt, reserved, lease, held, fencing>>

\* The operator attests that the Attempt has stopped.
Reconcile(t) ==
  /\ Live(attempt[t])
  /\ SetAttempt(t, NoAttempt)
  /\ task' = IF Terminal(task[t].state) THEN task
             ELSE [task EXCEPT ![t].state = "interrupted"]
  /\ Release({t})
  /\ UNCHANGED <<agent, primary, fencing>>

-----------------------------------------------------------------------------
(* Identities.                                                             *)

Renamed(A) == [a \in Agent |-> IF a \in A THEN [agent[a] EXCEPT !.binding = @ + 1]
                                          ELSE agent[a]]
MayRename(A) == \A a \in A : agent[a].binding < MaxBinding

\* Mutant: the count of unreleased Attempts leaves out the suspended ones.
FreeOfRunning(a) == \A t \in Task : ~(Executing(attempt[t]) /\ attempt[t].agent = a)

\* No unreleased Attempt of the agent.
Free(a) == \A t \in Task : ~(Live(attempt[t]) /\ attempt[t].agent = a)

\* Register: a new session of the same runtime, whose work is interrupted, or
\* a new runtime after the old one was released.
Register(a) ==
  /\ MayRename({a})
  /\ agent' = [agent EXCEPT ![a] = [binding |-> @.binding + 1,
                                    presence |-> "online"]]
  /\ IF Revoked(a) THEN UNCHANGED <<task, attempt>> ELSE InterruptAgents({a})
  /\ UNCHANGED <<primary, reserved, lease, held, fencing>>

Heartbeat(a) ==
  /\ agent[a].presence = "silent"
  /\ agent' = [agent EXCEPT ![a].presence = "online"]
  /\ UNCHANGED <<primary, task, attempt, reserved, lease, held, fencing>>

Silent(a) ==
  /\ a \in Leaving /\ Online(a)
  /\ agent' = [agent EXCEPT ![a].presence = "silent"]
  /\ UNCHANGED <<primary, task, attempt, reserved, lease, held, fencing>>

\* bindingOperation promote and release; both change the identities they touch.
Promote(r, b) ==
  LET a == primary[r]
      touched == (IF a = None THEN {} ELSE {a}) \cup {b} IN
  /\ member[b] = r /\ b # a /\ Online(b)
  /\ \A x \in touched : Free(x)
  /\ MayRename(touched)
  /\ agent' = Renamed(touched)
  /\ primary' = [primary EXCEPT ![r] = b]
  /\ UNCHANGED <<task, attempt, reserved, lease, held, fencing>>

ReleasePrimary(r) ==
  /\ primary[r] # None /\ Free(primary[r]) /\ MayRename({primary[r]})
  /\ agent' = Renamed({primary[r]})
  /\ primary' = [primary EXCEPT ![r] = None]
  /\ UNCHANGED <<task, attempt, reserved, lease, held, fencing>>

ReleaseRuntime(a) ==
  /\ a \in Leaving /\ ~Revoked(a) /\ Free(a)
  /\ agent' = [agent EXCEPT ![a].presence = "revoked"]
  /\ UNCHANGED <<primary, task, attempt, reserved, lease, held, fencing>>

\* New: the controller starts again and trusts nothing that was in progress.
Restart ==
  /\ attempt' = [t \in Task |-> IF Live(attempt[t])
                                THEN [attempt[t] EXCEPT !.state = "needs_review"]
                                ELSE attempt[t]]
  /\ task' = [t \in Task |->
       IF \/ Live(attempt[t])
          \/ /\ named[t] # None /\ task[t].accepted /\ task[t].tries = 0
             /\ task[t].state \in {"planned", "queued", "waiting_dependency"}
       THEN [task[t] EXCEPT !.state = "needs_review"] ELSE task[t]]
  /\ agent' = [a \in Agent |-> IF Revoked(a) THEN agent[a]
                                          ELSE [agent[a] EXCEPT !.presence = "silent"]]
  /\ UNCHANGED <<primary, reserved, lease, held, fencing>>

-----------------------------------------------------------------------------
Event(t) ==
  \/ Receipt(t, "dispatch_intent", "adapter_received")
  \/ Receipt(t, "adapter_received", "injection_requested")
  \/ Receipt(t, "injection_requested", "input_observed")
  \/ Yield(t) \/ ResultProposed(t)
  \/ SettledFailed(t) \/ SettledSuspended(t) \/ SettledMissing(t) \/ SettledCompleted(t)
  \/ Deferred(t)

Operation(t) ==
  \/ CreateTask(t) \/ TaskCancel(t) \/ TaskRetry(t) \/ TaskRecover(t) \/ Reconcile(t)

Identity(a) ==
  \/ Register(a) \/ Heartbeat(a) \/ Silent(a) \/ ReleaseRuntime(a) \/ Interrupt(a)

Next ==
  \/ Tick \/ Restart
  \/ \E t \in Task : Event(t) \/ Operation(t) \/ Stopped(t) \/ DeadlinePasses(t) \/ LeaseLapses(t)
  \/ \E a \in Agent : Identity(a)
  \/ \E r \in Role : ReleasePrimary(r) \/ \E b \in Agent : Promote(r, b)

Spec == Init /\ [][Next]_vars

-----------------------------------------------------------------------------
(* Properties.                                                             *)

\* The tables agree: an agent is reserved for exactly the Attempt that is
\* not released on it.  No handler may forget one side of this.
ReservedIffLive ==
  \A a \in Agent, t \in Task : reserved[a] = t <=> Live(attempt[t]) /\ attempt[t].agent = a

\* An Attempt whose events may be accepted as execution holds a lease under its
\* own current token, and a lease is held for no other segment, no suspended
\* and no released Attempt.
LeaseOfCurrentSegment ==
  \A t \in Task :
    /\ Executing(attempt[t]) => lease[t] = attempt[t].token /\ lease[t] # 0
    /\ lease[t] # 0 => Live(attempt[t]) /\ lease[t] = attempt[t].token /\ ~Suspended(attempt[t])

\* Two unreleased Attempts never have overlapping paths; each keeps all of the
\* paths it may write until it is released, and no path stays behind.
PathsExclusive ==
  \A t \in Task :
    /\ \A p \in Path : held[p] = t <=> Live(attempt[t]) /\ p \in writes[t]
    /\ \A u \in Task : u # t /\ Live(attempt[t]) /\ Live(attempt[u]) => ~Conflict(t, u)

\* What executes, or may be continued, was given to the identity its agent has
\* now: promotions, releases and new sessions wait for it or interrupt it.
ExecutesForCurrentIdentity ==
  \A t \in Task :
    /\ Executing(attempt[t]) \/ Suspended(attempt[t]) => Current(attempt[t])
    /\ Live(attempt[t]) => attempt[t].agent # None /\ ~Revoked(attempt[t].agent)

\* An Attempt that was interrupted, cancelled or sent to review does not come
\* back to life: it is released, and only a new Attempt executes.
NoRevival ==
  [][\A t \in Task : Quarantined(attempt[t]) =>
       Quarantined(attempt'[t]) \/ ~Live(attempt'[t])]_vars

-----------------------------------------------------------------------------
\* The permissions to execute as a service of their own.
Grants == INSTANCE Grants WITH
  Client <- Agent, Work <- Task, Nobody <- None, Limit <- MaxParallel,
  holder <- reserved, grant <- lease, last <- fencing

ImplementsGrants == Grants!Spec
================================================================================
