# TLA+ models of the Pi Squad controller

Pi Squad (`src/pi_squad`) lets several Pi coding agents work as Teams on one
project. A Go process, the *controller*, owns one SQLite database and is the
only writer of it; a TypeScript extension inside each Pi session, the *adapter*,
polls the controller over HTTP and drives the model. This directory holds TLA+
models of that system, configurations that check them with TLC, and theorems
about them that TLAPS checks.

## 1. The system

| Component | Source (under `src/pi_squad`) | State | Operations | What makes it correct | Status |
|---|---|---|---|---|---|
| Run admission and life cycle | `controller/scheduler/{runs,operations,leader,recovery}.go` | tables `runs`, `role_ownership`, `controller_state.queue_seq` | CreateRun, admitRuns, ensureLeaderSteps, Decide, finalGate, cleanupRun, run cancel/resume/guidance, failAncestors, New (restart) | a Run owns its whole roster or nothing; one active Run per Team; FIFO among clashing Runs; Roles held until every execution is confirmed stopped; completion only when done; no guidance lost | `RunAdmission`, `Reservations`; safety proved |
| Attempt life cycle | `controller/scheduler/{dispatch,execution,continuation,recovery}.go` | `attempts`, `agent_reservations`, `execution_leases`, `write_reservations`, fencing counter | Tick dispatch, AttemptEvent, resumeReady, expire, Stopped, Reconcile | one unreleased Attempt per agent; lease only while it may execute; capacity; fresh fencing tokens; late events rejected; overlapping paths written by one Attempt | `Execution`, `Grants`; proved |
| Task graph, acceptance, review | `controller/scheduler/{tasks,acceptance,reviews,references,recover_result,invalidation,waitgraph,progress}.go` | `tasks`, `result_history`, `acceptance_history`, `wait_edges` | createTask (children), yield, resumeReady, applyAcceptance, coverChildren, invalidateChangedResults, ensureReviews, reconcileWaitGraph | a parent does not work beside its children; acceptance bound to one result; a parent covers its children; no wait cycle unnoticed | `TaskTree` (trees), `RunAdmission` (reviews, final gate); safety proved |
| Clarification | `controller/scheduler/clarification.go` | `clarifications` | Clarify, startResponses, Answer | who has asked goes on with the answer only | `TaskTree`; safety proved |
| Team messages | `controller/scheduler/messages.go` | `messages`, receipts as events | SendMessage, Receipt, expireMessages, publishAskReply, invalidateMessages | stored once; shown once, in the session it was sent to; one reply; nothing waits for ever | `TeamMessages`, `Mailbox`; safety proved |
| Identity, binding, presence | `controller/scheduler/service.go`, `controller/project/presence.go` | `instances`, `leader_bindings`, `primary_bindings`, `revoked_runtimes` | Register, Heartbeat, promote, release | one identity per agent; a binding changes only when nothing executes, or interrupts it | `Execution`, `RunAdmission` (the Leader), `TeamMessages` |
| Idempotent requests | `controller/scheduler/service.go` (replay, remember) | `idempotency` | every write | a repeated request has one effect | `TeamMessages` for messages |
| Pi adapter: execution | `extension/{invocation,execution-gate,team-client,…}.ts` | the gate's copy of an Attempt, the poll, the turn of the session | poll, inject, settle, reportStopped, interrupt | an input is announced before it runs; a deferred one never runs; a stop is reported only at rest, and is reported | `Adapter`; safety proved |
| Pi adapter: messages | `extension/{team-messaging,invocation,inbox-stream}.ts` | `recordedNotices`, the session's entries | send_message, reply_message, the inbox loop | as for Team messages | `TeamMessages` |
| Store | `controller/task/{store,model}.go` | the database | Transaction, Save, Load, CAS | atomic, serial transactions | a transaction is an action |
| Controller process, project runtime | `controller/cli/serve.go`, `controller/project/{runtime,database,migration}.go`, `extension/team-client.ts` (connect) | `controller.lock`, `controller.json`, the database file with its journal, `migration-manifest.json`, what an adapter takes for the controller | Lock, CheckDatabaseVersion, OpenRegistry, Migrate, New, Publish, Close, ApplyMigration, connect | one process begins transactions; the discovery file names it; a write reaches the controller it was meant for; an old database is safe; a start ends | `ControllerLife`; safety proved |
| HTTP, projection, rest of CLI, UI, configuration, installation, fault points | `controller/{httpapi,projection,cli,client,config,project,fault}`, the rest of `extension/` | none of their own, or files | encoding, reading, presenting, validating | - | not modelled (section 8) |
| Legacy registry | `controller/agent` | v1 tables | - | the v2 server refuses its writes (`httpapi/team.go:96`) | not modelled |

How they interact. The adapter and the operator call HTTP routes; each handler
authenticates, then runs one transaction of the scheduler. `serve` calls `Tick`
every 500 ms, which in one transaction invalidates changed results, expires
deadlines and leases, admits Runs, plans reviews and LeaderSteps, continues
suspended Attempts, dispatches Tasks and reconciles the wait graph. The adapter
learns of a dispatch by polling, and reports every step of it. Nothing is pushed
and nothing is shared but the database, which is opened with one connection:
transactions are serial.

What is hard. Work that is *logically* interrupted may *physically* go on, so
a loss of contact never frees anything: the Attempt stays quarantined until the
adapter or the operator confirms the stop, and the Run keeps its Roles. A
completion is decided at one time and executed at another. Every failure path has
to hold the Run. Restarts, cancellations, deadlines, retries and guidance may
fall between any two of these steps. `PROJECT.json` lists the hazards line by
line, with the properties that cover each, or why none does.

## 2. Modules

| Module | What it is | Extends or instantiates |
|---|---|---|
| `RunAdmission` | Runs, their queue, Role ownership, Tasks and the executions of Tasks as far as Runs depend on them | `Reservations` (refinement) |
| `Reservations` | what RunAdmission promises: one line of parties, each served with all it needs or with nothing | |
| `Execution` | Attempts with everything reserved for them, and the identities of the agents | `Grants` (refinement) |
| `Grants` | what Execution promises: an abstract service that gives agents numbered permissions | |
| `TaskTree` | delegated Tasks: yield, continuation, clarification, acceptance, coverage, wait cycles | |
| `Adapter` | one adapter against the controller over a slow and lossy connection | |
| `TeamMessages` | messages from the sender's request to the entry in the receiver's session | `Mailbox` (refinement) |
| `Mailbox` | what TeamMessages promises: letters that are taken, shown, kept and answered in order, or given up for good | |
| `ControllerLife` | the processes: `serve` from lock to discovery file and back, `migrate`, and the clients that look for the controller | |
| `MCRunAdmission`, `MCExecution`, `MCTaskTree`, `MCAdapter`, `MCTeamMessages`, `MCControllerLife` | instances for TLC | the module of that name |
| `RunAdmissionProofs`, then `RunOwnershipProofs`, then `RunTasksProofs` | theorems about Runs: types, ownership and queue, Tasks | `RunAdmission`, each also the one before it |
| `ExecutionProofs`, `TaskTreeProofs`, `AdapterProofs`, `TeamMessagesProofs`, `ControllerLifeProofs` | theorems | the module of that name |

The modules cut the system where the code has narrow interfaces. A Run sees of an
Attempt only its state and whether it is released; `Execution` has the rest, and sees
of a Run only whether its Task may start. `TaskTree` sees of an Attempt what
decides about parent and child, and leaves presence, tokens and capacity to
`Execution`: a Tick may leave alone any Task it could start. `Adapter` holds the
controller's side as the state of one agent's newest Attempt, whose possible moves
are those of `Execution`. `ControllerLife` is below all of them: it is where the one writer and the
growing controller epoch come from that the others assume, and it knows of a transaction only
that it begins, takes the write lock and ends.

### RunAdmission and the code

| Model | Code |
|---|---|
| `run[r]` | a row of `runs`. `phase` is `Phase`; `admitted`, `hold`, `cleanup`, `seq`, `leader` are the columns of those names; `news` is `LeaderRevision < Revision`; `intent` compares `CompletionIntent` with `Revision`; `guidance` is `len(Guidance)` |
| `owner[role]` | `role_ownership` |
| `queueSeq` | `controller_state.queue_seq` |
| `lead[team]` | `leader_bindings` and the presence of the Leader; `epoch` numbers its identities |
| `task[t]` | a Task and its latest Attempt. `exec` is the Attempt's `State`, `"released"` once `Cleanup` is released; `fresh` says that `Receipt` is still `dispatch_intent` or `adapter_received`; `tries` is `len(AttemptIDs)`; `seen` is `GuidanceCount` |
| `Revise` | `Revision++` with `SaveRun`; it makes a current intent stale |
| `Fail`, `FailRunsOf` | the part of `failAncestors` for the Run |
| `Tick` | `Service.Tick`: `Expired`, then `AdmitRuns`, `EnsureReviews`, `ResumeReady`, `EnsureLeaderSteps`, `Dispatch`, each on the state the one before it left |
| `InjectionRequested` … `SettledLeader` | the events of `AttemptEvent`, with `afterCompletion` |
| `DecideDispatch`, `DecideWait`, `DecideComplete` | `Decide` |
| `Interrupt`, `Stopped`, `Reconcile`, `Restart` | the handlers of those names, `attemptOperation`, `New` |
| `RunCancel`, `RunResume`, `RunGuidance`, `TaskCancel`, `TaskRetry`, `TaskRecover`, `TaskVerdict` | `runOperation`, `taskOperation` |
| `LeaderRegister`, `LeaderRelease`, `LeaderSilent`, `LeaderHeartbeat` | `Register`, `bindingOperation` and `releaseRuntime`, `Online`, `Heartbeat` |

An Attempt is *live* from its creation until its clean-up is released, whatever
its state says: that is the condition `cleanup!='released'` the code counts.

Abstractions, and why they lose nothing the properties look at:

- *Time.* Deadlines and leases do not appear; a Tick chooses any set of live
  executions as overdue or lapsed. This allows more than the clocks do.
- *Agents and capacity.* A Tick chooses which of the Tasks whose Run is working
  and owns the Role get an Attempt.
- *Evidence.* Whether artifacts, references, schemas and acceptance records are
  valid is chosen where it is tested (`accepted`, `valid`, `Invalidatable`).
  `task:amend` only changes such evidence: here it shows as the proposal that
  `Suspend` supersedes and the result that `Invalidatable` finds.
- *Races between requests.* `task.CAS` refuses a request computed from an older
  revision. The model performs a request on the state it is enabled in; one that
  lost the race changes nothing.
- *`saveScheduledRun`* writes the blockers of a waiting Run. No property looks at
  them, and the revision it advances is that of a Run that cannot have a decision.
- Delegated children and clarifications do not occur in these Runs; they are in
  `TaskTree`.

`AdmissionPass` is `admitRuns` as the loop it is: `Visit` is what the loop does with one Run, `VisitPlace` with the Run
at one place of the queue, and the pass goes over the places in order. The actions use the set `Admissible` instead,
which says at once who is admitted.

`Reservations` knows no Leaders, Tasks, holds or failures: whoever comes stands at the end of one line; he is
served with all he needs at once, out of what nobody uses, and never before somebody who stands earlier and
needs any of it; he keeps all of it as long as he works, and comes once. In the mapping the
parties are the Runs, the things the Roles and the Teams (a Team is the thing of which one Run at a
time is served), `StageOf` reads `phase` and `admitted`, a place is `seq`, `UserOf` reads `owner` and who holds the
Team, and a Run works while an Attempt of its Tasks is live.

Ask Tasks and rework Tasks outside chains behave as `"execute"`. The state
`failed` is tested by the code and never assigned by it, so it is no state of the model.

### Execution and the code

| Model | Code |
|---|---|
| `task`, `attempt` | Tasks and their unreleased Attempts, with segment, fencing token, binding and receipt |
| `reserved`, `lease`, `held` | `agent_reservations`, `execution_leases`, `write_reservations` |
| `fencing` | `controller_state.fencing` |
| `agent`, `primary` | `instances`, `primary_bindings`; `binding` numbers the identities an agent has had |
| `ExpiredAttempt` with `ExpiredTask`, `Resumable` with `Continued`, `Dispatchable` with `NewAttempt`, all in `Tick` | `expire`, `resumeReady`, `dispatch` with `startAttempt`, in the order of `Service.Tick` |
| the events | `AttemptEvent`, whose guard is `Accepting`: the exact segment, token, binding and controller epoch |
| `InterruptAgents`, `Quarantined` | `interruptAgent`: Attempt and Task change state, what is reserved stays |
| `Register`, `Silent`, `Heartbeat`, `Promote`, `ReleasePrimary`, `ReleaseRuntime`, `Restart` | `Register`, `Online`, `Heartbeat`, `bindingOperation`, `releaseRuntime`, `New` |

A write set is a set of canonical paths and `Overlap` a relation between them; a lease lapses
when a Tick chooses so.

`Grants` knows neither Attempts nor sessions: a client works for one piece of work
and is free before it works for another; tokens grow and are never given twice;
who has a token is somebody's work; at most `Limit` tokens are in force. The mapping
takes the tables as they are: `reserved` for who works for what, `lease` for
the tokens in force, `fencing` for the newest.

### TaskTree and the code

| Model | Code |
|---|---|
| `task[t]` | `Contract`: `refs` are the results it has been given, `verdict` is `Acceptance` with `CoveredBy`, `flag` and `waits` its `Blockers` |
| `attempt[t]` | the unreleased Attempt: `mode` tells a working segment from a response-only one; `lease` is held, expired (a Tick will notice) or none |
| `question[t]` | `clarifications` |
| `Tick` | `invalidateChangedResults`, `expire`, `startResponses`, `resumeReady`, `dispatch`, `reconcileWaitGraph`, each on the table the one before it left (bound as `T0`, `T1`, …) |
| `CreateTask` … `SettledCompleted`, `Deferred`, `Stopped` | the handlers and events |
| `Judge`, `Covers`, `Covered` | `task:accept` and `task:reject` with `applyAcceptance` and `coverChildren` |
| `WaitEdges`, `Circles`, `CycleMarked` | `reconcileWaitGraph`: one cycle per Tick, and a cycle with a marked Task is left alone |

### Adapter and the code

An action is what JavaScript runs from one `await` to the next. `gate` is
`ExecutionGate`; `pi` the turn of the session; `poll` and `work` where the poll and the
turn's callbacks are waiting; `call` the HTTP call each of them waits for. A call goes
from `queued` (the serial queue of events) to `sent` to `served`; when it is given up
after five seconds it goes to `late` and may still be served. `Fence` is
`captureExecutionFence`; a continuation that finds it `Broken` ends. The
controller's side (`Admit`, `Continue`, `Quarantine`, `CancelAtOnce`, `Attest`,
`Effect`, `StopAccepted`) are the moves of `Execution` that an adapter can see.

### TeamMessages and the code

`msgs` is the table in the order of its rows, `memo` the idempotency table,
`receipted` the `message_receipt` events, `mine` the binding the adapter takes for its
own, `inbox` where its loop is, `known` is `recordedNotices`, `entries` the
`pi-squad-notice` entries of each session. `Stores` and `Send` are `SendMessage`
with `replay` and `remember`; `Handle` is `Receipt`; `Tick` is `expireMessages`.
The five poll actions are the stretches of the inbox loop between its calls.

`Mailbox` knows no requests, epochs, presence, polls or receipts: a letter is posted once and never altered;
it is taken, kept and answered in this order, or lost before or dropped after it was taken, and whichever
end it comes to is the last; a reply that is not lost as it is posted answers its letter in that step, goes back
where the letter came from, and is the only one; a letter is put on the page of its receiver once, after it was taken; it
is kept once it is there. In the mapping a box is an agent in a session, the letters are the rows without their
epochs, `StandingOf` reads the status and, for the three ways to be given up, whether a receipt had been
accepted, and the pages are the entries of the sessions.

### ControllerLife and the code

| Model | Code |
|---|---|
| `server[p]` | a process in `serve`. `pc` is how far it has come (`After` names the four transactions of a start in order), `id` its `ControllerID`, `job` the transaction that runs and whom its sender meant, `wrote` whether that has SQLite's write lock, `why` the refusal of its last start |
| `lock` | the flock on `controller.lock` |
| `store[f]` | a database file: `tables` are those of an old registry (`"partial"` lacks later columns or tables), those OpenRegistry has made, or all; `journal` the rollback journal beside it |
| `discovery`, `listener` | `controller.json`; who listens at a port, other Projects' controllers among them |
| `client[c]` | `TeamClient`: `known`, the checks of `connect` under way with whether the generation is still theirs, a request under way |
| `layout`, `migration`, `migrationLock` | `.agents/pisquad` with its manifest, a process in `ApplyMigration`, `pisquad-migration.lock` |
| `numbered`, `accepted` | history for two properties |
| `Start`, `CheckDatabaseVersion`, `BeginOwn`, `Write`, `Commit`, `Rollback`, `Listen`, `Publish` | `Lock`, `CheckDatabaseVersion`, the transactions of `OpenRegistry`, `Migrate`, `FreezeConfig` and `New`, `net.Listen`, `Publish` |
| `Stop`, `CloseStore`, `CompareDiscovery`, `RemoveDiscovery`, `Unlock`, `Exit` | `Shutdown`, the deferred calls of `serve` in their order, the end of `main`; `Close` reads the file and removes it in two steps |
| `Crash` | `kill -9` |
| `Connect`, `HealthAnswered`, `Checked`, `Post`, `Serve`, `RequestFails` | `connect`, `handleHealth`, `request`, the handshake of `teamRoutes` |
| `PlanMigration` … `PublishLayout`, `EndMigration` | the stretches of `ApplyMigration` |

A file survives the death of a process; loss of power is not modelled. A flock is gone with its
holder. `BeginTx` is a deferred `BEGIN`, which locks nothing; the first write takes the write lock,
which one connection has at a time. The lock of a read, which would hold up another's commit, is left out:
the model allows more. `reg.Close` is `sql.DB.Close`: no transaction begins any more,
but one that runs keeps its connection, and a request that outlives the five seconds of `Shutdown` has one through
`closed`, `removing`, `unlocking` and, with the lock given back, `exiting`; it commits, is rolled
back, or ends with the process. The operator who confirms that the old controller is stopped says what is so; a prepared
database is one whose tables nothing has changed since, which is what its hash says.

## 3. Properties

RunAdmission:

- `OwnsWholeRoster`, `OneActiveRunPerTeam`, `NoOvertake`,
  `RolesHeldWhileExecuting`: the promises of admission, over the whole life of
  the Runs and not just at the moment of admission.
- `AdmissionIsOnePass`: the set `Admissible` that is admitted at once is what
  the code's loop over the queue admits, for every reachable queue. It
  justifies the declarative form used everywhere else and in the proofs.
- `ImplementsReservations`: the refinement of `Reservations`. It speaks of whole transactions: what
  one clean-up gives back and one Tick passes on, and that nobody in between has a part of what he needs.
- `CompletedMeansDone`: whatever happened between the Leader's decision, its
  settlement and later, a completed Run has a completed Task, no unresolved one,
  no unconfirmed execution and no Roles.
- `UnresolvedImpliesHold`, `HoldBlocksNewSegments`: a Task that waits for the
  operator holds its open Run, and a held Run starts nothing.
- `GuidanceReachesLeader`: a Run without news for its Leader has a LeaderStep that
  was planned with all its guidance.
- `IntentNeedsWorkingRun`: a completion proposal is only in force while its Run is
  admitted, not held and not over.
- `HandOver` (liveness): the Roles of cancelled Runs reach the next Run in line.
- `NeverStranded`: what the design says of cancellation, and the code does not do (section 6).

Execution:

- `ReservedIffLive`, `LeaseOfCurrentSegment`, `PathsExclusive`: the four tables that
  are written in different handlers agree, over every loss of contact.
- `ExecutesForCurrentIdentity`: what executes, or may be continued, was given to the
  identity its agent has now; promotion and new sessions leave nothing behind.
- `ImplementsGrants`: the refinement of `Grants`.

TaskTree:

- `WorksAlone`: while a Task works, nothing it delegated itself is unreleased, not even an
  Attempt that is quarantined. It says nothing of what its children have delegated (section 6).
- `CoverageHonest`: an accepted child is the very result its accepted parent refers to,
  whatever was reworked, invalidated or recovered in between.
- `AnswerReachesAsker`: whoever asked, and has not itself been asked meanwhile (section 6), does
  not go on without the answer, and no response segment runs for a question that is not being answered.
- `NoSilentCycle`: no Tick leaves circles of recorded waits without a Task of one of them
  being with the operator. It is about the Tick because only the Tick looks: an operator who
  retries the marked Task leaves the circle unmarked until the next one. It is about one of the circles
  because a Tick marks one at most (section 6).
- `ChildOutcomeReachesParent`: what the design says of a child's failure (section 6).

Adapter:

- `IntentBeforeInput`, `DeferredNotInjected`: what the controller has recorded of the
  injection is true of the session, although either side may miss the other's answer.
- `PermitMeansReserved`: the gate lets a tool through only while the agent is still
  reserved for that segment. `ReleasedAtRest`: a release, unless attested by the
  operator, never meets a turn of that Attempt.
- `StopIsConfirmed`, `ReleasedIsLetGo` (liveness): a quarantined Attempt whose segment
  the adapter retains is released, and a released one is let go.

TeamMessages:

- `StoredOnce`, `OneReply`: repeated requests and two replies under different ids.
- `ShownRightly`: in no session but the one it was sent to, at most once although the
  extension forgets, and only after the controller accepted a receipt.
- `ImplementsMailbox`: the refinement of `Mailbox`. Beyond the three above it says what a step may do
  to a status, and that `recorded` is true: the controller says it of no message that is not in the session.
- `NoneWaits` (liveness): the polls or the controller end every wait, without the
  help of the ten-minute expiry.

ControllerLife:

- `OneWriter`: of two processes that have the database open the earlier has let go of the lock and has
  nothing but a transaction begun before its database was closed. It holds over crashes, refused
  starts and shutdowns that give up on a running request, as long as the order of the deferred calls
  is what it is. It does not say that this last transaction is not committed: it may be (section 6).
- `LiveDiscovery`: over the same, no process that leaves removes its successor's publication.
- `WritesReachDiscovered`: also when the port has gone to a successor with the same epoch (of another
  database) or to another Project. `KnownMovesForward`: overlapping checks of an adapter.
- `LegacyKept`, `ManifestIsTrue`: what migration promises, while files are edited, the old controller
  writes and `--db` names either database.
- `StartEnds` (liveness): whoever holds the lock serves or gives it up.
- `RefusedIsOld`: what the code says of the databases it refuses (section 6).

No run checks the type invariants of any module but `Adapter`, nor
`NoRevival` of `Execution` (after quarantine there is only release) and `EpochsFollowStarts` of
`ControllerLife` (the epochs of a database are in the order of the starts, though a start may die on either
side of the commit): they are theorems (section 7).

## 4. Runs

| Run | Instance | What it asks |
|---|---|---|
| `run_life` (`RunLife.cfg`) | one Run, a business Task, a LeaderStep identity, two Attempts per Task, one guidance text, two Leader identities | the life of a Run through every failure path |
| `run_queue` (`RunQueue.cfg`) | three Runs, two Teams, two Roles, one Task | admission, ownership, order, the loop of `admitRuns`, the refinement of `Reservations`, hand-over under fairness |
| `run_review` (`RunReview.cfg`) | one Run with a business Task, a review the scheduler plans, a LeaderStep | completion (`CompletedMeansDone`) in the presence of the gate's waiver for failed reviews |
| `run_stranded` (`RunStranded.cfg`) | one Run, one Attempt per Task | finding 1 |
| `execution` | two agents of one Role, a planned step that writes a directory, a standalone Task that writes a file in it | agreement of the tables, exclusion, identities, the refinement of `Grants` |
| `task_tree` | two parents, two children, two agents, each child on the agent of the other tree's root | exclusion, coverage, clarification, wait cycles |
| `task_tree_outcome` | one parent, one child | finding 2 |
| `adapter` | two Attempts, the first of two segments | adapter and controller over a bad connection |
| `team_messages` | two agents, a notice, two replies to it, a question | messages under change and loss, the refinement of `Mailbox` |
| `controller_life` | two processes, two starts, one port that other Projects use too, two databases, an adapter with two checks at a time | one writer, discovery, epochs, handshake |
| `controller_migration` | one process, three starts, a migration, an old database that gets one more row, two revisions of the roles, fairness | the old database and the manifest; a start ends |
| `controller_refusal` | one process, three starts | finding 3 |

Bounds of `RunAdmission`. `MaxAttempts` is the code's own policy bound; two Attempts are enough for
a retry to meet the leftovers of the first. `MaxGuidance` = 1 separates "seen" from
"not seen". `MaxEpoch` = 2 gives one change of the Leader's session, after which the
Run's recorded Leader is stale until a resume. A finished LeaderStep's identity
is used again for the next one (`StepSlots`), so there may be any number of
LeaderSteps, one after another. In `run_queue` the Runs `r1` and `r2` share a Team and no
Role (the Team's roster changed between them), `r1` and `r3` share a Role and no
Team, `r2` and `r3` share nothing: every kind of clash, and one pair that may run side
by side. One Task is enough there, because ownership only depends on
whether an execution of the Run is live. No symmetry is used. Deadlock is checked in these runs:
a Tick is always possible, as it is in the code.

Bounds of `Execution`. `MaxFencing` = 3 tokens: a first start, a continuation, and the start
of the other Task or of a retry. `MaxBinding` = 2 gives each agent one change of
session or promotion. `Leaving` names the agents whose presence changes: one is enough, since
nothing in a step depends on the presence of two. `Dated` names the Tasks whose deadline
may pass: one is enough, since the same loss comes from leases. `MaxParallel` = 1 is also the
limit of `Grants`; the theorem `Refinement` has it for every limit. Two paths, one inside the other, are the smallest overlap that is not equality.

Bounds of `TaskTree`. `Steered`, `Failing`, `Asking`, `Changing` and `Dated` name the Tasks
that the operator acts on, whose segments fail, that ask, whose files change, and whose
deadline passes while they are queued. In `task_tree` one tree has all of the first four and the
other is only in its way, through the agents they share; that is what a wait cycle
needs. Trees of the run are two levels deep; the theorems are about trees of any depth. `MaxResults` = 1 result of each Task and an accepted retry of `c1` (`AgainC1`)
give rework. Deadlines are checked in `task_tree_outcome` only, for the size of the run.

Bounds of `Adapter`. `MaxMishaps` = 1: one call given up (and served late, or never) or one
dialog, at any point; each hazard listed needs one. A larger instance, with one lost call and one
dialog, has 559,000 states and no violation. `Troubled` = {1}: the first
Attempt may be quarantined and lose its calls, the second is what it may disturb.

Bounds of `TeamMessages`. `MaxMishaps` = 2: a change of session and back, a loss and a
reload, or a silence and a loss. They happen to one agent (`Restless`), which sends the notice and
receives the replies and the answer; with both agents the safety properties hold too
(444,000 states). `MaxMessages` = 3: the notice and two of reply, second reply and
answer. `QueueLimit` = 1: the limit refuses a second reply, the answer goes past it.

Bounds of `ControllerLife`. `MaxStarts` = 3 with migration: a start that dies, its successor, and one more that
meets what both have left. In `controller_life` it is 2, one start that leaves and one that comes,
which is what its safety properties relate (three are more than 7 million states, and the
theorems have any number). Two processes, for the same reason. One
port is the hard case, since it is then always reused; with two paths the
epochs of two databases can be equal. `MaxChecks` = 2 is one check that overtakes another.
`MaxRows` = 1 and two revisions of the roles tell before from after. Clients and
migrations do not occur in one run: a migration is over before there is anything to discover. One migration
at a time in the run; with two the safety properties hold too (4,105,376 states), and the theorems have any number.
The two processes of `controller_life` are interchangeable and are a symmetry set there;
`controller_migration` checks liveness and uses none. Deadlock is checked: ports are taken and left for ever.

In the runs of `Execution`, `TaskTree`, `Adapter` and `TeamMessages` deadlock is not checked: with its inputs
bounded each of these systems comes to rest when everything is done.

Each property has a mutant of the code beside it in its module, an operator named
after what is wrong in it, that makes TLC find the property violated.

## 5. Fairness

`FairSpec` of `RunAdmission` asks two things. `WF_vars(AdmittingTick)`: while some Run stays
admissible, a Tick comes; `cli/serve.go` calls it every 500 ms for as long as the
controller lives. `WF_vars(StopConfirmed(t))`: while an execution stays
quarantined, its stop is confirmed; `extension/invocation.ts` reports it at each
poll once its session is idle, and where no adapter is left, the operator
attests to it (`attempt:reconcile`), which is the documented procedure. Neither says anything about
new work, decisions or resumes: those are left to the Leader and the operator.
`HandOver` names what of its own may stop the Run in line (a hold, its Leader offline
or under another identity) and the stranded Run of finding 1.

`FairSpec` of `Adapter`. The poll goes on: `setInterval` calls it every second, a call is
served or fails after five (`team-client.ts:79`). The turn's callbacks go on for the
same reason, and a turn that was aborted ends, which is Pi's contract for `abort()`. An
interruption the user causes returns. A dialog is closed by the user: while one is
open the adapter does not count as idle, and reports nothing. Nothing is assumed of a
turn that was not aborted, nor of the controller.

`FairSpec` of `TeamMessages`. The controller ticks (every 500 ms), the timer of each
adapter polls. `Tick` is fair only in what it does without the choice of expired
messages, so `NoneWaits` does not lean on the expiry.

`FairSpec` of `ControllerLife` is `WF_vars(Proceeds(p))` for each process: `serve` runs on through its own
steps, none of which waits for another process. `Shutdown` waits five seconds for its requests at most, and what
they do is no part of `Proceeds`. The lock is taken without blocking (`LOCK_NB`), a database
that is busy fails after five seconds, `net.Listen` gives a port or an error. Nothing is assumed of signals,
requests, clients or migrations, and a process may be killed at any time.

`Execution` and `TaskTree` state safety only: what must come next there is up to models and
operators, or is `StopIsConfirmed` of `Adapter`.

## 6. Findings

1. `run_stranded`. An Attempt is interrupted before its input was injected;
   the operator cancels the Run, which must wait for the stop (the Task is
   already terminal, so `run:cancel` skips it), then cancels the Task.
   `cancelTask` releases the Attempt, since nothing was injected, but `task:cancel`
   (`operations.go:353`) does not call `cleanupRun`. No execution is left whose
   confirmation would clean up the Run, and its Roles stay owned; a
   second `run:cancel` frees them.
2. `task_tree_outcome`. A parent has yielded and has not settled; its child fails, is
   cancelled or interrupted; `failAncestors` moves the parent to `needs_review`. Then the
   parent's `settled` arrives and suspends it as `waiting_dependency`
   (`execution.go:174`), for a child that can no longer complete. Its own deadline or the operator ends the wait.
3. `controller_refusal`. A first start creates tables in two transactions, `OpenRegistry`'s and
   `Store.Migrate`'s; only the second makes `schema_migrations`. A start that is killed or fails between
   them leaves a database that `CheckDatabaseVersion` takes for one of pi-squad/1
   (`database.go:39`), now and at every later start, and that `migrate` does not take either, since
   `.agents/pisquad` exists. The way out is to delete the file by hand.

Observations without a run. The models have the steps; the first four go against what the manuals say or
expect, nothing written promises otherwise of the rest.

- *A commit after the lock is free.* A request that outlives the five seconds of `Shutdown` (`serve.go:110`) has a
  transaction open when `reg.Close` and `rt.Close` return, and the process takes a moment to end. A successor may
  start in that moment, and the old transaction may be committed beside it, after
  the successor's epoch if its first statement comes that late. `TEAM_RUNTIME_REQUIREMENTS.md:88` has one
  Controller per Project and a process lock against double writes, `USAGE.md:349` the Controller as the only writer of
  SQLite. TLC reaches such states of `ControllerLife`. `OneWriter` says how far the promise goes: nothing is
  begun after the lock is free. `WritesReachDiscovered` holds of the late commit too: its sender meant the
  process that commits it. What locks a `BEGIN` and a write take is SQLite's documentation, not this repository.
- *A journal left by a kill.* No journal mode is set, so a controller killed while it commits leaves a
  rollback journal beside the database. The next start looks at the version through a connection with
  `mode=ro` (`database.go:19`), which may not roll it back, and `serve` never comes to the
  connection that could (`why` = `"journal"` in `ControllerLife`). That SQLite refuses such a read
  (`SQLITE_READONLY_ROLLBACK`) is taken from its documentation; the driver is not in the repository.
- *A cancelled Task comes back.* A Task is cancelled while it executes; its stop is still to be confirmed. A lost
  session, a deadline or a restart now sets it to `interrupted` or `needs_review` (`recovery.go:47`,
  `service.go:159`), which the final gate does not waive (`leader.go:177`): the operator cancels it again.
- *The deadline of a queued retry.* The deadline of an accepted Task that has had an Attempt calls `interruptAgent`
  for its agent (`dispatch.go:386`), also while it waits in the queue: the Attempt the agent executes for
  another Task is interrupted, within its own deadline.
- *An input that is under way when its stop is reported.* `ctx.isIdle()` holds while the input hook
  awaits the record of `input_observed`. A quarantine and a stop report in between release the
  Attempt; a late answer then lets the input run as an ordinary turn with the gate
  open (`invocation.ts:429-444`, `481-519`, `599-630`).
- *Stops only the operator can confirm.* `reportStopped` sends the segment of the retained
  copy, which `Stopped` refuses when the controller is a segment ahead; and an Attempt that was
  deferred or never taken is not retained at all.
- *Interruptions are scoped to the binding* (`invocation.ts:187`): one that is served late hits
  the agent's next Attempt.
- *A reply under the default id* `reply:<message>` that found the asker offline is
  replayed as offline for ever (`team-messaging.ts:118`).
- *A heartbeat gap or a promotion* also ends the open messages *from* that agent, or to it.
- *A response-only segment that is deferred* leaves its question in `answering`; the
  asker is held until its deadline.
- *A retried parent and its children* wait for each other without an edge in the wait
  graph when neither can start (`dispatch.go:86-102`).
- *A grandparent beside its grandchild.* `task:recover` (`recover_result.go:15`) completes a Task from its
  evidence when its own Attempts are released, and does not look at its children. Its parent may then be
  continued while a Task two levels down still executes; `WorksAlone` is therefore about parent and child.
- *An asker that is asked.* `startResponses` gives the parent's Attempt the question's
  `ClarificationID` in place of that of the parent's own open question, and the settlement clears it
  (`execution.go:173`). An Attempt that has asked its parent and then answers a child of its own is
  continued by `resumeReady` without the answer to its own question.
- *Two wait circles.* `reconcileWaitGraph` marks the newest Task of the one circle `graphCycle` meets first, in the
  random order of a Go map; when that Task is already with the operator it marks nothing. A second
  circle may stay unmarked for as long as the first one lasts.

## 7. Proofs

Every safety property of the passing runs is a theorem, for every value of the constants that the
module's assumption admits.

`RunAdmissionProofs` proves `TypeCorrect`, `Spec => []TypeOK`.
`RunOwnershipProofs` proves, for any sets of Runs, Teams, Roles and Tasks, any
rosters (empty or overlapping ones too) and any bounds, from `TopologyAssumption`
and `BoundAssumption` only:

- `InductiveInvariant`, `Spec => []IInv`;
- `WholeRoster`, `OneActiveRun`, `FIFO`, `RolesHeld`, `IntentWorking`: the
  properties `OwnsWholeRoster`, `OneActiveRunPerTeam`, `NoOvertake`,
  `RolesHeldWhileExecuting` and `IntentNeedsWorkingRun`.

None of these is inductive alone. That a Run's Roles are free when it is admitted
is tested by `admitRuns`, but that nobody else then *takes* them needs the
whole-roster equality for all Runs at once; that a Run admitted in the same pass as
another does not clash with it needs distinct queue numbers; that a clean-up
leaves no execution behind needs that live executions only exist in Runs that
hold their roster. `IInv` is `TypeOK` with six named parts: `RunOK` (what the
columns of a Run say of each other), `Queued` (queue numbers are distinct and at
most `queueSeq`), `Owns`, `OneActive`, `InOrder` and `AtHome` (a live execution's
Run holds its roster). The argument separates the two things a step can do.
Most actions only revise Runs or move executions without touching what
the invariant sees, and one lemma covers them all; admission and
clean-up have a lemma each; `Tick` composes the admission lemma
with the sub-steps after it.

`OnePass`, in the same module, is `AdmissionIsOnePass`: `admitRuns`, which walks over the queue and takes each
Run that clashes with nothing admitted so far, takes exactly `Admissible(rs)`, the set every action and every
other proof uses. The walk is a recursive function over the places of the queue, and nothing is known of such a function before
one is exhibited. So the function that gives after each place the Runs of `Admissible` up to it is shown to satisfy
the equation, and two functions that do to agree, by the least place where they would not (`WFMin`:
the natural numbers are well founded; no induction over the queue). That no two waiting Runs have one place is `Queued`.

`ReservationsKept`, in the same module, is `ImplementsReservations`: every behaviour of the Runs is one of the line of
`Reservations`, whatever fails, is cancelled or restarted. What the owner table and the stages say of each other (`InUse`) is
`IInv` read through the mapping. For the steps every transaction is taken as one of two kinds: it admits
nobody (`Passes`), and then only has to move Runs forward; or it admits (`AdmitsFrom`: a Tick, or the creation of a
Run), and is seen through the Runs that `admitRuns` finds, which a Tick has changed already (changed results, deadlines)
and changes afterwards (planning). None of those changes gives anything back or lets a Run overtake another, which is why
`Service` can ask that things were unused before the transaction. The lemmas about the handlers say of each which kind it is.

`TurnIsKept`, `NextAdmitted` and, in `RunTasksProofs`, `CancelledOnlyDrains` are what `HandOver` rests on besides fairness.
Who is next in line stays next until it waits no longer (`TurnKept`: `Line` and `Service` of the
refinement say that nobody comes before it, `CancelledStays` that what is in its way does not revive); a
cancelled Run never has an execution started again, in a Tick or otherwise, so that the stops of its executions are finitely
many; and when nothing is in the way, the next Tick finds it in `Admissible`, unless it is held or its Leader is not there.

`RunTasksProofs` adds what the Tasks of a Run owe it, `TaskInv`: a Task that waits for the operator holds
its open Run (`Held`); no LeaderStep has seen more guidance than was given, and a Run without news has one that has
seen all of it (`Seen`, `Guided`); a completed Run is finished and clean (`Done`); a cancelled Run is held (`Closed`). With `IInv` it is inductive
(`TasksInvariant`), and gives `CompletedDone`, `UnresolvedHeld`, `GuidanceKept` and `HoldBlocks`,
which are `CompletedMeansDone`, `UnresolvedImpliesHold`, `GuidanceReachesLeader` and
`HoldBlocksNewSegments`. `CompletedMeansDone` is the one that spans steps: the gate is passed when the completing
LeaderStep settles, and nothing may undo it afterwards. Events, failures and most operations concern Tasks
that execute, wait or are unresolved, and none of those belongs to a completed Run (`NotCompleted`); the
others refuse a Run that is over, or only advance its revision. The stages of a Tick keep `TaskInv` one after the other, so it is a
predicate of two tables and not of the variables.

`ExecutionProofs` proves for `Execution`, for any sets of agents, Roles, Tasks and paths,
any reflexive and symmetric overlap and any bounds (`ExecutionAssumption`): `Typing`, `ReservationsAgree`, `LeasesAgree`,
`PathsApart`, `CurrentIdentity`, `Quarantine` and `Refinement`, which are the properties
`TypeOK`, `ReservedIffLive`, `LeaseOfCurrentSegment`, `PathsExclusive`,
`ExecutesForCurrentIdentity`, `NoRevival` and `ImplementsGrants`. The strengthening ties each Task's Attempt to
the rows that name it, so that one lemma per kind of row operation (start,
continuation, withdrawal, release) serves every action and every stage of a Tick.

`TaskTreeProofs` proves for `TaskTree`, for any finite set of Tasks in trees of any depth, any agents and any bounds
(`TreeAssumption`): `Typing`, `TreesInvariant`, `ParentWorksAlone`, `Coverage`, `AnswersReach` and
`CirclesNoticed`, which are `TypeOK`, the invariant, `WorksAlone`, `CoverageHonest`, `AnswerReachesAsker` and
`NoSilentCycle`. `TreeInv` is a predicate of the three tables, so that it can be followed through the stages
of a Tick. Its parts: a Task that is completed, or not there yet, has no unreleased Attempt (`AtRest`);
`WorksAlone` (`Alone`); who has asked yields, and stays suspended under its question while that is open, unless it
has been asked itself (`Askers`); a response segment answers a question that a child has put to this very Attempt
(`Responses`); a Task without a result has no verdict, and `CoverageHonest` (`Numbered`, `Honest`). `WorksAlone` needs
`AtRest` because a parent is started or continued by looking at the *states* of its children, and only that part
says what a state means for the Attempt. Most writes start nothing: one lemma (`CalmKeeps`) covers them, and leaves
the actions that start, ask, answer and judge. The acceptance of a parent goes down the tree step by step
in the code; `Covers` states it of a Task and all its ancestors at once, and TLC found the two equal on all tables
of a few small trees (some 110,000). That the set of Tasks is finite is used in one place: a circle has a newest Task.

`AdapterProofs` proves for `Adapter`, for any number of Attempts, segments and mishaps (`AdapterAssumption`): `Typing`,
`CopiesInvariant`, `Announcement`, `Permission`, `Deferral` and `ReleasesAtRest`, which are `TypeOK`, the
invariant, `IntentBeforeInput`, `PermitMeansReserved`, `DeferredNotInjected` and `ReleasedAtRest`. The
invariant says of every copy of an Attempt how stale it may be: what a poll was answered and is about to
take, inject, defer or report (`Answers`, `Offered`, `Taken`, `PollOK`), the session's turn and what its callbacks kept over an
`await` (`TurnOK`, `WorkOK`), and a call that was given up and may still be served (`Late`). The controller's
Attempt only goes forward (`Forward`: ids and segments grow, an end is final, an announcement is not taken back), so
what is said of an older state of it stays true. The argument for `ReleasedAtRest`: a segment is suspended only
before its injection or after its turn; it is released only before it is announced, after its turn, or with the
gate closed and nothing running. A late report is the hard case: it may be served when the session
has moved on, and is harmless because while its Attempt is still reserved the gate retains it, closed, and no
poll is about to take another segment.

`TeamMessagesProofs` proves for `TeamMessages`, for any agents, requests, questions, queue limit and
bounds (`MessagesAssumption`): `Typing`, `Once`, `Replied`, `ShownOnce` and `Letters`, which are `TypeOK` and the properties
`StoredOnce`, `OneReply`, `ShownRightly` and `ImplementsMailbox`. `IInv` is what the rows, the remembered requests
and the receipts say of each other (`RowsOK`) with what the adapters know of the rows
(`Delivery`). The first is needed because the limit of one reply rests on the original
being marked, which no later step undoes (`AnswersMarked`), and a stored request on being
remembered with its row (`Remembered`). The second is needed because a message is shown from
a list that was read earlier: everything listed was sent to the session the adapter is
in, and what counts as received has a receipt (`Before`). Every action either moves
statuses (`Moved`, in which offline and replied are final) or appends one row
(`AppendOK`); for the adapters it is enough that rows stay and receivers do not
change (`Grown`), so that each half is proved without the other's details.

`Letters` needs more than `IInv` says of the adapters, `PagesInv`: an adapter remembers only what is in the entries of the
session it is in, and so is what it is about to report as recorded, also when the report is late; and no receipt was
accepted of a row that is stored. This is inductive with `IInv` (`PagesInvariant`), because whatever
changes the session clears the memory too. A step then either turns rows, each by one step of its course (`Turns`), or
posts one row and answers at most one (`Posted`); what it shows is put on one page (`ShowPuts`).

`ControllerLifeProofs` proves for `ControllerLife`, for any processes, migrations, clients, ports, database
paths and bounds (`ControllerAssumption`): `Typing`, `SingleWriter`, `DiscoveryIsLive`, `EpochsOrdered`, `WritesReach`,
`KnownForward`, `LegacyUntouched` and `ManifestHolds`, which are `TypeOK`, `EpochsFollowStarts` and
the six safety properties of the runs `controller_life` and `controller_migration`. `IInv` ties them together: whoever is not off, nor about to end, holds the lock,
so the others are off or about to end (`LockInv`), and it has the last id given (`LastInv`), which no epoch, publication or
check exceeds (`EpochInv`, `WriteInv`, `KnownInv`). `SingleWriter` is these two together: of two processes with the
database open only one has the last id, so the earlier has let go of the lock. `LiveDiscovery` needs the lock to be held while the
publication is compared and removed; `WritesReachDiscovered` needs that whatever floats about as a
publication, in the file, a check or a request, is a genuine copy of what some start had; and
`KnownMovesForward` that the newest check of an adapter is of a later start than all that it has known.
`LegacyKept` rests on a transaction running only in a process whose database has passed the check (`LegacyInv`, `JobInv`).
`StartNeverGoesBack` is the variant of `StartEnds`: while a process holds the lock and does not serve, no step raises its
`Distance`, a number read off its place in `serve` and how far a transaction of the start is, and each of its own steps
lowers it or brings it to serve or out of the lock; the requests that still run on the way out leave the number alone. It needs that a transaction runs only where `serve` has one (`JobInv`) and that `None` is no publication (`NoneIsNoDiscovery`).

Only model-checked: the liveness properties `HandOver`, `StopIsConfirmed`, `ReleasedIsLetGo`,
`NoneWaits` and `StartEnds`, since the prover has no rule for fairness (of `HandOver` and `StartEnds` the steps
are proved, as said above; that a fair step is enabled is not); the three findings.

## 8. Not modelled

Rendering, logging, encoding, authentication and configuration parsing hold no
state the scheduler depends on. SQLite is taken to execute transactions one
after another and to undo those that fail, as `Store.Transaction` uses it. Files and their hashes
appear as verdicts. The legacy registry cannot be written through the
current server. Of the Task graph, planned work packages with several
dependencies and the rework contracts of a Leader are left out: a Task of
`TaskTree` depends on its children, and one of `RunAdmission` on nothing. A change of session under
a running adapter is in `Execution` (the controller's side) and `TeamMessages` (the
inbox), not in `Adapter`. The queue limit of 32 Tasks per agent, the installation of a Project,
the rotation of the operator's token with its event, the override of discovery by `PI_SQUAD_CONTROLLER_URL`
and the Team mappings a migration is given are not modelled. `Receipt` of `Execution` happens only
before the segment runs, which is when the adapter of `Adapter` sends one; `Suspend` of `RunAdmission` has an amended proposal only
of a business Task.

## 9. Plan

1. `TaskTree`: planned work packages with dependencies of a Run, and rework contracts.
2. The output schema check and the workflow validator as operators, against
   reference definitions.
