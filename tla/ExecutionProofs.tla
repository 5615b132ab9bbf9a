---------------------------- MODULE ExecutionProofs ----------------------------
(* Execution: an inductive invariant over any agents, Tasks and paths, the   *)
(* safety properties that follow, and the refinement of Grants.              *)
EXTENDS Execution, FiniteSetTheorems, TLAPS

-----------------------------------------------------------------------------
(* The inductive invariant.                                                *)

\* Tokens of unreleased Attempts have been given, each to one of them.
Fenced ==
  \A t \in Task : Live(attempt[t]) =>
    /\ attempt[t].token \in 1..fencing
    /\ \A u \in Task : Live(attempt[u]) /\ attempt[u].token = attempt[t].token => u = t

\* An Attempt was given to the Target of its Task, which does not change under it.
OnTarget ==
  \A t \in Task : Live(attempt[t]) =>
    task[t].accepted /\ task[t].state # "absent" /\ task[t].agent = attempt[t].agent

Capacity == Cardinality(Leased) <= MaxParallel

IInv ==
  /\ TypeOK
  /\ ReservedIffLive /\ LeaseOfCurrentSegment /\ PathsExclusive
  /\ ExecutesForCurrentIdentity
  /\ Fenced /\ OnTarget /\ Capacity

\* What a step may never do, beside the invariant.
Unrevived ==
  \A t \in Task : Quarantined(attempt[t]) => Quarantined(attempt'[t]) \/ ~Live(attempt'[t])

-----------------------------------------------------------------------------
(* A step that gives no permission to execute: every Attempt stays what it  *)
(* was, or is quarantined, or is released with all it held.                *)

SameAttempt(x, y) == y.agent = x.agent /\ y.binding = x.binding /\ y.token = x.token

Withdraws ==
  /\ TypeOK' /\ fencing' = fencing
  /\ \A t \in Task : Live(attempt'[t]) =>
       /\ Live(attempt[t]) /\ SameAttempt(attempt[t], attempt'[t])
       /\ task'[t].accepted /\ task'[t].state # "absent" /\ task'[t].agent = task[t].agent
       /\ agent'[attempt[t].agent].presence # "revoked"
  /\ \A t \in Task : Executing(attempt'[t]) => Executing(attempt[t]) /\ lease'[t] = lease[t]
  /\ \A t \in Task : Suspended(attempt'[t]) =>
       (Executing(attempt[t]) \/ Suspended(attempt[t])) /\ lease'[t] = 0
  /\ \A t \in Task : Executing(attempt'[t]) \/ Suspended(attempt'[t]) =>
       agent'[attempt[t].agent].binding = agent[attempt[t].agent].binding
  /\ \A t \in Task : lease'[t] # 0 => lease'[t] = lease[t] /\ Live(attempt'[t])
  /\ \A a \in Agent :
       reserved'[a] = IF reserved[a] # None /\ ~Live(attempt'[reserved[a]])
                      THEN None ELSE reserved[a]
  /\ \A p \in Path :
       held'[p] = IF held[p] # None /\ ~Live(attempt'[held[p]]) THEN None ELSE held[p]
  /\ Unrevived

\* A set of leases that only shrinks fits where the larger one did.
LEMMA FewerLeases ==
  ASSUME TypeOK, TypeOK', Capacity, \A t \in Task : lease'[t] # 0 => lease[t] # 0
  PROVE  Capacity'
<1>1. Leased' \subseteq Leased
  BY DEF Leased
<1>2. IsFiniteSet(Leased)
  BY FS_Subset, ExecutionAssumption, Leased \subseteq Task DEF Leased, ExecutionAssumption
<1>3. Cardinality(Leased') <= Cardinality(Leased) /\ IsFiniteSet(Leased')
  BY <1>1, <1>2, FS_Subset
<1>4. Cardinality(Leased) \in Nat /\ Cardinality(Leased') \in Nat
  BY <1>2, <1>3, FS_CardinalityType
<1> QED BY <1>3, <1>4, ExecutionAssumption DEF Capacity, ExecutionAssumption

LEMMA WithdrawsKeeps ==
  ASSUME IInv, Withdraws
  PROVE  IInv'
<1> USE DEF IInv
<1>1. TypeOK'
  BY DEF Withdraws
<1>2. ReservedIffLive'
  <2> SUFFICES ASSUME NEW a \in Agent, NEW t \in Task
               PROVE  reserved'[a] = t <=> Live(attempt'[t]) /\ attempt'[t].agent = a
    BY DEF ReservedIffLive
  <2>1. reserved[a] = t <=> Live(attempt[t]) /\ attempt[t].agent = a
    BY DEF ReservedIffLive
  <2>2. Live(attempt'[t]) => Live(attempt[t]) /\ attempt'[t].agent = attempt[t].agent
    BY DEF Withdraws, SameAttempt
  <2>3. reserved'[a] = IF reserved[a] # None /\ ~Live(attempt'[reserved[a]])
                       THEN None ELSE reserved[a]
    BY DEF Withdraws
  <2>4. t # None
    BY ExecutionAssumption DEF ExecutionAssumption
  <2> QED BY <2>1, <2>2, <2>3, <2>4
<1>3. LeaseOfCurrentSegment'
  <2> SUFFICES ASSUME NEW t \in Task
               PROVE /\ Executing(attempt'[t]) => lease'[t] = attempt'[t].token /\ lease'[t] # 0
                     /\ lease'[t] # 0 => /\ Live(attempt'[t]) /\ lease'[t] = attempt'[t].token
                                         /\ ~Suspended(attempt'[t])
    BY DEF LeaseOfCurrentSegment
  <2>1. Executing(attempt'[t]) => Live(attempt'[t])
    BY DEF Executing, Live
  <2> QED BY <2>1 DEF Withdraws, SameAttempt, LeaseOfCurrentSegment
<1>4. PathsExclusive'
  <2> SUFFICES ASSUME NEW t \in Task
               PROVE /\ \A p \in Path : held'[p] = t <=> Live(attempt'[t]) /\ p \in writes[t]
                     /\ \A u \in Task : u # t /\ Live(attempt'[t]) /\ Live(attempt'[u])
                                        => ~Conflict(t, u)
    BY DEF PathsExclusive, Conflict
  <2>1. \A u \in Task : Live(attempt'[u]) => Live(attempt[u])
    BY DEF Withdraws
  <2>2. t # None
    BY ExecutionAssumption DEF ExecutionAssumption
  <2>3. ASSUME NEW p \in Path
        PROVE  held'[p] = t <=> Live(attempt'[t]) /\ p \in writes[t]
    <3>1. held[p] = t <=> Live(attempt[t]) /\ p \in writes[t]
      BY DEF PathsExclusive
    <3>2. held'[p] = IF held[p] # None /\ ~Live(attempt'[held[p]]) THEN None ELSE held[p]
      BY DEF Withdraws
    <3> QED BY <2>1, <2>2, <3>1, <3>2
  <2>4. ASSUME NEW u \in Task, u # t, Live(attempt'[t]), Live(attempt'[u])
        PROVE  ~Conflict(t, u)
    BY <2>1, <2>4 DEF PathsExclusive
  <2> QED BY <2>3, <2>4
<1>5. ExecutesForCurrentIdentity'
  <2> SUFFICES ASSUME NEW t \in Task
               PROVE /\ Executing(attempt'[t]) \/ Suspended(attempt'[t]) => Current(attempt[t])'
                     /\ Live(attempt'[t]) => attempt'[t].agent # None
                                             /\ agent'[attempt'[t].agent].presence # "revoked"
    BY DEF ExecutesForCurrentIdentity, Revoked
  <2>1. Executing(attempt'[t]) \/ Suspended(attempt'[t]) => Live(attempt'[t])
    BY DEF Executing, Suspended, Live
  <2>2. Live(attempt'[t]) => attempt[t].agent # None /\ SameAttempt(attempt[t], attempt'[t])
                             /\ agent'[attempt[t].agent].presence # "revoked"
    BY DEF Withdraws, ExecutesForCurrentIdentity
  <2>3. Executing(attempt'[t]) \/ Suspended(attempt'[t])
        => Current(attempt[t]) /\ agent'[attempt[t].agent].binding = agent[attempt[t].agent].binding
    BY DEF Withdraws, ExecutesForCurrentIdentity
  <2> QED BY <2>1, <2>2, <2>3 DEF Current, SameAttempt
<1>6. Fenced'
  BY DEF Withdraws, SameAttempt, Fenced
<1>7. OnTarget'
  BY DEF Withdraws, SameAttempt, OnTarget
<1>8. Capacity'
  BY <1>1, FewerLeases DEF Withdraws
<1> QED BY <1>1, <1>2, <1>3, <1>4, <1>5, <1>6, <1>7, <1>8

-----------------------------------------------------------------------------
(* The three ways in which a handler withdraws.                            *)

\* It leaves the tables alone, and no Attempt comes closer to executing.
Continues ==
  /\ TypeOK' /\ UNCHANGED <<reserved, lease, held, fencing>>
  /\ \A t \in Task :
       /\ Live(attempt'[t]) <=> Live(attempt[t])
       /\ Executing(attempt'[t]) => Executing(attempt[t])
       /\ Suspended(attempt'[t]) => Suspended(attempt[t])
       /\ Quarantined(attempt[t]) => Quarantined(attempt'[t])
  /\ \A t \in Task : Live(attempt[t]) =>
       /\ SameAttempt(attempt[t], attempt'[t])
       /\ task'[t].accepted /\ task'[t].state # "absent" /\ task'[t].agent = task[t].agent
       /\ agent'[attempt[t].agent].presence # "revoked"
       /\ \/ agent'[attempt[t].agent].binding = agent[attempt[t].agent].binding
          \/ ~Executing(attempt'[t]) /\ ~Suspended(attempt'[t])

LEMMA ContinuesWithdraws ==
  ASSUME IInv, Continues
  PROVE  Withdraws
<1> USE DEF IInv
<1>1. \A t \in Task : Executing(attempt'[t]) \/ Suspended(attempt'[t]) => Live(attempt'[t])
  BY DEF Executing, Suspended, Live
<1>2. \A t \in Task : lease'[t] # 0 => lease'[t] = lease[t] /\ Live(attempt'[t])
  BY DEF Continues, LeaseOfCurrentSegment
<1>3. \A t \in Task : Suspended(attempt'[t]) =>
        (Executing(attempt[t]) \/ Suspended(attempt[t])) /\ lease'[t] = 0
  BY DEF Continues, LeaseOfCurrentSegment
<1>4. ASSUME NEW a \in Agent
      PROVE  reserved'[a] = IF reserved[a] # None /\ ~Live(attempt'[reserved[a]])
                            THEN None ELSE reserved[a]
  <2>1. reserved[a] # None => reserved[a] \in Task /\ Live(attempt[reserved[a]])
    BY DEF TypeOK, ReservedIffLive
  <2> QED BY <2>1 DEF Continues
<1>5. ASSUME NEW p \in Path
      PROVE  held'[p] = IF held[p] # None /\ ~Live(attempt'[held[p]]) THEN None ELSE held[p]
  <2>1. held[p] # None => held[p] \in Task /\ Live(attempt[held[p]])
    BY DEF TypeOK, PathsExclusive
  <2> QED BY <2>1 DEF Continues
<1>6. Unrevived
  BY DEF Continues, Unrevived
<1> QED BY <1>1, <1>2, <1>3, <1>4, <1>5, <1>6 DEF Continues, Withdraws

\* It ends the lease of an Attempt that goes on being reserved.
EndsLease(t) ==
  /\ TypeOK' /\ EndLease(t) /\ UNCHANGED <<agent, fencing>>
  /\ Executing(attempt[t]) \/ Suspended(attempt[t])
  /\ Suspended(attempt'[t]) \/ Quarantined(attempt'[t])
  /\ SameAttempt(attempt[t], attempt'[t])
  /\ task'[t].accepted = task[t].accepted /\ task'[t].agent = task[t].agent
  /\ task'[t].state # "absent"
  /\ \A u \in Task : u # t => attempt'[u] = attempt[u] /\ task'[u] = task[u]

LEMMA EndsLeaseWithdraws ==
  ASSUME IInv, NEW t \in Task, EndsLease(t)
  PROVE  Withdraws
<1> USE DEF IInv
<1>1. /\ ~Executing(attempt'[t]) /\ Live(attempt'[t]) /\ Live(attempt[t])
      /\ ~Quarantined(attempt[t])
  BY DEF EndsLease, Executing, Suspended, Quarantined, Live
<1>2. \A u \in Task : Executing(attempt'[u]) \/ Suspended(attempt'[u]) => Live(attempt'[u])
  BY DEF Executing, Suspended, Live
<1>3. lease'[t] = 0 /\ \A u \in Task : u # t => lease'[u] = lease[u]
  BY DEF EndsLease, EndLease, TypeOK
<1>4. \A u \in Task : Live(attempt'[u]) <=> Live(attempt[u])
  BY <1>1 DEF EndsLease
<1>5. \A u \in Task : Live(attempt'[u]) =>
        /\ SameAttempt(attempt[u], attempt'[u])
        /\ task'[u].accepted /\ task'[u].state # "absent" /\ task'[u].agent = task[u].agent
        /\ agent'[attempt[u].agent].presence # "revoked"
  BY <1>4 DEF EndsLease, SameAttempt, OnTarget, ExecutesForCurrentIdentity, Revoked
<1>6. \A u \in Task : Executing(attempt'[u]) => Executing(attempt[u]) /\ lease'[u] = lease[u]
  BY <1>1, <1>3 DEF EndsLease
<1>7. \A u \in Task : Suspended(attempt'[u]) =>
        (Executing(attempt[u]) \/ Suspended(attempt[u])) /\ lease'[u] = 0
  BY <1>3 DEF EndsLease, LeaseOfCurrentSegment
<1>8. \A u \in Task : lease'[u] # 0 => lease'[u] = lease[u] /\ Live(attempt'[u])
  BY <1>3, <1>4 DEF LeaseOfCurrentSegment
<1>9. ASSUME NEW a \in Agent
      PROVE  reserved'[a] = IF reserved[a] # None /\ ~Live(attempt'[reserved[a]])
                            THEN None ELSE reserved[a]
  <2>1. reserved[a] # None => reserved[a] \in Task /\ Live(attempt[reserved[a]])
    BY DEF TypeOK, ReservedIffLive
  <2> QED BY <2>1, <1>4 DEF EndsLease, EndLease
<1>10. ASSUME NEW p \in Path
       PROVE  held'[p] = IF held[p] # None /\ ~Live(attempt'[held[p]]) THEN None ELSE held[p]
  <2>1. held[p] # None => held[p] \in Task /\ Live(attempt[held[p]])
    BY DEF TypeOK, PathsExclusive
  <2> QED BY <2>1, <1>4 DEF EndsLease, EndLease
<1>11. Unrevived
  BY <1>1 DEF EndsLease, Unrevived
<1> QED BY <1>4, <1>5, <1>6, <1>7, <1>8, <1>9, <1>10, <1>11 DEF EndsLease, Withdraws

\* It releases one Attempt with all that it held.
Releases(t) ==
  /\ TypeOK' /\ Release({t}) /\ UNCHANGED <<agent, fencing>>
  /\ attempt'[t] = NoAttempt
  /\ \A u \in Task : u # t => attempt'[u] = attempt[u] /\ task'[u] = task[u]

LEMMA ReleasesWithdraws ==
  ASSUME IInv, NEW t \in Task, Releases(t)
  PROVE  Withdraws
<1> USE DEF IInv
<1>1. ~Live(attempt'[t])
  BY DEF Releases, NoAttempt, Live
<1>2. \A u \in Task : Executing(attempt'[u]) \/ Suspended(attempt'[u]) => Live(attempt'[u])
  BY DEF Executing, Suspended, Live
<1>3. lease'[t] = 0 /\ \A u \in Task : u # t => lease'[u] = lease[u]
  BY DEF Releases, Release
<1>4. \A u \in Task : Live(attempt'[u]) => u # t /\ attempt'[u] = attempt[u] /\ task'[u] = task[u]
  BY <1>1 DEF Releases
<1>5. \A u \in Task : Live(attempt'[u]) =>
        /\ Live(attempt[u]) /\ SameAttempt(attempt[u], attempt'[u])
        /\ task'[u].accepted /\ task'[u].state # "absent" /\ task'[u].agent = task[u].agent
        /\ agent'[attempt[u].agent].presence # "revoked"
  BY <1>4 DEF Releases, SameAttempt, OnTarget, ExecutesForCurrentIdentity, Revoked
<1>6. \A u \in Task : Executing(attempt'[u]) => Executing(attempt[u]) /\ lease'[u] = lease[u]
  BY <1>2, <1>3, <1>4
<1>7. \A u \in Task : Suspended(attempt'[u]) =>
        (Executing(attempt[u]) \/ Suspended(attempt[u])) /\ lease'[u] = 0
  BY <1>2, <1>3, <1>4 DEF LeaseOfCurrentSegment
<1>8. \A u \in Task : lease'[u] # 0 => lease'[u] = lease[u] /\ Live(attempt'[u])
  BY <1>3 DEF LeaseOfCurrentSegment, Releases
<1>9. ASSUME NEW a \in Agent
      PROVE  reserved'[a] = IF reserved[a] # None /\ ~Live(attempt'[reserved[a]])
                            THEN None ELSE reserved[a]
  <2>1. reserved[a] # None => reserved[a] \in Task /\ Live(attempt[reserved[a]])
    BY DEF TypeOK, ReservedIffLive
  <2>2. reserved'[a] = IF reserved[a] = t THEN None ELSE reserved[a]
    BY DEF Releases, Release
  <2> QED BY <2>1, <2>2, <1>1 DEF Releases
<1>10. ASSUME NEW p \in Path
       PROVE  held'[p] = IF held[p] # None /\ ~Live(attempt'[held[p]]) THEN None ELSE held[p]
  <2>1. held[p] # None => held[p] \in Task /\ Live(attempt[held[p]])
    BY DEF TypeOK, PathsExclusive
  <2>2. held'[p] = IF held[p] = t THEN None ELSE held[p]
    BY DEF Releases, Release
  <2> QED BY <2>1, <2>2, <1>1 DEF Releases
<1>11. Unrevived
  BY <1>1 DEF Releases, Unrevived
<1> QED BY <1>2, <1>5, <1>6, <1>7, <1>8, <1>9, <1>10, <1>11 DEF Releases, Withdraws

-----------------------------------------------------------------------------
(* Every handler but Tick withdraws.                                       *)

LEMMA AttemptsStay ==
  ASSUME IInv, TypeOK', UNCHANGED <<attempt, reserved, lease, held, fencing>>,
         \A t \in Task : Live(attempt[t]) =>
           /\ task'[t].accepted /\ task'[t].state # "absent" /\ task'[t].agent = task[t].agent
           /\ agent'[attempt[t].agent].presence # "revoked"
           /\ agent'[attempt[t].agent].binding = agent[attempt[t].agent].binding
  PROVE  Withdraws
<1>1. Continues
  BY DEF IInv, Continues, SameAttempt
<1> QED BY <1>1, ContinuesWithdraws

\* What every Attempt that is not released can rely on.
LEMMA LiveFacts ==
  ASSUME IInv, NEW t \in Task, Live(attempt[t])
  PROVE  /\ attempt[t].agent \in Agent /\ agent[attempt[t].agent].presence # "revoked"
         /\ task[t].accepted /\ task[t].state # "absent" /\ task[t].agent = attempt[t].agent
BY DEF IInv, TypeOK, AttemptRecord, ExecutesForCurrentIdentity, Revoked, OnTarget

LEMMA Moved ==
  ASSUME NEW c \in TaskRecord,
         NEW state \in {"planned", "queued", "dispatching", "running", "result_proposed",
                       "waiting_dependency", "completed", "interrupted", "cancelled",
                       "needs_review"}
  PROVE  /\ [c EXCEPT !.state = state] \in TaskRecord
         /\ [c EXCEPT !.state = state].state = state /\ state # "absent"
         /\ [c EXCEPT !.state = state].accepted = c.accepted
         /\ [c EXCEPT !.state = state].agent = c.agent
         /\ [c EXCEPT !.state = state].binding = c.binding
         /\ [c EXCEPT !.state = state].tries = c.tries
BY DEF TaskRecord

LEMMA Accepted ==
  ASSUME TypeOK, NEW c \in TaskRecord, NEW a \in Agent
  PROVE  /\ Accept(c, a) \in TaskRecord
         /\ Accept(c, a).accepted /\ Accept(c, a).agent = a
         /\ Accept(c, a).binding = agent[a].binding
         /\ Accept(c, a).tries = c.tries
<1> DEFINE c1 == [c EXCEPT !.accepted = TRUE]
           c2 == [c1 EXCEPT !.agent = a]
           c3 == [c2 EXCEPT !.binding = agent[a].binding]
           c4 == [c3 EXCEPT !.late = FALSE]
<1>1. c1 \in TaskRecord /\ c1.accepted /\ c1.tries = c.tries
  BY DEF TaskRecord
<1>2. c2 \in TaskRecord /\ c2.accepted /\ c2.agent = a /\ c2.tries = c1.tries
  BY <1>1 DEF TaskRecord
<1>3. agent[a].binding \in Nat
  BY DEF TypeOK, AgentRecord
<1>4. /\ c3 \in TaskRecord /\ c3.accepted /\ c3.agent = a /\ c3.tries = c2.tries
      /\ c3.binding = agent[a].binding
  BY <1>2, <1>3 DEF TaskRecord
<1>5. /\ c4 \in TaskRecord /\ c4.accepted /\ c4.agent = a /\ c4.tries = c3.tries
      /\ c4.binding = c3.binding
  BY <1>4 DEF TaskRecord
<1>6. Accept(c, a) = c4
  BY DEF Accept
<1> HIDE DEF c1, c2, c3, c4
<1> QED BY <1>1, <1>2, <1>4, <1>5, <1>6

LEMMA CreateTaskWithdraws ==
  ASSUME IInv, NEW t \in Task, CreateTask(t)
  PROVE  Withdraws
<1>1. ~Live(attempt[t])
  BY DEF CreateTask, IInv, OnTarget
<1>2. TypeOK'
  <2>1. task'[t] \in TaskRecord
    <3>1. task[t] \in TaskRecord /\ named[t] \in Agent \cup {None}
      BY ExecutionAssumption DEF IInv, TypeOK, ExecutionAssumption
    <3>2. CASE named[t] # None
      <4>1. Accept(task[t], named[t]) \in TaskRecord
        BY <3>1, <3>2, Accepted DEF IInv
      <4>2. task'[t] = [Accept(task[t], named[t]) EXCEPT !.state = "queued"]
        BY <3>2 DEF CreateTask, IInv, TypeOK
      <4>3. [Accept(task[t], named[t]) EXCEPT !.state = "queued"] \in TaskRecord
        BY <4>1 DEF TaskRecord
      <4> QED BY <4>2, <4>3
    <3>3. CASE named[t] = None
      <4>1. task'[t] = [task[t] EXCEPT !.state = "planned"]
        BY <3>3 DEF CreateTask, IInv, TypeOK
      <4>2. [task[t] EXCEPT !.state = "planned"] \in TaskRecord
        BY <3>1 DEF TaskRecord
      <4> QED BY <4>1, <4>2
    <3> QED BY <3>2, <3>3
  <2> QED BY <2>1 DEF CreateTask, IInv, TypeOK
<1>3. \A u \in Task : Live(attempt[u]) => task'[u] = task[u]
  BY <1>1 DEF CreateTask, IInv, TypeOK
<1> QED BY <1>2, <1>3, LiveFacts, AttemptsStay DEF CreateTask

LEMMA TaskRetryWithdraws ==
  ASSUME IInv, NEW t \in Task, TaskRetry(t)
  PROVE  Withdraws
<1>1. TypeOK'
  <2>1. task'[t] \in TaskRecord
    <3> DEFINE a == IF named[t] = None THEN primary[roleOf[t]] ELSE named[t]
    <3>1. task[t] \in TaskRecord /\ a \in Agent
      BY ExecutionAssumption DEF TaskRetry, IInv, TypeOK, ExecutionAssumption
    <3>2. Accept(task[t], a) \in TaskRecord
      BY <3>1, Accepted DEF IInv
    <3>3. task'[t] = [Accept(task[t], a) EXCEPT !.state = "queued"]
      BY DEF TaskRetry, IInv, TypeOK
    <3> HIDE DEF a
    <3>4. [Accept(task[t], a) EXCEPT !.state = "queued"] \in TaskRecord
      BY <3>2 DEF TaskRecord
    <3> QED BY <3>3, <3>4
  <2> QED BY <2>1 DEF TaskRetry, IInv, TypeOK
<1>2. \A u \in Task : Live(attempt[u]) => task'[u] = task[u]
  BY DEF TaskRetry, IInv, TypeOK
<1> QED BY <1>1, <1>2, LiveFacts, AttemptsStay DEF TaskRetry

LEMMA TaskRecoverWithdraws ==
  ASSUME IInv, NEW t \in Task, TaskRecover(t)
  PROVE  Withdraws
<1>1. TypeOK'
  BY DEF TaskRecover, SetTask, IInv, TypeOK, TaskRecord
<1>2. \A u \in Task : Live(attempt[u]) => task'[u] = task[u]
  BY DEF TaskRecover, SetTask, IInv, TypeOK
<1> QED BY <1>1, <1>2, LiveFacts, AttemptsStay DEF TaskRecover

LEMMA DeadlinePassesWithdraws ==
  ASSUME IInv, NEW t \in Task, DeadlinePasses(t)
  PROVE  Withdraws
<1>1. TypeOK'
  BY DEF DeadlinePasses, IInv, TypeOK, TaskRecord
<1>2. \A u \in Task : task'[u].accepted = task[u].accepted /\ task'[u].state = task[u].state
                      /\ task'[u].agent = task[u].agent
  BY DEF DeadlinePasses, IInv, TypeOK, TaskRecord
<1> QED BY <1>1, <1>2, LiveFacts, AttemptsStay DEF DeadlinePasses

LEMMA LeaseLapsesWithdraws ==
  ASSUME IInv, NEW t \in Task, LeaseLapses(t)
  PROVE  Withdraws
<1>1. TypeOK'
  <2>1. attempt[t] \in AttemptRecord
    BY DEF IInv, TypeOK
  <2>2. [attempt[t] EXCEPT !.lapsed = TRUE] \in AttemptRecord
    BY <2>1 DEF AttemptRecord
  <2>3. attempt' = [attempt EXCEPT ![t] = [attempt[t] EXCEPT !.lapsed = TRUE]]
    BY DEF LeaseLapses, IInv, TypeOK
  <2> QED BY <2>2, <2>3 DEF LeaseLapses, IInv, TypeOK
<1>2. \A u \in Task : attempt'[u].state = attempt[u].state /\ SameAttempt(attempt[u], attempt'[u])
  BY DEF LeaseLapses, IInv, TypeOK, AttemptRecord, SameAttempt
<1>3. Continues
  BY <1>1, <1>2, LiveFacts
  DEF LeaseLapses, Continues, Live, Executing, Suspended, Quarantined
<1> QED BY <1>3, ContinuesWithdraws

\* An event that is accepted belongs to an Attempt that executes or is suspended.
LEMMA AcceptingFacts ==
  ASSUME IInv, NEW t \in Task, Accepting(t)
  PROVE  /\ Executing(attempt[t]) \/ Suspended(attempt[t])
         /\ ~Quarantined(attempt[t]) /\ Live(attempt[t])
BY DEF Accepting, IInv, TypeOK, AttemptRecord, Live, Executing, Suspended, Quarantined

\* One Attempt that executes goes on executing.
LEMMA ProgressWithdraws ==
  ASSUME IInv, NEW t \in Task, NEW state \in {"running", "result_proposed"},
         Executing(attempt[t]), attempt'[t] \in AttemptRecord, Executing(attempt'[t]),
         SameAttempt(attempt[t], attempt'[t]),
         attempt' = [attempt EXCEPT ![t] = attempt'[t]],
         SetTask(t, state) \/ UNCHANGED task,
         UNCHANGED <<agent, primary, reserved, lease, held, fencing>>
  PROVE  Withdraws
<1>1. TypeOK'
  BY DEF SetTask, IInv, TypeOK, TaskRecord
<1>2. \A u \in Task : u # t => attempt'[u] = attempt[u]
  BY DEF IInv, TypeOK
<1>3. \A u \in Task : /\ task'[u].accepted = task[u].accepted /\ task'[u].agent = task[u].agent
                      /\ task[u].state # "absent" => task'[u].state # "absent"
  BY DEF SetTask, IInv, TypeOK, TaskRecord
<1>4. Live(attempt[t]) /\ Live(attempt'[t]) /\ ~Suspended(attempt'[t]) /\ ~Quarantined(attempt[t])
  BY DEF Live, Executing, Suspended, Quarantined
<1>5. Continues
  BY <1>1, <1>2, <1>3, <1>4, LiveFacts DEF Continues, SameAttempt
<1> QED BY <1>5, ContinuesWithdraws

LEMMA ReceiptWithdraws ==
  ASSUME IInv, NEW t \in Task,
         NEW from \in {"dispatch_intent", "adapter_received", "injection_requested"},
         NEW to \in {"adapter_received", "injection_requested", "input_observed"},
         Receipt(t, from, to)
  PROVE  Withdraws
<1> DEFINE same == [attempt[t] EXCEPT !.receipt = to]
           ran == [attempt[t] EXCEPT !.receipt = to, !.state = "running"]
<1>1. attempt[t] \in AttemptRecord /\ attempt \in [Task -> AttemptRecord]
  BY DEF IInv, TypeOK
<1>2. same \in AttemptRecord /\ same.state = attempt[t].state /\ SameAttempt(attempt[t], same)
  BY <1>1 DEF AttemptRecord, SameAttempt
<1>3. ran \in AttemptRecord /\ ran.state = "running" /\ SameAttempt(attempt[t], ran)
  BY <1>1 DEF AttemptRecord, SameAttempt
<1>4. \E x \in {same, ran} : attempt' = [attempt EXCEPT ![t] = x]
  BY DEF Receipt, SetAttempt
<1>5. PICK x \in {same, ran} : attempt' = [attempt EXCEPT ![t] = x]
  BY <1>4
<1>6. attempt'[t] = x
  BY <1>1, <1>5
<1>7. attempt'[t] \in AttemptRecord /\ attempt' = [attempt EXCEPT ![t] = attempt'[t]]
  BY <1>2, <1>3, <1>5, <1>6
<1>8. SameAttempt(attempt[t], attempt'[t])
  BY <1>2, <1>3, <1>6
<1>9. attempt[t].state = "admitted"
  BY DEF Receipt
<1>10. Executing(attempt[t]) /\ Executing(attempt'[t])
  BY <1>2, <1>3, <1>6, <1>9 DEF Executing
<1>11. SetTask(t, "running") \/ UNCHANGED task
  BY DEF Receipt
<1> QED BY <1>7, <1>8, <1>10, <1>11, ProgressWithdraws DEF Receipt

LEMMA YieldWithdraws ==
  ASSUME IInv, NEW t \in Task, Yield(t)
  PROVE  Withdraws
<1>1. attempt'[t] \in AttemptRecord /\ attempt' = [attempt EXCEPT ![t] = attempt'[t]]
  BY DEF Yield, SetAttempt, IInv, TypeOK, AttemptRecord
<1>2. Executing(attempt[t]) /\ Executing(attempt'[t]) /\ SameAttempt(attempt[t], attempt'[t])
  BY DEF Yield, SetAttempt, IInv, TypeOK, AttemptRecord, Executing, SameAttempt
<1> QED BY <1>1, <1>2, ProgressWithdraws DEF Yield

LEMMA ResultProposedWithdraws ==
  ASSUME IInv, NEW t \in Task, ResultProposed(t)
  PROVE  Withdraws
<1>1. attempt'[t] \in AttemptRecord /\ attempt' = [attempt EXCEPT ![t] = attempt'[t]]
  BY DEF ResultProposed, SetAttempt, IInv, TypeOK, AttemptRecord
<1>2. Executing(attempt[t]) /\ Executing(attempt'[t]) /\ SameAttempt(attempt[t], attempt'[t])
  BY DEF ResultProposed, SetAttempt, IInv, TypeOK, AttemptRecord, Executing, SameAttempt
<1> QED BY <1>1, <1>2, ProgressWithdraws DEF ResultProposed

-----------------------------------------------------------------------------
(* Handlers that end a lease or release an Attempt.                        *)

\* The tables of one Attempt that ends its lease stay well-formed.
LEMMA EndLeaseWithdraws ==
  ASSUME IInv, NEW t \in Task, Accepting(t), EndLease(t),
         NEW s \in {"suspended", "needs_review"}, SetAttempt(t, [attempt[t] EXCEPT !.state = s]),
         NEW state \in {"waiting_dependency", "needs_review"}, SetTask(t, state),
         UNCHANGED <<agent, primary, fencing>>
  PROVE  Withdraws
<1>1. /\ attempt'[t] \in AttemptRecord /\ attempt'[t].state = s
      /\ SameAttempt(attempt[t], attempt'[t])
  BY DEF SetAttempt, IInv, TypeOK, AttemptRecord, SameAttempt
<1>2. /\ task'[t] \in TaskRecord /\ task'[t].state # "absent"
      /\ task'[t].accepted = task[t].accepted /\ task'[t].agent = task[t].agent
  BY DEF SetTask, IInv, TypeOK, TaskRecord
<1>3. \A u \in Task : u # t => attempt'[u] = attempt[u] /\ task'[u] = task[u]
  BY DEF SetTask, SetAttempt, IInv, TypeOK
<1>4. TypeOK'
  BY <1>1, <1>2 DEF SetTask, SetAttempt, EndLease, IInv, TypeOK
<1>5. Suspended(attempt'[t]) \/ Quarantined(attempt'[t])
  BY <1>1 DEF Suspended, Quarantined
<1>6. EndsLease(t)
  BY <1>1, <1>2, <1>3, <1>4, <1>5, AcceptingFacts DEF EndsLease
<1> QED BY <1>6, EndsLeaseWithdraws

LEMMA SettledSuspendedWithdraws ==
  ASSUME IInv, NEW t \in Task, SettledSuspended(t)
  PROVE  Withdraws
BY EndLeaseWithdraws DEF SettledSuspended

LEMMA DeferredWithdraws ==
  ASSUME IInv, NEW t \in Task, Deferred(t)
  PROVE  Withdraws
BY EndLeaseWithdraws DEF Deferred

LEMMA SettledMissingWithdraws ==
  ASSUME IInv, NEW t \in Task, SettledMissing(t)
  PROVE  Withdraws
BY EndLeaseWithdraws DEF SettledMissing

\* Releasing the one Attempt of t, whatever becomes of the Task.
LEMMA ReleaseWithdraws ==
  ASSUME IInv, NEW t \in Task, Release({t}), SetAttempt(t, NoAttempt),
         NEW state \in {"completed", "interrupted", "cancelled", "needs_review"},
         SetTask(t, state) \/ UNCHANGED task,
         UNCHANGED <<agent, primary, fencing>>
  PROVE  Withdraws
<1>1. NoAttempt \in AttemptRecord
  BY DEF NoAttempt, AttemptRecord
<1>2. task' \in [Task -> TaskRecord]
  BY DEF SetTask, IInv, TypeOK, TaskRecord
<1>3. reserved' \in [Agent -> Task \cup {None}] /\ held' \in [Path -> Task \cup {None}]
  BY DEF Release, IInv, TypeOK
<1>4. lease' \in [Task -> Nat]
  BY DEF Release, IInv, TypeOK
<1>5. TypeOK'
  BY <1>1, <1>2, <1>3, <1>4 DEF SetAttempt, IInv, TypeOK
<1>6. Releases(t)
  BY <1>5 DEF Releases, SetAttempt, SetTask, IInv, TypeOK
<1> QED BY <1>6, ReleasesWithdraws

LEMMA SettledFailedWithdraws ==
  ASSUME IInv, NEW t \in Task, SettledFailed(t)
  PROVE  Withdraws
BY ReleaseWithdraws DEF SettledFailed

LEMMA SettledCompletedWithdraws ==
  ASSUME IInv, NEW t \in Task, SettledCompleted(t)
  PROVE  Withdraws
BY ReleaseWithdraws DEF SettledCompleted

LEMMA StoppedWithdraws ==
  ASSUME IInv, NEW t \in Task, Stopped(t)
  PROVE  Withdraws
<1> PICK state \in {"completed", "interrupted", "cancelled", "needs_review"} : TRUE
  OBVIOUS
<1> QED BY ReleaseWithdraws DEF Stopped

LEMMA ReconcileWithdraws ==
  ASSUME IInv, NEW t \in Task, Reconcile(t)
  PROVE  Withdraws
<1>1. SetTask(t, "interrupted") \/ UNCHANGED task
  BY DEF Reconcile, SetTask
<1> QED BY <1>1, ReleaseWithdraws DEF Reconcile

LEMMA TaskCancelWithdraws ==
  ASSUME IInv, NEW t \in Task, TaskCancel(t)
  PROVE  Withdraws
<1>1. CASE ReleasedByCancel(attempt[t])
  <2>1. SetAttempt(t, NoAttempt) /\ Release({t}) /\ SetTask(t, "cancelled")
    BY <1>1 DEF TaskCancel, SetAttempt
  <2> QED BY <2>1, ReleaseWithdraws DEF TaskCancel
<1>2. CASE ~ReleasedByCancel(attempt[t])
  <2>1. UNCHANGED <<reserved, lease, held>>
    BY <1>2 DEF TaskCancel, Release, IInv, TypeOK
  <2>2. task' \in [Task -> TaskRecord]
    BY DEF TaskCancel, SetTask, IInv, TypeOK, TaskRecord
  <2>3. \A u \in Task : /\ task'[u].accepted = task[u].accepted /\ task'[u].agent = task[u].agent
                        /\ task[u].state # "absent" => task'[u].state # "absent"
    BY DEF TaskCancel, SetTask, IInv, TypeOK, TaskRecord
  <2>4. CASE Live(attempt[t])
    <3>1. attempt' = [attempt EXCEPT ![t].state = "cancelled"]
      BY <1>2, <2>4 DEF TaskCancel
    <3>2. attempt' \in [Task -> AttemptRecord]
      <4>1. [attempt[t] EXCEPT !.state = "cancelled"] \in AttemptRecord
        BY DEF IInv, TypeOK, AttemptRecord
      <4>2. attempt' = [attempt EXCEPT ![t] = [attempt[t] EXCEPT !.state = "cancelled"]]
        BY <3>1 DEF IInv, TypeOK
      <4> QED BY <4>1, <4>2 DEF IInv, TypeOK
    <3>3. \A u \in Task : /\ SameAttempt(attempt[u], attempt'[u])
                          /\ u # t => attempt'[u] = attempt[u]
                          /\ u = t => attempt'[u].state = "cancelled"
      BY <3>1 DEF IInv, TypeOK, AttemptRecord, SameAttempt
    <3>4. TypeOK'
      BY <2>1, <2>2, <3>2 DEF TaskCancel, IInv, TypeOK
    <3>5. ASSUME NEW u \in Task
          PROVE  /\ Live(attempt'[u]) <=> Live(attempt[u])
                 /\ Executing(attempt'[u]) => Executing(attempt[u])
                 /\ Suspended(attempt'[u]) => Suspended(attempt[u])
                 /\ Quarantined(attempt[u]) => Quarantined(attempt'[u])
      BY <3>3, <2>4 DEF Live, Executing, Suspended, Quarantined
    <3>6. Continues
      <4>1. UNCHANGED <<agent, fencing>>
        BY DEF TaskCancel
      <4>2. \A u \in Task : Live(attempt[u]) =>
              /\ task'[u].accepted /\ task'[u].state # "absent"
              /\ agent[attempt[u].agent].presence # "revoked"
        BY <2>3, LiveFacts
      <4> QED BY <2>1, <2>3, <3>3, <3>4, <3>5, <4>1, <4>2 DEF Continues
    <3> QED BY <3>6, ContinuesWithdraws
  <2>5. CASE ~Live(attempt[t])
    <3>1. attempt' = attempt
      BY <1>2, <2>5 DEF TaskCancel
    <3>2. TypeOK'
      BY <2>1, <2>2, <3>1 DEF TaskCancel, IInv, TypeOK
    <3> QED BY <2>1, <2>3, <3>1, <3>2, LiveFacts, AttemptsStay DEF TaskCancel
  <2> QED BY <2>4, <2>5
<1> QED BY <1>1, <1>2

-----------------------------------------------------------------------------
(* Identities.                                                             *)

\* Interruption quarantines whatever the agents A have, and may rename them.
LEMMA InterruptWithdraws ==
  ASSUME IInv, NEW A \in SUBSET Agent, InterruptAgents(A),
         agent' \in [Agent -> AgentRecord], primary' \in [Role -> Agent \cup {None}],
         \A a \in Agent : agent'[a].presence = "revoked" => agent[a].presence = "revoked",
         \A a \in Agent \ A : agent'[a].binding = agent[a].binding,
         UNCHANGED <<reserved, lease, held, fencing>>
  PROVE  Withdraws
<1>1. \A t \in Task : t \in OfAgents(A) =>
        attempt'[t] = [attempt[t] EXCEPT !.state = "interrupted"]
        /\ task'[t] = [task[t] EXCEPT !.state = "interrupted"]
  BY DEF InterruptAgents, Interrupted
<1>2. \A t \in Task : t \notin OfAgents(A) => attempt'[t] = attempt[t] /\ task'[t] = task[t]
  BY DEF InterruptAgents
<1>3. ASSUME NEW t \in Task
      PROVE  /\ attempt'[t] \in AttemptRecord
             /\ SameAttempt(attempt[t], attempt'[t])
             /\ t \in OfAgents(A) => attempt'[t].state = "interrupted"
  <2>1. attempt[t] \in AttemptRecord
    BY DEF IInv, TypeOK
  <2>2. /\ [attempt[t] EXCEPT !.state = "interrupted"] \in AttemptRecord
        /\ SameAttempt(attempt[t], [attempt[t] EXCEPT !.state = "interrupted"])
        /\ [attempt[t] EXCEPT !.state = "interrupted"].state = "interrupted"
    BY <2>1 DEF AttemptRecord, SameAttempt
  <2>3. SameAttempt(attempt[t], attempt[t])
    BY DEF SameAttempt
  <2> QED BY <1>1, <1>2, <2>1, <2>2, <2>3
<1>4. ASSUME NEW t \in Task
      PROVE  /\ task'[t] \in TaskRecord
             /\ task'[t].accepted = task[t].accepted /\ task'[t].agent = task[t].agent
             /\ task[t].state # "absent" => task'[t].state # "absent"
  <2>1. task[t] \in TaskRecord
    BY DEF IInv, TypeOK
  <2>2. /\ [task[t] EXCEPT !.state = "interrupted"] \in TaskRecord
        /\ [task[t] EXCEPT !.state = "interrupted"].state = "interrupted"
        /\ [task[t] EXCEPT !.state = "interrupted"].accepted = task[t].accepted
        /\ [task[t] EXCEPT !.state = "interrupted"].agent = task[t].agent
    BY <2>1, Moved
  <2> QED BY <1>1, <1>2, <2>1, <2>2
<1>5. TypeOK'
  BY <1>3, <1>4 DEF InterruptAgents, IInv, TypeOK
<1>6. ASSUME NEW t \in Task
      PROVE  /\ Live(attempt'[t]) <=> Live(attempt[t])
             /\ Executing(attempt'[t]) => Executing(attempt[t])
             /\ Suspended(attempt'[t]) => Suspended(attempt[t])
             /\ Quarantined(attempt[t]) => Quarantined(attempt'[t])
             /\ t \in OfAgents(A) => ~Executing(attempt'[t]) /\ ~Suspended(attempt'[t])
  BY <1>2, <1>3 DEF Live, Executing, Suspended, Quarantined, OfAgents
<1>7. ASSUME NEW t \in Task, Live(attempt[t])
      PROVE  /\ agent'[attempt[t].agent].presence # "revoked"
             /\ \/ agent'[attempt[t].agent].binding = agent[attempt[t].agent].binding
                \/ t \in OfAgents(A)
  BY <1>7, LiveFacts DEF OfAgents
<1>8. Continues
  BY <1>3, <1>4, <1>5, <1>6, <1>7, LiveFacts DEF Continues
<1> QED BY <1>8, ContinuesWithdraws

LEMMA InterruptReportWithdraws ==
  ASSUME IInv, NEW a \in Agent, Interrupt(a)
  PROVE  Withdraws
BY InterruptWithdraws DEF Interrupt, IInv, TypeOK

LEMMA RegisterWithdraws ==
  ASSUME IInv, NEW a \in Agent, Register(a)
  PROVE  Withdraws
<1>1. /\ agent' \in [Agent -> AgentRecord]
      /\ \A b \in Agent : agent'[b].presence = "revoked" => agent[b].presence = "revoked"
      /\ \A b \in Agent \ {a} : agent'[b] = agent[b]
  BY DEF Register, IInv, TypeOK, AgentRecord
<1>2. CASE ~Revoked(a)
  BY <1>1, <1>2, InterruptWithdraws DEF Register, IInv, TypeOK
<1>3. CASE Revoked(a)
  <2>1. \A t \in Task : Live(attempt[t]) => attempt[t].agent # a
    BY <1>3, LiveFacts DEF Revoked
  <2>2. TypeOK'
    BY <1>1, <1>3 DEF Register, IInv, TypeOK
  <2> QED BY <1>1, <1>3, <2>1, <2>2, LiveFacts, AttemptsStay DEF Register
<1> QED BY <1>2, <1>3

\* A step that only changes identities of agents without an Attempt.
LEMMA IdentityWithdraws ==
  ASSUME IInv, agent' \in [Agent -> AgentRecord], primary' \in [Role -> Agent \cup {None}],
         \A a \in Agent : \/ Free(a)
                          \/ /\ agent'[a].binding = agent[a].binding
                             /\ agent'[a].presence # "revoked" \/ agent[a].presence = "revoked",
         UNCHANGED <<task, attempt, reserved, lease, held, fencing>>
  PROVE  Withdraws
<1>1. TypeOK'
  BY DEF IInv, TypeOK
<1>2. \A t \in Task : Live(attempt[t]) => ~Free(attempt[t].agent)
  BY DEF Free
<1> QED BY <1>1, <1>2, LiveFacts, AttemptsStay

LEMMA HeartbeatWithdraws ==
  ASSUME IInv, NEW a \in Agent, Heartbeat(a)
  PROVE  Withdraws
<1>1. /\ agent' \in [Agent -> AgentRecord]
      /\ \A b \in Agent :
           /\ agent'[b].binding = agent[b].binding
           /\ agent'[b].presence = "revoked" => agent[b].presence = "revoked"
  BY DEF Heartbeat, IInv, TypeOK, AgentRecord
<1> QED BY <1>1, IdentityWithdraws DEF Heartbeat, IInv, TypeOK

LEMMA SilentWithdraws ==
  ASSUME IInv, NEW a \in Agent, Silent(a)
  PROVE  Withdraws
<1>1. /\ agent' \in [Agent -> AgentRecord]
      /\ \A b \in Agent :
           /\ agent'[b].binding = agent[b].binding
           /\ agent'[b].presence = "revoked" => agent[b].presence = "revoked"
  BY DEF Silent, IInv, TypeOK, AgentRecord
<1> QED BY <1>1, IdentityWithdraws DEF Silent, IInv, TypeOK

LEMMA ReleaseRuntimeWithdraws ==
  ASSUME IInv, NEW a \in Agent, ReleaseRuntime(a)
  PROVE  Withdraws
<1>1. agent' \in [Agent -> AgentRecord] /\ \A b \in Agent \ {a} : agent'[b] = agent[b]
  BY DEF ReleaseRuntime, IInv, TypeOK, AgentRecord
<1> QED BY <1>1, IdentityWithdraws DEF ReleaseRuntime, IInv, TypeOK

LEMMA RenamedFacts ==
  ASSUME IInv, NEW A \in SUBSET Agent
  PROVE  /\ Renamed(A) \in [Agent -> AgentRecord]
         /\ \A b \in Agent : Renamed(A)[b].presence = agent[b].presence
         /\ \A b \in Agent \ A : Renamed(A)[b] = agent[b]
<1>1. ASSUME NEW b \in Agent
      PROVE  /\ Renamed(A)[b] \in AgentRecord
             /\ Renamed(A)[b].presence = agent[b].presence
             /\ b \notin A => Renamed(A)[b] = agent[b]
  BY DEF Renamed, IInv, TypeOK, AgentRecord
<1> QED BY <1>1 DEF Renamed

LEMMA PromoteWithdraws ==
  ASSUME IInv, NEW r \in Role, NEW b \in Agent, Promote(r, b)
  PROVE  Withdraws
<1> DEFINE touched == (IF primary[r] = None THEN {} ELSE {primary[r]}) \cup {b}
<1>1. touched \in SUBSET Agent
  BY DEF IInv, TypeOK
<1>2. agent' = Renamed(touched) /\ \A a \in touched : Free(a)
  BY DEF Promote
<1>3. primary' \in [Role -> Agent \cup {None}]
  BY DEF Promote, IInv, TypeOK
<1> HIDE DEF touched
<1>4. /\ agent' \in [Agent -> AgentRecord]
      /\ \A a \in Agent : agent'[a].presence = agent[a].presence
      /\ \A a \in Agent \ touched : agent'[a] = agent[a]
  BY <1>1, <1>2, RenamedFacts
<1>5. \A a \in Agent : \/ Free(a)
                       \/ /\ agent'[a].binding = agent[a].binding
                          /\ agent'[a].presence # "revoked" \/ agent[a].presence = "revoked"
  BY <1>2, <1>4
<1> QED BY <1>3, <1>4, <1>5, IdentityWithdraws DEF Promote

LEMMA ReleasePrimaryWithdraws ==
  ASSUME IInv, NEW r \in Role, ReleasePrimary(r)
  PROVE  Withdraws
<1>1. {primary[r]} \in SUBSET Agent
  BY DEF ReleasePrimary, IInv, TypeOK
<1>2. primary' \in [Role -> Agent \cup {None}]
  BY DEF ReleasePrimary, IInv, TypeOK
<1> QED BY <1>1, <1>2, RenamedFacts, IdentityWithdraws DEF ReleasePrimary

LEMMA RestartWithdraws ==
  ASSUME IInv, Restart
  PROVE  Withdraws
<1>1. agent' \in [Agent -> AgentRecord]
      /\ \A a \in Agent :
           /\ agent'[a].binding = agent[a].binding
           /\ agent'[a].presence = "revoked" => agent[a].presence = "revoked"
  BY DEF Restart, Revoked, IInv, TypeOK, AgentRecord
<1>2. ASSUME NEW t \in Task
      PROVE  /\ attempt'[t] \in AttemptRecord
             /\ SameAttempt(attempt[t], attempt'[t])
             /\ Live(attempt[t]) => attempt'[t].state = "needs_review"
             /\ ~Live(attempt[t]) => attempt'[t] = attempt[t]
  <2>1. attempt[t] \in AttemptRecord
    BY DEF IInv, TypeOK
  <2>2. /\ [attempt[t] EXCEPT !.state = "needs_review"] \in AttemptRecord
        /\ SameAttempt(attempt[t], [attempt[t] EXCEPT !.state = "needs_review"])
        /\ [attempt[t] EXCEPT !.state = "needs_review"].state = "needs_review"
    BY <2>1 DEF AttemptRecord, SameAttempt
  <2>3. SameAttempt(attempt[t], attempt[t])
    BY DEF SameAttempt
  <2> QED BY <2>1, <2>2, <2>3 DEF Restart
<1>3. ASSUME NEW t \in Task
      PROVE  /\ task'[t] \in TaskRecord
             /\ task'[t].accepted = task[t].accepted /\ task'[t].agent = task[t].agent
             /\ task[t].state # "absent" => task'[t].state # "absent"
  <2>1. task[t] \in TaskRecord
    BY DEF IInv, TypeOK
  <2>2. /\ [task[t] EXCEPT !.state = "needs_review"] \in TaskRecord
        /\ [task[t] EXCEPT !.state = "needs_review"].state = "needs_review"
        /\ [task[t] EXCEPT !.state = "needs_review"].accepted = task[t].accepted
        /\ [task[t] EXCEPT !.state = "needs_review"].agent = task[t].agent
    BY <2>1, Moved
  <2>3. task'[t] = [task[t] EXCEPT !.state = "needs_review"] \/ task'[t] = task[t]
    BY DEF Restart
  <2> QED BY <2>1, <2>2, <2>3
<1>4. TypeOK'
  BY <1>1, <1>2, <1>3 DEF Restart, IInv, TypeOK
<1>5. ASSUME NEW t \in Task
      PROVE  /\ Live(attempt'[t]) <=> Live(attempt[t])
             /\ Executing(attempt'[t]) => Executing(attempt[t])
             /\ Suspended(attempt'[t]) => Suspended(attempt[t])
             /\ Quarantined(attempt[t]) => Quarantined(attempt'[t])
  BY <1>2 DEF Live, Executing, Suspended, Quarantined
<1>6. Continues
  <2>1. UNCHANGED <<reserved, lease, held, fencing>>
    BY DEF Restart
  <2>2. ASSUME NEW t \in Task, Live(attempt[t])
        PROVE  /\ task'[t].accepted /\ task'[t].state # "absent"
               /\ agent'[attempt[t].agent].presence # "revoked"
               /\ agent'[attempt[t].agent].binding = agent[attempt[t].agent].binding
    BY <2>2, <1>1, <1>3, LiveFacts
  <2> QED BY <2>1, <2>2, <1>2, <1>3, <1>4, <1>5 DEF Continues
<1> QED BY <1>6, ContinuesWithdraws

-----------------------------------------------------------------------------
(* Tick.                                                                   *)

LEMMA ExpiryFacts ==
  ASSUME IInv, NEW t \in Task
  PROVE  /\ ExpiredAttempt(t) \in AttemptRecord
         /\ SameAttempt(attempt[t], ExpiredAttempt(t))
         /\ Live(ExpiredAttempt(t)) <=> Live(attempt[t])
         /\ Executing(ExpiredAttempt(t)) => Executing(attempt[t])
         /\ Suspended(ExpiredAttempt(t)) => Suspended(attempt[t])
         /\ Quarantined(attempt[t]) => Quarantined(ExpiredAttempt(t))
         /\ ExpiredTask(t) \in TaskRecord
         /\ ExpiredTask(t).accepted = task[t].accepted
         /\ ExpiredTask(t).agent = task[t].agent
         /\ task[t].state # "absent" => ExpiredTask(t).state # "absent"
<1>1. attempt[t] \in AttemptRecord /\ task[t] \in TaskRecord
  BY DEF IInv, TypeOK
<1>2. Deadlined(t) \/ LeaseExpired(t) => Live(attempt[t])
  BY DEF Deadlined, OfAgents, LeaseExpired, IInv, LeaseOfCurrentSegment
<1> DEFINE i == [attempt[t] EXCEPT !.state = "interrupted"]
           n == [attempt[t] EXCEPT !.state = "needs_review"]
<1>3. /\ i \in AttemptRecord /\ SameAttempt(attempt[t], i) /\ i.state = "interrupted"
      /\ n \in AttemptRecord /\ SameAttempt(attempt[t], n) /\ n.state = "needs_review"
  BY <1>1 DEF AttemptRecord, SameAttempt
<1>4. /\ ExpiredAttempt(t) \in {attempt[t], i, n}
      /\ ExpiredAttempt(t) # attempt[t] => Live(attempt[t])
  BY <1>2 DEF ExpiredAttempt, Interrupted
<1>5. SameAttempt(attempt[t], attempt[t])
  BY DEF SameAttempt
<1>6. /\ ExpiredAttempt(t) \in AttemptRecord
      /\ SameAttempt(attempt[t], ExpiredAttempt(t))
  BY <1>1, <1>3, <1>4, <1>5
<1>7. /\ Live(ExpiredAttempt(t)) <=> Live(attempt[t])
      /\ Executing(ExpiredAttempt(t)) => Executing(attempt[t])
      /\ Suspended(ExpiredAttempt(t)) => Suspended(attempt[t])
      /\ Quarantined(attempt[t]) => Quarantined(ExpiredAttempt(t))
  BY <1>3, <1>4 DEF Live, Executing, Suspended, Quarantined
<1>8. /\ ExpiredTask(t) \in {task[t], [task[t] EXCEPT !.state = "interrupted"],
                             [task[t] EXCEPT !.state = "needs_review"]}
  BY DEF ExpiredTask
<1>9. ASSUME NEW s \in {"interrupted", "needs_review"}
      PROVE  /\ [task[t] EXCEPT !.state = s] \in TaskRecord
             /\ [task[t] EXCEPT !.state = s].state = s
             /\ [task[t] EXCEPT !.state = s].accepted = task[t].accepted
             /\ [task[t] EXCEPT !.state = s].agent = task[t].agent
  BY <1>1 DEF TaskRecord
<1>10. /\ ExpiredTask(t) \in TaskRecord
       /\ ExpiredTask(t).accepted = task[t].accepted
       /\ ExpiredTask(t).agent = task[t].agent
       /\ task[t].state # "absent" => ExpiredTask(t).state # "absent"
  <2>1. CASE ExpiredTask(t) = task[t]
    BY <1>1, <2>1
  <2>2. CASE ExpiredTask(t) = [task[t] EXCEPT !.state = "interrupted"]
    BY <1>9, <2>2
  <2>3. CASE ExpiredTask(t) = [task[t] EXCEPT !.state = "needs_review"]
    BY <1>9, <2>3
  <2> QED BY <1>8, <2>1, <2>2, <2>3
<1> QED BY <1>6, <1>7, <1>10

LEMMA OfferFacts ==
  ASSUME IInv, NEW taken \in SUBSET {u \in Task : Acceptable(u)}, NEW t \in Task
  PROVE  /\ Offered(t, taken) \in TaskRecord
         /\ task[t].state # "absent" => Offered(t, taken).state # "absent"
         /\ task[t].accepted => /\ Offered(t, taken).accepted
                                /\ Offered(t, taken).agent = task[t].agent
<1>1. ExpiredTask(t) \in TaskRecord
  BY ExpiryFacts
<1>2. CASE t \in taken
  <2> DEFINE a == primary[roleOf[t]]
             c == Accept(ExpiredTask(t), a)
  <2>1. a \in Agent /\ ~task[t].accepted
    BY <1>2, ExecutionAssumption DEF Acceptable, IInv, TypeOK, ExecutionAssumption
  <2>2. c \in TaskRecord
    BY <1>1, <2>1, Accepted DEF IInv
  <2>3. Offered(t, taken) = [c EXCEPT !.state = "queued"]
    BY <1>2 DEF Offered
  <2> HIDE DEF c
  <2>4. [c EXCEPT !.state = "queued"] \in TaskRecord
        /\ [c EXCEPT !.state = "queued"].state = "queued"
    BY <2>2 DEF TaskRecord
  <2> QED BY <2>1, <2>3, <2>4
<1>3. CASE t \notin taken
  BY <1>3, ExpiryFacts DEF Offered
<1> QED BY <1>2, <1>3

\* What a Tick does, in the terms of the invariant.
Permits(resumed, started, token) ==
  /\ resumed \in SUBSET Task /\ started \in SUBSET Task /\ resumed \cap started = {}
  /\ \A t \in resumed : /\ Suspended(attempt[t]) /\ Current(attempt[t])
                        /\ attempt'[t].state = "admitted" /\ attempt'[t].token = token[t]
                        /\ attempt'[t].agent = attempt[t].agent
                        /\ attempt'[t].binding = attempt[t].binding
  /\ \A t \in started : /\ ~Live(attempt[t])
                        /\ attempt'[t].state = "admitted" /\ attempt'[t].token = token[t]
                        /\ attempt'[t].agent \in Agent /\ reserved[attempt'[t].agent] = None
                        /\ agent[attempt'[t].agent].binding = attempt'[t].binding
                        /\ agent[attempt'[t].agent].presence # "revoked"
                        /\ \A p \in Path, q \in writes[t] : <<p, q>> \in Overlap
                                                            => held[p] = None
  /\ \A t, u \in started : t # u => attempt'[t].agent # attempt'[u].agent /\ ~Conflict(t, u)
  /\ \A t \in Task \ (resumed \cup started) :
       /\ SameAttempt(attempt[t], attempt'[t])
       /\ Live(attempt'[t]) <=> Live(attempt[t])
       /\ Executing(attempt'[t]) => Executing(attempt[t])
       /\ Suspended(attempt'[t]) => Suspended(attempt[t])
       /\ Quarantined(attempt[t]) => Quarantined(attempt'[t])
  /\ \A t \in Task : Live(attempt'[t]) =>
       task'[t].accepted /\ task'[t].state # "absent" /\ task'[t].agent = attempt'[t].agent
  /\ \A a \in Agent, t \in Task :
       reserved'[a] = t <=> \/ t \in started /\ attempt'[t].agent = a
                            \/ reserved[a] = t
  /\ \A p \in Path, t \in Task :
       held'[p] = t <=> \/ t \in started /\ p \in writes[t]
                        \/ held[p] = t
  /\ \A t \in Task : lease'[t] = IF t \in resumed \cup started THEN token[t] ELSE lease[t]
  /\ \A t, u \in resumed \cup started : token[t] = token[u] => t = u
  /\ \A t \in resumed \cup started : token[t] \in (fencing + 1)..fencing'
  /\ fencing' \in Nat /\ fencing' >= fencing
  /\ Cardinality(Leased') <= MaxParallel
  /\ UNCHANGED agent /\ TypeOK'

LEMMA PermitsKeeps ==
  ASSUME IInv, NEW resumed, NEW started, NEW token, Permits(resumed, started, token)
  PROVE  IInv' /\ Unrevived
<1> USE DEF IInv
<1> DEFINE fresh == resumed \cup started
<1>1. \A t \in Task : Live(attempt'[t]) <=> Live(attempt[t]) \/ t \in started
  BY DEF Permits, Suspended, Live
<1>2. \A t \in Task : Live(attempt[t]) => attempt'[t].agent = attempt[t].agent
                                          /\ attempt'[t].binding = attempt[t].binding
  BY DEF Permits, SameAttempt
<1>3. \A t \in fresh : /\ Executing(attempt'[t]) /\ ~Suspended(attempt'[t])
                       /\ lease'[t] = token[t] /\ attempt'[t].token = token[t]
                       /\ token[t] > fencing /\ token[t] \in Nat /\ token[t] <= fencing'
  BY DEF Permits, TypeOK, Executing, Suspended
<1>4. \A t \in Task \ fresh : lease'[t] = lease[t] /\ SameAttempt(attempt[t], attempt'[t])
  BY DEF Permits
<1>5. ReservedIffLive'
  <2> SUFFICES ASSUME NEW a \in Agent, NEW t \in Task
               PROVE  reserved'[a] = t <=> Live(attempt'[t]) /\ attempt'[t].agent = a
    BY DEF ReservedIffLive
  <2>1. reserved[a] = t <=> Live(attempt[t]) /\ attempt[t].agent = a
    BY DEF ReservedIffLive
  <2>2. reserved'[a] = t <=> \/ t \in started /\ attempt'[t].agent = a
                             \/ reserved[a] = t
    BY DEF Permits
  <2>3. t \in started => ~Live(attempt[t])
    BY DEF Permits
  <2> QED BY <1>1, <1>2, <2>1, <2>2, <2>3
<1>6. LeaseOfCurrentSegment'
  <2> SUFFICES ASSUME NEW t \in Task
               PROVE /\ Executing(attempt'[t]) => lease'[t] = attempt'[t].token /\ lease'[t] # 0
                     /\ lease'[t] # 0 => /\ Live(attempt'[t]) /\ lease'[t] = attempt'[t].token
                                         /\ ~Suspended(attempt'[t])
    BY DEF LeaseOfCurrentSegment
  <2>1. CASE t \in fresh
    <3>1. Live(attempt'[t]) /\ fencing \in Nat
      BY <1>3, <2>1 DEF Executing, Live, TypeOK
    <3> QED BY <1>3, <2>1, <3>1
  <2>2. CASE t \notin fresh
    <3>1. /\ Live(attempt'[t]) <=> Live(attempt[t])
          /\ Executing(attempt'[t]) => Executing(attempt[t])
          /\ Suspended(attempt'[t]) => Suspended(attempt[t])
      BY <2>2 DEF Permits
    <3> QED BY <1>4, <2>2, <3>1 DEF LeaseOfCurrentSegment, SameAttempt
  <2> QED BY <2>1, <2>2
<1>7. PathsExclusive'
  <2>1. ASSUME NEW t \in Task, NEW p \in Path
        PROVE  held'[p] = t <=> Live(attempt'[t]) /\ p \in writes[t]
    <3>1. held[p] = t <=> Live(attempt[t]) /\ p \in writes[t]
      BY DEF PathsExclusive
    <3>2. held'[p] = t <=> \/ t \in started /\ p \in writes[t]
                           \/ held[p] = t
      BY DEF Permits
    <3>3. t \in started => ~Live(attempt[t])
      BY DEF Permits
    <3> QED BY <1>1, <3>1, <3>2, <3>3
  <2>2. ASSUME NEW t \in started, NEW u \in Task, Live(attempt[u])
        PROVE  ~Conflict(t, u) /\ ~Conflict(u, t)
    <3>1. t \in Task /\ writes[t] \in SUBSET Path /\ writes[u] \in SUBSET Path /\ u # None
      BY ExecutionAssumption DEF Permits, ExecutionAssumption
    <3>2. \A p \in writes[u] : held[p] = u
      BY <2>2, <3>1 DEF PathsExclusive
    <3>3. \A p \in writes[u], q \in writes[t] : <<p, q>> \notin Overlap
      <4> SUFFICES ASSUME NEW p \in writes[u], NEW q \in writes[t], <<p, q>> \in Overlap
                   PROVE  FALSE
        OBVIOUS
      <4>1. p \in Path /\ held[p] = u
        BY <3>1, <3>2
      <4>2. held[p] = None
        BY <4>1 DEF Permits
      <4> QED BY <3>1, <4>1, <4>2
    <3>4. \A p \in writes[u], q \in writes[t] : <<q, p>> \notin Overlap
      BY <3>1, <3>3, ExecutionAssumption DEF ExecutionAssumption
    <3> QED BY <3>3, <3>4 DEF Conflict
  <2>3. ASSUME NEW t \in Task, NEW u \in Task, u # t, Live(attempt'[t]), Live(attempt'[u])
        PROVE  ~Conflict(t, u)
    <3>1. CASE t \in started /\ u \in started
      BY <2>3, <3>1 DEF Permits
    <3>2. CASE t \in started /\ u \notin started
      BY <1>1, <2>2, <2>3, <3>2
    <3>3. CASE t \notin started /\ u \in started
      BY <1>1, <2>2, <2>3, <3>3
    <3>4. CASE t \notin started /\ u \notin started
      BY <1>1, <2>3, <3>4 DEF PathsExclusive
    <3> QED BY <3>1, <3>2, <3>3, <3>4
  <2>4. \A t, u \in Task : Conflict(t, u)' <=> Conflict(t, u)
    BY DEF Conflict
  <2> QED BY <2>1, <2>3, <2>4 DEF PathsExclusive
<1>8. ExecutesForCurrentIdentity'
  <2> SUFFICES ASSUME NEW t \in Task
               PROVE /\ Executing(attempt'[t]) \/ Suspended(attempt'[t]) => Current(attempt[t])'
                     /\ Live(attempt'[t]) => attempt'[t].agent # None
                                             /\ agent'[attempt'[t].agent].presence # "revoked"
    BY DEF ExecutesForCurrentIdentity, Revoked
  <2>0. UNCHANGED agent
    BY DEF Permits
  <2>1. CASE t \in started
    <3>1. /\ attempt'[t].agent \in Agent
          /\ agent[attempt'[t].agent].binding = attempt'[t].binding
          /\ agent[attempt'[t].agent].presence # "revoked"
      BY <2>1 DEF Permits
    <3>2. attempt'[t].agent # None
      BY <3>1, ExecutionAssumption DEF ExecutionAssumption
    <3> QED BY <2>0, <3>1, <3>2 DEF Current
  <2>2. CASE t \in resumed \ started
    <3>1. Live(attempt[t]) /\ Current(attempt[t])
      BY <2>2 DEF Permits, Suspended, Live
    <3>2. attempt'[t].agent = attempt[t].agent /\ attempt'[t].binding = attempt[t].binding
      BY <1>2, <3>1
    <3>3. Current(attempt[t])'
      BY <2>0, <3>1, <3>2 DEF Current
    <3>4. attempt[t].agent # None /\ agent[attempt[t].agent].presence # "revoked"
      BY <3>1, LiveFacts DEF Current
    <3> QED BY <2>0, <3>2, <3>3, <3>4
  <2>3. CASE t \notin fresh
    <3>1. /\ Live(attempt'[t]) <=> Live(attempt[t])
          /\ Executing(attempt'[t]) => Executing(attempt[t])
          /\ Suspended(attempt'[t]) => Suspended(attempt[t])
          /\ SameAttempt(attempt[t], attempt'[t])
      BY <2>3 DEF Permits
    <3> QED BY <2>0, <3>1 DEF ExecutesForCurrentIdentity, SameAttempt, Current, Revoked
  <2> QED BY <2>1, <2>2, <2>3
<1>9. Fenced'
  <2> SUFFICES ASSUME NEW t \in Task, Live(attempt'[t])
               PROVE /\ attempt'[t].token \in 1..fencing'
                     /\ \A u \in Task : Live(attempt'[u]) /\ attempt'[u].token = attempt'[t].token
                                        => u = t
    BY DEF Fenced
  <2>0. fencing \in Nat /\ fencing' \in Nat /\ fencing' >= fencing
    BY DEF Permits, TypeOK
  <2>1. \A u \in Task \ fresh : Live(attempt'[u]) =>
          attempt'[u].token = attempt[u].token /\ Live(attempt[u])
          /\ attempt[u].token \in 1..fencing
    BY <1>4 DEF Permits, SameAttempt, Fenced
  <2>2. attempt'[t].token \in 1..fencing'
    BY <1>3, <2>0, <2>1
  <2>3. ASSUME NEW u \in Task, Live(attempt'[u]), attempt'[u].token = attempt'[t].token
        PROVE  u = t
    <3>1. CASE t \in fresh /\ u \in fresh
      BY <1>3, <2>3, <3>1 DEF Permits
    <3>2. CASE t \notin fresh /\ u \notin fresh
      BY <2>1, <2>3, <3>2 DEF Fenced
    <3>3. CASE t \in fresh /\ u \notin fresh
      BY <1>3, <2>0, <2>1, <2>3, <3>3
    <3>4. CASE t \notin fresh /\ u \in fresh
      BY <1>3, <2>0, <2>1, <2>3, <3>4
    <3> QED BY <3>1, <3>2, <3>3, <3>4
  <2> QED BY <2>2, <2>3
<1>10. OnTarget'
  BY DEF Permits, OnTarget
<1>11. Unrevived
  BY DEF Permits, Unrevived, Suspended, Quarantined, Live
<1>12. TypeOK' /\ Capacity'
  BY DEF Permits, Capacity
<1> QED BY <1>5, <1>6, <1>7, <1>8, <1>9, <1>10, <1>11, <1>12

LEMMA ContinuedFacts ==
  ASSUME NEW x \in AttemptRecord, NEW k \in Nat
  PROVE  /\ Continued(x, k) \in AttemptRecord
         /\ Continued(x, k).state = "admitted" /\ Continued(x, k).token = k
         /\ Continued(x, k).agent = x.agent /\ Continued(x, k).binding = x.binding
<1> DEFINE x1 == [x EXCEPT !.state = "admitted"]
           x2 == [x1 EXCEPT !.token = k]
           x3 == [x2 EXCEPT !.receipt = "dispatch_intent"]
           x4 == [x3 EXCEPT !.yield = FALSE]
           x5 == [x4 EXCEPT !.lapsed = FALSE]
<1>1. /\ x1 \in AttemptRecord /\ x1.state = "admitted"
      /\ x1.agent = x.agent /\ x1.binding = x.binding
  BY DEF AttemptRecord
<1>2. /\ x2 \in AttemptRecord /\ x2.state = "admitted" /\ x2.token = k
      /\ x2.agent = x.agent /\ x2.binding = x.binding
  BY <1>1 DEF AttemptRecord
<1>3. /\ x3 \in AttemptRecord /\ x3.state = "admitted" /\ x3.token = k
      /\ x3.agent = x.agent /\ x3.binding = x.binding
  BY <1>2 DEF AttemptRecord
<1>4. /\ x4 \in AttemptRecord /\ x4.state = "admitted" /\ x4.token = k
      /\ x4.agent = x.agent /\ x4.binding = x.binding
  BY <1>3 DEF AttemptRecord
<1>5. /\ x5 \in AttemptRecord /\ x5.state = "admitted" /\ x5.token = k
      /\ x5.agent = x.agent /\ x5.binding = x.binding
  BY <1>4 DEF AttemptRecord
<1>6. Continued(x, k) = x5
  BY DEF Continued
<1> HIDE DEF x1, x2, x3, x4, x5
<1> QED BY <1>5, <1>6

LEMMA TickPermits ==
  ASSUME IInv,
         NEW resumed \in SUBSET {t \in Task : Resumable(t)},
         NEW taken \in SUBSET {t \in Task : Acceptable(t)},
         NEW started \in SUBSET ({t \in Task : Pending(t)} \ resumed),
         NEW refused \in SUBSET ({t \in Task : Pending(t)} \ resumed),
         Dispatchable(taken, started, refused), Fits(resumed, started),
         NEW token \in Tokens(resumed \cup started),
         Granted(taken, resumed, started, refused, token),
         UNCHANGED <<agent, primary>>
  PROVE  Permits(resumed, started, token)
<1> USE DEF IInv
<1> DEFINE fresh == resumed \cup started
<1>1. /\ resumed \in SUBSET Task /\ started \in SUBSET Task /\ refused \in SUBSET Task
      /\ resumed \cap started = {} /\ resumed \cap refused = {} /\ started \cap refused = {}
  BY DEF Dispatchable
<1>2. fencing \in Nat /\ IsFiniteSet(fresh) /\ Cardinality(fresh) \in Nat
  BY <1>1, ExecutionAssumption, FS_Subset, FS_CardinalityType, fresh \subseteq Task
  DEF TypeOK, ExecutionAssumption
<1>3. /\ fencing' = fencing + Cardinality(fresh)
      /\ fencing' \in Nat /\ fencing' >= fencing
  <2>1. fencing' = fencing + Cardinality(fresh)
    BY DEF Granted
  <2> QED BY <1>2, <2>1
<1>4. /\ \A t \in fresh : token[t] \in (fencing + 1)..fencing' /\ token[t] \in Nat
      /\ \A t, u \in fresh : token[t] = token[u] => t = u
  BY <1>2, <1>3 DEF Tokens
<1> HIDE DEF fresh
<1>5. ASSUME NEW t \in started
      PROVE  /\ ~Live(attempt[t])
             /\ attempt'[t] = NewAttempt(Offered(t, taken), token[t])
             /\ attempt'[t].state = "admitted" /\ attempt'[t].token = token[t]
             /\ attempt'[t].agent = Offered(t, taken).agent
             /\ attempt'[t].binding = Offered(t, taken).binding
             /\ Offered(t, taken).agent \in Agent /\ Offered(t, taken) \in TaskRecord
             /\ attempt'[t] \in AttemptRecord
  <2>1. t \in Task /\ Offered(t, taken) \in TaskRecord
    BY <1>1, OfferFacts
  <2>2. Startable(t, Offered(t, taken)) /\ Offered(t, taken).agent # None
    BY DEF Dispatchable, Startable, Current
  <2>3. Offered(t, taken).agent \in Agent /\ Offered(t, taken).binding \in Nat
    BY <2>1, <2>2 DEF TaskRecord
  <2>4. attempt'[t] = NewAttempt(Offered(t, taken), token[t])
    BY <2>1 DEF Granted
  <2>5. ~Live(attempt[t])
    <3> SUFFICES ASSUME Live(attempt[t]) PROVE FALSE
      OBVIOUS
    <3>1. Offered(t, taken).agent = attempt[t].agent /\ attempt[t].agent \in Agent
      BY <2>1, LiveFacts, OfferFacts
    <3>2. reserved[attempt[t].agent] = t /\ t # None
      BY <2>1, <3>1, ExecutionAssumption DEF ReservedIffLive, ExecutionAssumption
    <3> QED BY <2>2, <3>1, <3>2 DEF Startable
  <2>6. token[t] \in Nat
    BY <1>4 DEF fresh
  <2>7. NewAttempt(Offered(t, taken), token[t]) \in AttemptRecord
    BY <2>3, <2>6 DEF NewAttempt, AttemptRecord
  <2>8. /\ attempt'[t].state = "admitted" /\ attempt'[t].token = token[t]
        /\ attempt'[t].agent = Offered(t, taken).agent
        /\ attempt'[t].binding = Offered(t, taken).binding
    BY <2>4 DEF NewAttempt
  <2> QED BY <2>1, <2>3, <2>4, <2>5, <2>7, <2>8
<1>6. ASSUME NEW t \in resumed
      PROVE  /\ Suspended(attempt[t]) /\ Current(attempt[t])
             /\ attempt'[t].state = "admitted" /\ attempt'[t].token = token[t]
             /\ attempt'[t].agent = attempt[t].agent
             /\ attempt'[t].binding = attempt[t].binding
             /\ attempt'[t] \in AttemptRecord
  <2>1. t \in Task /\ t \notin started /\ Resumable(t)
    BY <1>1
  <2>2. Suspended(attempt[t]) /\ Current(attempt[t])
    BY <2>1, ExpiryFacts DEF Resumable
  <2> DEFINE x == ExpiredAttempt(t)
  <2>3. x \in AttemptRecord /\ SameAttempt(attempt[t], x) /\ token[t] \in Nat
    BY <2>1, <1>4, ExpiryFacts DEF fresh
  <2>4. attempt'[t] = Continued(x, token[t])
    BY <2>1 DEF Granted
  <2> HIDE DEF x
  <2>5. /\ Continued(x, token[t]) \in AttemptRecord
        /\ Continued(x, token[t]).state = "admitted" /\ Continued(x, token[t]).token = token[t]
        /\ Continued(x, token[t]).agent = x.agent /\ Continued(x, token[t]).binding = x.binding
    BY <2>3, ContinuedFacts
  <2> QED BY <2>2, <2>3, <2>4, <2>5 DEF SameAttempt
<1>7. ASSUME NEW t \in Task, t \notin fresh
      PROVE  /\ attempt'[t] \in AttemptRecord
             /\ SameAttempt(attempt[t], attempt'[t])
             /\ Live(attempt'[t]) <=> Live(attempt[t])
             /\ Executing(attempt'[t]) => Executing(attempt[t])
             /\ Suspended(attempt'[t]) => Suspended(attempt[t])
             /\ Quarantined(attempt[t]) => Quarantined(attempt'[t])
  <2>1. attempt'[t] = ExpiredAttempt(t)
    BY <1>7 DEF Granted, fresh
  <2> QED BY <2>1, ExpiryFacts
<1>8. ASSUME NEW t \in Task
      PROVE  /\ task'[t] \in TaskRecord
             /\ Live(attempt'[t]) => /\ task'[t].accepted /\ task'[t].state # "absent"
                                     /\ task'[t].agent = attempt'[t].agent
  <2> DEFINE o == Offered(t, taken)
  <2>1. /\ o \in TaskRecord
        /\ task[t].state # "absent" => o.state # "absent"
        /\ task[t].accepted => o.accepted /\ o.agent = task[t].agent
    BY OfferFacts
  <2>2. CASE t \in started
    <3>1. task'[t] = [o EXCEPT !.state = "dispatching", !.tries = o.tries + 1]
      BY <1>1, <2>2 DEF Granted
    <3>2. o.accepted /\ attempt'[t].agent = o.agent
      BY <1>5, <2>2 DEF Dispatchable, Startable
    <3> DEFINE d == [o EXCEPT !.state = "dispatching"]
    <3> HIDE DEF o
    <3>3. d \in TaskRecord /\ d.state = "dispatching" /\ d.accepted = o.accepted
          /\ d.agent = o.agent /\ d.tries = o.tries
      BY <2>1 DEF TaskRecord
    <3>4. task'[t] = [d EXCEPT !.tries = d.tries + 1]
      BY <3>1, <3>3
    <3> HIDE DEF d
    <3>5. /\ [d EXCEPT !.tries = d.tries + 1] \in TaskRecord
          /\ [d EXCEPT !.tries = d.tries + 1].state = "dispatching"
          /\ [d EXCEPT !.tries = d.tries + 1].accepted = o.accepted
          /\ [d EXCEPT !.tries = d.tries + 1].agent = o.agent
      BY <3>3 DEF TaskRecord
    <3> QED BY <3>2, <3>4, <3>5
  <2>3. CASE t \in resumed
    <3> DEFINE e == ExpiredTask(t)
    <3>1. task'[t] = [e EXCEPT !.state = "dispatching"]
      BY <1>1, <2>3 DEF Granted
    <3>2. Live(attempt[t]) /\ attempt'[t].agent = attempt[t].agent
      BY <1>6, <2>3 DEF Suspended, Live
    <3>3. e \in TaskRecord /\ e.accepted /\ e.agent = attempt'[t].agent
      BY <3>2, ExpiryFacts, LiveFacts
    <3> HIDE DEF e
    <3> QED BY <3>1, <3>3 DEF TaskRecord
  <2>4. CASE t \notin fresh
    <3>1. task'[t] \in {o, [o EXCEPT !.state = "needs_review"]}
      BY <2>4 DEF Granted, fresh
    <3>2. Live(attempt'[t]) => /\ task[t].accepted /\ task[t].state # "absent"
                               /\ task[t].agent = attempt'[t].agent
      BY <1>7, <2>4, LiveFacts DEF SameAttempt
    <3> HIDE DEF o
    <3>3. /\ [o EXCEPT !.state = "needs_review"] \in TaskRecord
          /\ [o EXCEPT !.state = "needs_review"].state = "needs_review"
          /\ [o EXCEPT !.state = "needs_review"].accepted = o.accepted
          /\ [o EXCEPT !.state = "needs_review"].agent = o.agent
      BY <2>1 DEF TaskRecord
    <3> QED BY <2>1, <3>1, <3>2, <3>3
  <2> QED BY <2>2, <2>3, <2>4 DEF fresh
<1>9. ASSUME NEW a \in Agent
      PROVE  /\ reserved'[a] \in Task \cup {None}
             /\ \A t \in Task : reserved'[a] = t <=> \/ t \in started /\ attempt'[t].agent = a
                                                     \/ reserved[a] = t
  <2>1. reserved[a] \in Task \cup {None} /\ None \notin Task
    BY ExecutionAssumption DEF TypeOK, ExecutionAssumption
  <2>2. CASE \E s \in started : Offered(s, taken).agent = a
    <3>1. PICK s \in started : /\ s = CHOOSE t \in started : Offered(t, taken).agent = a
                               /\ Offered(s, taken).agent = a
      BY <2>2
    <3>2. reserved'[a] = s /\ s \in Task
      BY <1>1, <2>2, <3>1 DEF Granted
    <3>3. reserved[a] = None
      BY <3>1 DEF Dispatchable, Startable
    <3>4. \A t \in started : Offered(t, taken).agent = a => t = s
      BY <3>1 DEF Dispatchable
    <3> QED BY <1>1, <1>5, <2>1, <3>1, <3>2, <3>3, <3>4
  <2>3. CASE ~\E s \in started : Offered(s, taken).agent = a
    <3>1. reserved'[a] = reserved[a]
      BY <2>3 DEF Granted
    <3> QED BY <1>5, <2>1, <2>3, <3>1
  <2> QED BY <2>2, <2>3
<1>10. ASSUME NEW p \in Path
       PROVE  /\ held'[p] \in Task \cup {None}
              /\ \A t \in Task : held'[p] = t <=> (t \in started /\ p \in writes[t]) \/ held[p] = t
  <2>1. held[p] \in Task \cup {None} /\ None \notin Task
    BY ExecutionAssumption DEF TypeOK, ExecutionAssumption
  <2>2. CASE \E s \in started : p \in writes[s]
    <3>1. PICK s \in started : /\ s = CHOOSE t \in started : p \in writes[t]
                               /\ p \in writes[s]
      BY <2>2
    <3>2. held'[p] = s /\ s \in Task
      BY <1>1, <2>2, <3>1 DEF Granted
    <3>3. <<p, p>> \in Overlap
      BY ExecutionAssumption DEF ExecutionAssumption
    <3>4. held[p] = None
      BY <3>1, <3>3 DEF Dispatchable, Startable
    <3>5. \A t \in started : p \in writes[t] => t = s
      BY <3>1, <3>3 DEF Dispatchable, Conflict
    <3> QED BY <1>1, <2>1, <3>1, <3>2, <3>4, <3>5
  <2>3. CASE ~\E s \in started : p \in writes[s]
    <3>1. held'[p] = held[p]
      BY <2>3 DEF Granted
    <3> QED BY <2>1, <2>3, <3>1
  <2> QED BY <2>2, <2>3
<1>11. \A t \in Task : lease'[t] = IF t \in fresh THEN token[t] ELSE lease[t]
  BY DEF Granted, fresh
<1>12. TypeOK'
  <2>1. \A t \in Task : attempt'[t] \in AttemptRecord
    BY <1>5, <1>6, <1>7 DEF fresh
  <2>2. \A t \in Task : lease'[t] \in Nat
    BY <1>4, <1>11 DEF TypeOK
  <2> QED BY <1>3, <1>8, <1>9, <1>10, <2>1, <2>2 DEF Granted, TypeOK
<1>13. Cardinality(Leased') <= MaxParallel
  <2>1. Leased' \subseteq Leased \cup fresh
    BY <1>11 DEF Leased
  <2>2. /\ IsFiniteSet(Leased) /\ IsFiniteSet(resumed) /\ IsFiniteSet(started)
    BY <1>1, FS_Subset, ExecutionAssumption, Leased \subseteq Task DEF Leased, ExecutionAssumption
  <2>3. /\ Cardinality(Leased) \in Nat /\ Cardinality(resumed) \in Nat
        /\ Cardinality(started) \in Nat
    BY <2>2, FS_CardinalityType
  <2>4. CASE fresh = {}
    <3>1. Leased' \subseteq Leased
      BY <2>1, <2>4
    <3>2. IsFiniteSet(Leased') /\ Cardinality(Leased') <= Cardinality(Leased)
      BY <2>2, <3>1, FS_Subset
    <3>3. Cardinality(Leased') \in Nat
      BY <3>2, FS_CardinalityType
    <3> QED BY <2>3, <3>2, <3>3, ExecutionAssumption DEF Capacity, ExecutionAssumption
  <2>5. CASE fresh # {}
    <3>1. Cardinality(Leased) + Cardinality(resumed) + Cardinality(started) <= MaxParallel
      BY <2>5 DEF Fits, fresh
    <3>2. /\ IsFiniteSet(fresh)
          /\ Cardinality(fresh)
             = Cardinality(resumed) + Cardinality(started) - Cardinality(resumed \cap started)
      BY <2>2, FS_Union DEF fresh
    <3>3. /\ IsFiniteSet(Leased \cup fresh)
          /\ Cardinality(Leased \cup fresh)
             = Cardinality(Leased) + Cardinality(fresh) - Cardinality(Leased \cap fresh)
      BY <2>2, <3>2, FS_Union
    <3>4. Cardinality(resumed \cap started) \in Nat /\ Cardinality(Leased \cap fresh) \in Nat
      BY <2>2, FS_Intersection, FS_CardinalityType
    <3>5. /\ IsFiniteSet(Leased') /\ Cardinality(Leased') <= Cardinality(Leased \cup fresh)
      BY <2>1, <3>3, FS_Subset
    <3>6. Cardinality(Leased') \in Nat
      BY <3>5, FS_CardinalityType
    <3> QED BY <1>2, <2>3, <3>1, <3>2, <3>3, <3>4, <3>5, <3>6, ExecutionAssumption
            DEF ExecutionAssumption
  <2> QED BY <2>4, <2>5
<1>14. \A t \in started :
         /\ attempt'[t].agent \in Agent /\ reserved[attempt'[t].agent] = None
         /\ agent[attempt'[t].agent].binding = attempt'[t].binding
         /\ agent[attempt'[t].agent].presence # "revoked"
         /\ \A p \in Path, q \in writes[t] : <<p, q>> \in Overlap => held[p] = None
  BY <1>5 DEF Dispatchable, Startable, Current, Online
<1>15. \A t, u \in started : t # u => attempt'[t].agent # attempt'[u].agent /\ ~Conflict(t, u)
  BY <1>5 DEF Dispatchable
<1> QED BY <1>1, <1>3, <1>4, <1>5, <1>6, <1>7, <1>8, <1>9, <1>10, <1>11, <1>12, <1>13, <1>14,
            <1>15 DEF Permits, fresh

-----------------------------------------------------------------------------
(* The invariant, the steps, and what follows from them.                   *)

LEMMA InitKeeps ==
  ASSUME Init
  PROVE  IInv
<1> USE ExecutionAssumption DEF ExecutionAssumption
<1>1. NoAttempt \in AttemptRecord /\ ~Live(NoAttempt) /\ ~Executing(NoAttempt)
      /\ ~Suspended(NoAttempt)
  BY DEF NoAttempt, AttemptRecord, Live, Executing, Suspended
<1>2. \A t \in Task : attempt[t] = NoAttempt /\ lease[t] = 0
  BY DEF Init
<1>3. TypeOK
  <2>1. \A t \in Task : task[t] \in TaskRecord
    BY DEF Init, TaskRecord
  <2>2. agent \in [Agent -> AgentRecord]
    BY DEF Init, AgentRecord
  <2> QED BY <1>1, <2>1, <2>2 DEF Init, TypeOK
<1>4. ReservedIffLive /\ PathsExclusive
  BY <1>1, <1>2 DEF Init, ReservedIffLive, PathsExclusive
<1>5. LeaseOfCurrentSegment /\ ExecutesForCurrentIdentity /\ Fenced /\ OnTarget
  BY <1>1, <1>2 DEF LeaseOfCurrentSegment, ExecutesForCurrentIdentity, Fenced, OnTarget
<1>6. Capacity
  <2>1. Leased = {}
    BY <1>2 DEF Leased
  <2> QED BY <2>1, FS_EmptySet DEF Capacity
<1> QED BY <1>3, <1>4, <1>5, <1>6 DEF IInv

\* Every step either withdraws or permits.
LEMMA StepShape ==
  ASSUME IInv, Next
  PROVE  Withdraws \/ \E resumed, started, token : Permits(resumed, started, token)
<1>1. CASE Tick
  <2>1. PICK resumed \in SUBSET {t \in Task : Resumable(t)},
             taken \in SUBSET {t \in Task : Acceptable(t)} :
          \E started, refused \in SUBSET ({t \in Task : Pending(t)} \ resumed) :
            /\ Dispatchable(taken, started, refused) /\ Fits(resumed, started)
            /\ \E token \in Tokens(resumed \cup started) :
                 Granted(taken, resumed, started, refused, token)
            /\ UNCHANGED <<agent, primary>>
    BY <1>1 DEF Tick
  <2>2. PICK started \in SUBSET ({t \in Task : Pending(t)} \ resumed),
             refused \in SUBSET ({t \in Task : Pending(t)} \ resumed) :
          /\ Dispatchable(taken, started, refused) /\ Fits(resumed, started)
          /\ \E token \in Tokens(resumed \cup started) :
               Granted(taken, resumed, started, refused, token)
          /\ UNCHANGED <<agent, primary>>
    BY <2>1
  <2>3. PICK token \in Tokens(resumed \cup started) :
          Granted(taken, resumed, started, refused, token)
    BY <2>2
  <2>4. Permits(resumed, started, token)
    BY <2>2, <2>3, TickPermits
  <2> QED BY <2>4
<1>2. CASE Restart
  BY <1>2, RestartWithdraws
<1>3. ASSUME NEW t \in Task, Event(t)
      PROVE  Withdraws
  BY <1>3, ReceiptWithdraws, YieldWithdraws, ResultProposedWithdraws, SettledFailedWithdraws,
     SettledSuspendedWithdraws, SettledMissingWithdraws, SettledCompletedWithdraws,
     DeferredWithdraws DEF Event
<1>4. ASSUME NEW t \in Task, Operation(t)
      PROVE  Withdraws
  BY <1>4, CreateTaskWithdraws, TaskCancelWithdraws, TaskRetryWithdraws, TaskRecoverWithdraws,
     ReconcileWithdraws DEF Operation
<1>5. ASSUME NEW t \in Task, Stopped(t) \/ DeadlinePasses(t) \/ LeaseLapses(t)
      PROVE  Withdraws
  BY <1>5, StoppedWithdraws, DeadlinePassesWithdraws, LeaseLapsesWithdraws
<1>6. ASSUME NEW a \in Agent, Identity(a)
      PROVE  Withdraws
  BY <1>6, RegisterWithdraws, HeartbeatWithdraws, SilentWithdraws, ReleaseRuntimeWithdraws,
     InterruptReportWithdraws DEF Identity
<1>7. ASSUME NEW r \in Role, ReleasePrimary(r) \/ \E b \in Agent : Promote(r, b)
      PROVE  Withdraws
  BY <1>7, ReleasePrimaryWithdraws, PromoteWithdraws
<1> QED BY <1>1, <1>2, <1>3, <1>4, <1>5, <1>6, <1>7 DEF Next

\* A step that touches nothing withdraws, too.
LEMMA StutterWithdraws ==
  ASSUME IInv, UNCHANGED vars
  PROVE  Withdraws
<1>1. UNCHANGED <<agent, primary, task, attempt, reserved, lease, held, fencing>>
  BY DEF vars
<1>2. TypeOK'
  BY <1>1 DEF IInv, TypeOK
<1> QED BY <1>1, <1>2, LiveFacts, AttemptsStay

LEMMA StepKeeps ==
  ASSUME IInv, [Next]_vars
  PROVE  IInv' /\ Unrevived
<1>1. Withdraws \/ \E resumed, started, token : Permits(resumed, started, token)
  BY StepShape, StutterWithdraws
<1>2. CASE Withdraws
  BY <1>2, WithdrawsKeeps DEF Withdraws
<1>3. CASE \E resumed, started, token : Permits(resumed, started, token)
  BY <1>3, PermitsKeeps
<1> QED BY <1>1, <1>2, <1>3

\* The strengthened invariant of every behaviour.
THEOREM Invariant == Spec => []IInv
<1>1. Init => IInv
  BY InitKeeps
<1>2. IInv /\ [Next]_vars => IInv'
  BY StepKeeps
<1> QED BY <1>1, <1>2, PTL DEF Spec

\* Type correctness of the agents, Tasks, Attempts, leases and reservations.
THEOREM Typing == Spec => []TypeOK
<1>1. IInv => TypeOK
  BY DEF IInv
<1> QED BY <1>1, Invariant, PTL

\* agent_reservations agrees with the Attempts, whatever fails.
THEOREM ReservationsAgree == Spec => []ReservedIffLive
<1>1. IInv => ReservedIffLive
  BY DEF IInv
<1> QED BY <1>1, Invariant, PTL

\* execution_leases holds the tokens of the segments that may execute.
THEOREM LeasesAgree == Spec => []LeaseOfCurrentSegment
<1>1. IInv => LeaseOfCurrentSegment
  BY DEF IInv
<1> QED BY <1>1, Invariant, PTL

\* write_reservations keeps the paths of unreleased Attempts apart.
THEOREM PathsApart == Spec => []PathsExclusive
<1>1. IInv => PathsExclusive
  BY DEF IInv
<1> QED BY <1>1, Invariant, PTL

\* No Attempt executes for an identity its agent has given up.
THEOREM CurrentIdentity == Spec => []ExecutesForCurrentIdentity
<1>1. IInv => ExecutesForCurrentIdentity
  BY DEF IInv
<1> QED BY <1>1, Invariant, PTL

\* A quarantined Attempt is released or stays quarantined.
THEOREM Quarantine == Spec => NoRevival
<1>1. IInv /\ [Next]_vars
      => [\A t \in Task : Quarantined(attempt[t]) =>
            Quarantined(attempt'[t]) \/ ~Live(attempt'[t])]_vars
  BY StepKeeps DEF Unrevived
<1> QED BY <1>1, Invariant, PTL DEF Spec, NoRevival

-----------------------------------------------------------------------------
(* Refinement.                                                             *)

\* Grants counts with an instance of Cardinality of its own.
LEMMA SameCardinality ==
  ASSUME NEW S
  PROVE  Grants!Cardinality(S) = Cardinality(S)
BY DEF Grants!Cardinality, Cardinality

LEMMA GrantsInit ==
  ASSUME Init
  PROVE  Grants!Init
BY DEF Init, Grants!Init

\* What a step must show of reservations and leases to be one of Grants.
LEMMA GrantsShape ==
  ASSUME IInv, IInv', fencing' >= fencing,
         \A a \in Agent : reserved'[a] # reserved[a]
                          => reserved[a] = None \/ reserved'[a] = None,
         \A t \in Task : \/ lease'[t] \in {0, lease[t]}
                         \/ lease[t] = 0 /\ lease'[t] > fencing /\ lease'[t] <= fencing'
  PROVE  Grants!Next
<1> USE DEF IInv
<1>1. Grants!Assignment
  <2>1. ASSUME NEW c \in Agent, NEW d \in Agent, reserved'[c] = reserved'[d], reserved'[c] # None
        PROVE  c = d
    <3>1. reserved'[c] \in Task
      BY <2>1 DEF TypeOK
    <3> QED BY <2>1, <3>1 DEF ReservedIffLive
  <2> QED BY <2>1 DEF Grants!Assignment, TypeOK
<1>2. Grants!Permission
  <2>1. ASSUME NEW v \in Task, NEW w \in Task, lease'[v] = lease'[w], lease'[v] # 0
        PROVE  v = w
    BY <2>1 DEF LeaseOfCurrentSegment, Fenced
  <2>2. ASSUME NEW w \in Task, lease'[w] # 0
        PROVE  \E c \in Agent : reserved'[c] = w
    <3>1. Live(attempt'[w])
      BY <2>2 DEF LeaseOfCurrentSegment
    <3>2. attempt'[w].agent \in Agent
      BY <3>1 DEF TypeOK, AttemptRecord, ExecutesForCurrentIdentity
    <3> QED BY <3>1, <3>2 DEF ReservedIffLive
  <2>3. Cardinality({w \in Task : lease'[w] # 0}) <= MaxParallel
    BY DEF Capacity, Leased
  <2>4. Grants!Cardinality(Grants!InForce(lease')) <= MaxParallel
    BY <2>3, SameCardinality DEF Grants!InForce
  <2> QED BY <2>1, <2>2, <2>4 DEF Grants!Permission, TypeOK
<1> QED BY <1>1, <1>2 DEF Grants!Next

LEMMA GrantsStep ==
  ASSUME IInv, [Next]_vars
  PROVE  Grants!Next
<1>1. IInv'
  BY StepKeeps
<1>2. CASE Withdraws
  <2>1. fencing' >= fencing
    BY <1>2 DEF Withdraws, IInv, TypeOK
  <2>2. \A a \in Agent : reserved'[a] # reserved[a] => reserved[a] = None \/ reserved'[a] = None
    BY <1>2 DEF Withdraws
  <2>3. \A t \in Task : lease'[t] \in {0, lease[t]}
    BY <1>2 DEF Withdraws
  <2> QED BY <1>1, <2>1, <2>2, <2>3, GrantsShape
<1>3. ASSUME NEW resumed, NEW started, NEW token, Permits(resumed, started, token)
      PROVE  Grants!Next
  <2>1. fencing' >= fencing /\ fencing \in Nat /\ fencing' \in Nat
    BY <1>3 DEF Permits, IInv, TypeOK
  <2>2. ASSUME NEW a \in Agent, reserved'[a] # reserved[a], reserved'[a] # None
        PROVE  reserved[a] = None
    <3>1. reserved'[a] \in Task /\ TypeOK'
      BY <2>2, <1>3 DEF Permits, TypeOK
    <3>2. reserved'[a] \in started /\ attempt'[reserved'[a]].agent = a
      BY <1>3, <2>2, <3>1 DEF Permits
    <3> QED BY <1>3, <3>2 DEF Permits
  <2>3. ASSUME NEW t \in Task
        PROVE  \/ lease'[t] \in {0, lease[t]}
               \/ lease[t] = 0 /\ lease'[t] > fencing /\ lease'[t] <= fencing'
    <3>1. CASE t \in resumed \cup started
      <4>1. lease'[t] = token[t] /\ token[t] \in (fencing + 1)..fencing'
        BY <1>3, <3>1 DEF Permits
      <4>2. lease[t] = 0
        BY <1>3, <3>1 DEF Permits, IInv, LeaseOfCurrentSegment
      <4> QED BY <2>1, <4>1, <4>2
    <3>2. CASE t \notin resumed \cup started
      BY <1>3, <3>2 DEF Permits
    <3> QED BY <3>1, <3>2
  <2> QED BY <1>1, <2>1, <2>2, <2>3, GrantsShape
<1> QED BY <1>2, <1>3, StepShape, StutterWithdraws

\* The scheduler, over any agents, Tasks, paths and failures, is a service that
\* gives permissions as Grants describes: one holder per agent, one token per
\* segment, never the same token twice, never more of them than MaxParallel.
THEOREM Refinement == Spec => ImplementsGrants
<1>1. Init => Grants!Init
  BY GrantsInit
<1>2. IInv /\ [Next]_vars => [Grants!Next]_(Grants!vars)
  BY GrantsStep
<1> QED BY <1>1, <1>2, Invariant, PTL DEF Spec, ImplementsGrants, Grants!Spec

================================================================================
