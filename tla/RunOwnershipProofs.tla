------------------------- MODULE RunOwnershipProofs -------------------------
(* RunAdmission: who owns the Roles.  An inductive invariant over any Runs, *)
(* Teams, rosters and Tasks, the safety properties that follow from it, the *)
(* admission loop against its set of Admissible Runs, and the refinement of *)
(* the reservation service.                                                 *)
EXTENDS RunAdmissionProofs, WellFoundedInduction

-----------------------------------------------------------------------------
(* The inductive invariant, stated of Runs rs, owners own, a queue counter  *)
(* q and Tasks tk, so that it can be followed through the loops of a Tick.  *)

\* One Run: it is released only once it is over, and a completion stands only
\* while the Run is working.
RunOK(rec) ==
  /\ rec.admitted => rec.phase # "absent"
  /\ rec.cleanup = "released" => Terminal(rec.phase)
  /\ rec.intent = "current" => Working(rec)

Queued(rs, q) ==
  /\ \A r \in Run : rs[r].phase # "absent" => rs[r].seq <= q
  /\ \A r, s \in Run : /\ rs[r].phase # "absent" /\ rs[s].phase # "absent"
                       /\ rs[r].seq = rs[s].seq
                       => r = s

Owns(rs, own) ==
  \A r \in Run, role \in Role : own[role] = r <=> Holding(rs[r]) /\ role \in roster[r]

OneActive(rs) ==
  \A r, s \in Run : Holding(rs[r]) /\ Holding(rs[s]) /\ teamOf[r] = teamOf[s] => r = s

InOrder(rs) ==
  \A r, s \in Run : Holding(rs[r]) /\ Waiting(rs[s]) /\ Clash(r, s) => rs[r].seq < rs[s].seq

\* Executions belong to Runs that hold their roster, Tasks to Runs that exist.
AtHome(rs, tk) ==
  \A t \in Task : /\ Live(tk[t]) => Holding(rs[runOf[t]])
                  /\ tk[t].state # "absent" => rs[runOf[t]].phase # "absent"

Inv(rs, own, q, tk) ==
  /\ \A r \in Run : RunOK(rs[r])
  /\ Queued(rs, q)
  /\ Owns(rs, own)
  /\ OneActive(rs)
  /\ InOrder(rs)
  /\ AtHome(rs, tk)

IInv == TypeOK /\ Inv(run, owner, queueSeq, task)

-----------------------------------------------------------------------------
(* Steps that leave ownership alone.                                       *)

\* What nearly every write of a Run respects.
Onward(a, b) ==
  /\ b.admitted = a.admitted /\ b.seq = a.seq
  /\ b.phase = "absent" <=> a.phase = "absent"
  /\ Terminal(a.phase) => Terminal(b.phase)
  /\ a.phase = "cancelled" => b.phase = "cancelled"
  /\ b.cleanup = "released" <=> a.cleanup = "released"

\* What every write of a Run but its creation and its admission respects.
Moves(a, b) ==
  /\ b.admitted = a.admitted /\ b.seq = a.seq
  /\ b.phase = "absent" <=> a.phase = "absent"
  /\ Terminal(a.phase) => Terminal(b.phase)
  /\ a.phase = "cancelled" => b.phase = "cancelled"
  /\ a.cleanup = "released" => b.cleanup = "released"

Passes(rs, rs2) == \A r \in Run : Moves(rs[r], rs2[r])

\* What a write respects that neither moves a Run in or out nor ends it.
Alike(a, b) == Onward(a, b) /\ Onward(b, a)

\* CreateRun puts a Run at the end of the queue.
Arrives(a, b) ==
  /\ a.phase = "absent" /\ b.phase = "queued_run" /\ ~b.admitted
  /\ b.cleanup # "released" /\ b.seq = queueSeq + 1

\* A transaction with an admission: rs are the Runs that admitRuns finds in it.
AdmitsFrom(rs) ==
  /\ \A r \in Run : Arrives(run[r], rs[r]) \/ Alike(run[r], rs[r])
  /\ \A r, s \in Run : Arrives(run[r], rs[r]) /\ Arrives(run[s], rs[s]) => r = s
  /\ \A r \in Run : Alike(Admit(rs, Admissible(rs))[r], run'[r])

Transacts == Passes(run, run') \/ \E rs \in [Run -> RunRecord] : AdmitsFrom(rs)

\* No execution starts, and no Task appears, but in a Run that may have it.
From(rs, tk, tk2) ==
  \A t \in Task : /\ Live(tk2[t]) => Live(tk[t]) \/ Holding(rs[runOf[t]])
                  /\ tk2[t].state # "absent" =>
                       tk[t].state # "absent" \/ rs[runOf[t]].phase # "absent"

LEMMA OnwardRunOK ==
  ASSUME NEW a, NEW b, RunOK(a), Onward(a, b), b.intent # "current"
  PROVE  RunOK(b)
BY DEF RunOK, Onward

LEMMA ReviseOnward ==
  ASSUME NEW a \in RunRecord
  PROVE  Onward(a, Revise(a)) /\ Revise(a).intent # "current"
BY DEF Onward, Revise, RunRecord, Terminal

\* Steps that move no Run in or out of its roster preserve the invariant.
LEMMA OnwardInv ==
  ASSUME NEW rs, NEW rs2, NEW own, NEW q, NEW tk, NEW tk2,
         Inv(rs, own, q, tk),
         \A r \in Run : Onward(rs[r], rs2[r]) /\ RunOK(rs2[r]),
         From(rs2, tk, tk2)
  PROVE  Inv(rs2, own, q, tk2)
<1>1. \A r \in Run : /\ Holding(rs2[r]) <=> Holding(rs[r])
                     /\ Waiting(rs2[r]) => Waiting(rs[r])
                     /\ rs2[r].seq = rs[r].seq
                     /\ rs2[r].phase = "absent" <=> rs[r].phase = "absent"
  BY DEF Onward, Holding, Waiting, Open
<1>2. Queued(rs2, q)
  BY <1>1 DEF Inv, Queued
<1>3. Owns(rs2, own) /\ OneActive(rs2)
  BY <1>1 DEF Inv, Owns, OneActive
<1>4. InOrder(rs2)
  BY <1>1 DEF Inv, InOrder
<1>5. AtHome(rs2, tk2)
  BY <1>1, TopologyAssumption DEF Inv, AtHome, From
<1> QED
  BY <1>2, <1>3, <1>4, <1>5 DEF Inv

LEMMA FailOnward ==
  ASSUME NEW a \in RunRecord, RunOK(a), a.phase # "absent"
  PROVE  Alike(a, Fail(a)) /\ RunOK(Fail(a))
<1>1. Revise(a) \in RunRecord /\ Onward(a, Revise(a)) /\ Revise(a).intent # "current"
  BY ReviseType, ReviseOnward
<1>2. Onward(a, Fail(a)) /\ Onward(Fail(a), a) /\ Fail(a).intent # "current"
  BY <1>1 DEF Fail, Onward, Revise, RunRecord, Terminal
<1> QED
  BY <1>2, OnwardRunOK DEF Alike

\* Holding the Runs of Tasks they have keeps the invariant.
LEMMA FailRunsOfInv ==
  ASSUME NEW rs \in [Run -> RunRecord], NEW own, NEW q, NEW tk, NEW tk2, NEW T,
         Inv(rs, own, q, tk),
         \A t \in T : rs[runOf[t]].phase # "absent",
         From(rs, tk, tk2)
  PROVE  /\ Inv(FailRunsOf(rs, T), own, q, tk2)
         /\ \A r \in Run : Alike(rs[r], FailRunsOf(rs, T)[r])
<1> DEFINE rs2 == FailRunsOf(rs, T)
<1>1. ASSUME NEW r \in Run
      PROVE  Alike(rs[r], rs2[r]) /\ RunOK(rs2[r])
  <2>1. rs[r] \in RunRecord /\ RunOK(rs[r])
    BY DEF Inv
  <2>2. CASE \E t \in T : runOf[t] = r
    <3>1. rs2[r] = Fail(rs[r])
      BY <2>2 DEF FailRunsOf
    <3> QED
      BY <2>1, <2>2, <3>1, FailOnward
  <2>3. CASE ~\E t \in T : runOf[t] = r
    <3>1. rs2[r] = rs[r]
      BY <2>3 DEF FailRunsOf
    <3> QED
      BY <2>1, <3>1 DEF Alike, Onward
  <2> QED
    BY <2>2, <2>3
<1>2. From(rs2, tk, tk2)
  BY <1>1, TopologyAssumption DEF From, Alike, Onward, Holding
<1> HIDE DEF rs2
<1>3. Inv(rs2, own, q, tk2)
  BY <1>1, <1>2, OnwardInv DEF Alike
<1> QED
  BY <1>1, <1>3 DEF rs2

-----------------------------------------------------------------------------
(* Admission.                                                              *)

\* The Runs of one pass clash neither with each other nor with a Run that holds
\* its Roles or stands before them.
LEMMA AdmissibleApart ==
  ASSUME NEW rs \in [Run -> RunRecord], NEW q, NEW tk, Inv(rs, owner, q, tk)
  PROVE  /\ \A r, s \in Admissible(rs) : Clash(r, s) => r = s
         /\ \A r \in Admissible(rs), s \in Run :
              /\ Holding(rs[s]) => teamOf[s] # teamOf[r]
              /\ Waiting(rs[s]) /\ Clash(r, s) /\ r # s => rs[r].seq < rs[s].seq
<1>1. \A r, s \in Run : Clash(r, s) <=> Clash(s, r)
  BY DEF Clash
<1>2. \A r \in Run : rs[r].seq \in Nat
  BY DEF RunRecord
<1>3. ASSUME NEW r \in Admissible(rs), NEW s \in Run, Waiting(rs[s]), Clash(r, s), r # s
      PROVE  rs[r].seq < rs[s].seq
  <2>1. r \in Run /\ Waiting(rs[r]) /\ ~EarlierBlocks(rs, s, r)
    BY DEF Admissible
  <2>2. rs[r].phase # "absent" /\ rs[s].phase # "absent"
    BY <1>3, <2>1 DEF Waiting, Open
  <2>3. rs[r].seq # rs[s].seq
    BY <1>3, <2>1, <2>2 DEF Inv, Queued
  <2>4. ~(rs[s].seq < rs[r].seq)
    BY <1>1, <1>3, <2>1 DEF EarlierBlocks
  <2> QED
    BY <1>2, <2>1, <2>3, <2>4
<1>4. ASSUME NEW r \in Admissible(rs), NEW s \in Admissible(rs), Clash(r, s), r # s
      PROVE  FALSE
  <2>1. r \in Run /\ s \in Run /\ Waiting(rs[r]) /\ Waiting(rs[s])
    BY DEF Admissible
  <2>2. rs[r].seq < rs[s].seq
    BY <1>3, <1>4, <2>1
  <2>3. rs[s].seq < rs[r].seq
    BY <1>1, <1>3, <1>4, <2>1
  <2> QED
    BY <1>2, <2>1, <2>2, <2>3
<1>5. ASSUME NEW r \in Admissible(rs), NEW s \in Run, Holding(rs[s])
      PROVE  teamOf[s] # teamOf[r]
  BY <1>5 DEF Admissible, ActiveBlocks
<1> QED
  BY <1>3, <1>4, <1>5

\* Every Role goes to the one admitted Run whose roster has it.
LEMMA AcquireOwner ==
  ASSUME NEW A, \A r, s \in A : Clash(r, s) => r = s
  PROVE  /\ \A role \in Role, r \in A : role \in roster[r] => Acquire(A)[role] = r
         /\ \A role \in Role : (~\E r \in A : role \in roster[r])
                                  => Acquire(A)[role] = owner[role]
<1>1. ASSUME NEW role \in Role, NEW r \in A, role \in roster[r]
      PROVE  Acquire(A)[role] = r
  <2> DEFINE s == CHOOSE x \in A : role \in roster[x]
  <2>1. s \in A /\ role \in roster[s]
    BY <1>1
  <2>2. s = r
    BY <1>1, <2>1 DEF Clash
  <2>3. Acquire(A)[role] = s
    BY <1>1 DEF Acquire
  <2> QED
    BY <2>2, <2>3
<1>2. ASSUME NEW role \in Role, ~\E r \in A : role \in roster[r]
      PROVE  Acquire(A)[role] = owner[role]
  BY <1>2 DEF Acquire
<1> QED
  BY <1>1, <1>2

\* admitRuns preserves the invariant.
LEMMA AdmitInv ==
  ASSUME NEW rs \in [Run -> RunRecord], NEW q, NEW tk, Inv(rs, owner, q, tk)
  PROVE  Inv(Admit(rs, Admissible(rs)), Acquire(Admissible(rs)), q, tk)
<1> DEFINE A == Admissible(rs)
           rs2 == Admit(rs, A)
           own == Acquire(A)
<1>1. A \subseteq Run
  BY DEF Admissible
<1>2. /\ \A r, s \in A : Clash(r, s) => r = s
      /\ \A r \in A, s \in Run :
           /\ Holding(rs[s]) => teamOf[s] # teamOf[r]
           /\ Waiting(rs[s]) /\ Clash(r, s) /\ r # s => rs[r].seq < rs[s].seq
  BY AdmissibleApart
<1>3. /\ \A role \in Role, r \in A : role \in roster[r] => own[role] = r
      /\ \A role \in Role : (~\E r \in A : role \in roster[r]) => own[role] = owner[role]
  BY <1>2, AcquireOwner
<1>4. \A r \in A : Waiting(rs[r]) /\ \A role \in roster[r] : owner[role] = NoRun
  BY DEF Admissible
<1>5. ASSUME NEW r \in A
      PROVE  /\ Holding(rs2[r]) /\ ~Waiting(rs2[r]) /\ ~Holding(rs[r])
             /\ rs2[r].seq = rs[r].seq /\ rs2[r].phase # "absent"
             /\ rs[r].phase # "absent" /\ RunOK(rs2[r])
  <2>1. r \in Run /\ rs[r] \in RunRecord /\ RunOK(rs[r]) /\ Waiting(rs[r])
    BY <1>1, <1>4 DEF Inv
  <2> DEFINE a == Revise(rs[r])
  <2>2. a \in RunRecord /\ Onward(rs[r], a) /\ a.intent # "current"
    BY <2>1, ReviseType, ReviseOnward
  <2>3. rs2[r] = [a EXCEPT !.admitted = TRUE, !.phase = "planning"]
    BY <2>1 DEF Admit
  <2>4. rs[r].cleanup # "released" /\ rs[r].phase # "absent" /\ ~rs[r].admitted
    BY <2>1 DEF RunOK, Waiting, Open
  <2> HIDE DEF a, rs2
  <2>5. /\ rs2[r].admitted = TRUE /\ rs2[r].phase = "planning" /\ rs2[r].cleanup = a.cleanup
        /\ rs2[r].seq = a.seq /\ rs2[r].intent = a.intent
    BY <2>2, <2>3 DEF RunRecord
  <2> QED
    BY <2>2, <2>4, <2>5 DEF Onward, Holding, Waiting, Open, RunOK
<1>6. \A r \in Run \ A : rs2[r] = rs[r]
  BY DEF Admit
<1> HIDE DEF A, rs2, own
<1>7. \A r \in Run : /\ rs2[r].seq = rs[r].seq
                     /\ rs2[r].phase = "absent" <=> rs[r].phase = "absent"
                     /\ Holding(rs2[r]) <=> Holding(rs[r]) \/ r \in A
                     /\ Waiting(rs2[r]) <=> Waiting(rs[r]) /\ r \notin A
                     /\ RunOK(rs2[r])
  BY <1>5, <1>6 DEF Inv
<1>8. Queued(rs2, q)
  BY <1>7 DEF Inv, Queued
<1>9. Owns(rs2, own)
  <2> SUFFICES ASSUME NEW r \in Run, NEW role \in Role
               PROVE  own[role] = r <=> Holding(rs2[r]) /\ role \in roster[r]
    BY DEF Owns
  <2>0. owner[role] = r <=> Holding(rs[r]) /\ role \in roster[r]
    BY DEF Inv, Owns
  <2>1. CASE \E s \in A : role \in roster[s]
    <3>1. PICK s \in A : role \in roster[s]
      BY <2>1
    <3>2. own[role] = s /\ owner[role] = NoRun
      BY <1>3, <1>4, <3>1
    <3>3. ~(Holding(rs[r]) /\ role \in roster[r])
      BY <2>0, <3>2, TopologyAssumption
    <3>4. r \in A /\ role \in roster[r] => r = s
      BY <1>3, <3>2
    <3> QED
      BY <1>7, <3>1, <3>2, <3>3, <3>4
  <2>2. CASE ~\E s \in A : role \in roster[s]
    BY <1>3, <1>7, <2>0, <2>2
  <2> QED
    BY <2>1, <2>2
<1>10. OneActive(rs2)
  BY <1>1, <1>2, <1>7 DEF Inv, OneActive, Clash
<1>11. InOrder(rs2)
  BY <1>1, <1>2, <1>7 DEF Inv, InOrder
<1>12. AtHome(rs2, tk)
  BY <1>7, TopologyAssumption DEF Inv, AtHome
<1> QED
  BY <1>7, <1>8, <1>9, <1>10, <1>11, <1>12 DEF Inv, A, rs2, own

-----------------------------------------------------------------------------
(* Clean-up.                                                               *)

\* cleanupRun preserves the invariant: the roster goes back only when the Run is
\* over and no execution of it is unconfirmed.
LEMMA CleanupInv ==
  ASSUME TypeOK, NEW q, NEW r \in Run, NEW rec \in RunRecord, NEW tk,
         Inv(run, owner, q, task),
         Onward(run[r], rec),
         From(run, task, tk),
         CleanupRun(r, rec, tk)
  PROVE  Inv(run', owner', q, tk) /\ Passes(run, run')
<1> DEFINE busy == LiveIn(tk, r) # {}
           c == Cleaned(rec, busy)
<1>1. c \in RunRecord
  BY CleanedType
<1>2. Revise(c) \in RunRecord /\ Onward(c, Revise(c)) /\ Revise(c).intent # "current"
  BY <1>1, ReviseType, ReviseOnward
<1>3. /\ run' = [run EXCEPT ![r] = Revise(c)]
      /\ owner' = IF Drains(rec, busy) THEN Disown(r) ELSE owner
  BY DEF CleanupRun
<1>4. /\ c.admitted = rec.admitted /\ c.seq = rec.seq /\ c.phase = rec.phase
      /\ c.cleanup = IF Drains(rec, busy) THEN "released"
                     ELSE IF rec.cleanup # "released" /\ busy THEN "reconciling"
                     ELSE rec.cleanup
  BY DEF Cleaned, RunRecord
<1>5. RunOK(run[r]) /\ run \in [Run -> RunRecord]
  BY DEF Inv, TypeOK
<1> HIDE DEF c
<1>6. /\ run'[r] = Revise(c)
      /\ \A s \in Run : s # r => run'[s] = run[s]
  BY <1>3, <1>5
<1>7. CASE ~Drains(rec, busy)
  <2>1. Onward(run[r], Revise(c))
    BY <1>2, <1>4, <1>7 DEF Onward
  <2>2. RunOK(Revise(c))
    BY <1>2, <1>5, <2>1, OnwardRunOK
  <2>3. ASSUME NEW s \in Run
        PROVE  Onward(run[s], run'[s]) /\ RunOK(run'[s])
    BY <1>6, <2>1, <2>2 DEF Onward, Inv
  <2>4. From(run', task, tk)
    BY <2>3, TopologyAssumption DEF From, Onward, Holding
  <2>5. Inv(run', owner, q, tk)
    BY <2>3, <2>4, OnwardInv
  <2>6. Passes(run, run')
    BY <2>3 DEF Passes, Moves, Onward
  <2> QED
    BY <1>3, <1>7, <2>5, <2>6
<1>8. CASE Drains(rec, busy)
  <2>1. /\ Terminal(Revise(c).phase) /\ Revise(c).cleanup = "released"
        /\ Revise(c).seq = run[r].seq /\ Revise(c).phase # "absent"
        /\ run[r].phase # "absent" /\ Revise(c).admitted = run[r].admitted
        /\ run[r].phase = "cancelled" => Revise(c).phase = "cancelled"
    BY <1>2, <1>4, <1>8 DEF Drains, Onward, Terminal
  <2>2. /\ ~Holding(run'[r]) /\ ~Waiting(run'[r]) /\ RunOK(run'[r])
    BY <1>2, <1>6, <2>1 DEF Holding, Waiting, Open, RunOK
  <2>3. \A s \in Run : /\ run'[s].seq = run[s].seq
                       /\ run'[s].phase = "absent" <=> run[s].phase = "absent"
                       /\ RunOK(run'[s])
                       /\ Holding(run'[s]) <=> Holding(run[s]) /\ s # r
                       /\ Waiting(run'[s]) => Waiting(run[s])
    BY <1>6, <2>1, <2>2 DEF Inv
  <2>4. Queued(run', q)
    BY <2>3 DEF Inv, Queued
  <2>5. Owns(run', owner')
    <3>1. \A role \in Role : owner'[role] = IF owner[role] = r THEN NoRun ELSE owner[role]
      BY <1>3, <1>8 DEF Disown
    <3> QED
      BY <2>3, <3>1, TopologyAssumption DEF Inv, Owns
  <2>6. OneActive(run') /\ InOrder(run')
    BY <2>3 DEF Inv, OneActive, InOrder
  <2>7. AtHome(run', tk)
    <3>1. \A t \in Task : runOf[t] = r => ~Live(tk[t])
      BY <1>8 DEF Drains, LiveIn, TasksOf
    <3> QED
      BY <2>3, <3>1, TopologyAssumption DEF Inv, AtHome, From
  <2>8. Passes(run, run')
    BY <1>6, <2>1 DEF Passes, Moves
  <2> QED
    BY <2>3, <2>4, <2>5, <2>6, <2>7, <2>8 DEF Inv
<1> QED
  BY <1>7, <1>8

-----------------------------------------------------------------------------
(* The scheduler's transaction.                                            *)

\* A Tick preserves the invariant, loop after loop.
LEMMA TickInv ==
  ASSUME IInv, Tick
  PROVE  /\ Inv(run', owner', queueSeq', task')
         /\ \E rs \in [Run -> RunRecord] : AdmitsFrom(rs)
<1> DEFINE q == queueSeq
<1>1. PICK changed \in SUBSET Invalidatable :
      \E overdue \in SUBSET {t \in Task \ changed : Live(task[t])} :
      \E lapsed \in SUBSET {t \in Task \ (changed \cup overdue) :
                              Live(task[t]) /\ task[t].exec # "suspended"} :
        AdmitRuns(Expired(changed, overdue, lapsed),
                  FailRunsOf(run, changed \cup overdue \cup lapsed))
  BY DEF Tick
<1>2a. PICK overdue \in SUBSET {t \in Task \ changed : Live(task[t])} :
      \E lapsed \in SUBSET {t \in Task \ (changed \cup overdue) :
                                Live(task[t]) /\ task[t].exec # "suspended"} :
        AdmitRuns(Expired(changed, overdue, lapsed),
                  FailRunsOf(run, changed \cup overdue \cup lapsed))
  BY <1>1
<1>2. PICK lapsed \in SUBSET {t \in Task \ (changed \cup overdue) :
                                Live(task[t]) /\ task[t].exec # "suspended"} :
        AdmitRuns(Expired(changed, overdue, lapsed),
                  FailRunsOf(run, changed \cup overdue \cup lapsed))
  BY <1>2a
<1> DEFINE rs1 == FailRunsOf(run, changed \cup overdue \cup lapsed)
           tk1 == Expired(changed, overdue, lapsed)
<1>3. /\ Inv(rs1, owner, q, tk1) /\ rs1 \in [Run -> RunRecord]
      /\ \A r \in Run : Alike(run[r], rs1[r])
  <2>1. \A t \in changed \cup overdue \cup lapsed : run[runOf[t]].phase # "absent"
    <3>1. ASSUME NEW t \in changed
          PROVE  run[runOf[t]].phase # "absent"
      BY DEF Invalidatable, Open
    <3>2. ASSUME NEW t \in overdue \cup lapsed
          PROVE  run[runOf[t]].phase # "absent"
      BY TopologyAssumption DEF IInv, Inv, AtHome, RunOK, Holding
    <3> QED
      BY <3>1, <3>2
  <2>2. From(run, task, tk1)
    <3> SUFFICES ASSUME NEW t \in Task
                 PROVE  /\ Live(tk1[t]) => Live(task[t])
                        /\ tk1[t].state # "absent" =>
                             task[t].state # "absent" \/ run[runOf[t]].phase # "absent"
      BY DEF From
    <3>1. task[t] \in TaskRecord
      BY DEF IInv, TypeOK
    <3>2. CASE t \in changed \cup overdue \cup lapsed
      <4>1. run[runOf[t]].phase # "absent"
        BY <2>1, <3>2
      <4>2. t \in overdue \cup lapsed => Live(task[t])
        OBVIOUS
      <4>3. CASE t \in overdue \cup lapsed
        BY <4>1, <4>2, <4>3
      <4>4. CASE t \in changed
        <5>1. tk1[t] = [task[t] EXCEPT !.state = "needs_review"]
          BY <3>2, <4>4 DEF Expired
        <5>2. tk1[t].exec = task[t].exec
          BY <3>1, <5>1 DEF TaskRecord
        <5> QED
          BY <4>1, <5>2 DEF Live
      <4> QED
        BY <3>2, <4>3, <4>4
    <3>3. CASE t \notin changed \cup overdue \cup lapsed
      BY <3>3 DEF Expired
    <3> QED
      BY <3>2, <3>3
  <2> QED
    BY <2>1, <2>2, FailRunsOfInv, FailRunsOfType DEF IInv, TypeOK
<1>4. tk1 \in [Task -> TaskRecord]
  BY ExpiredType DEF IInv, TypeOK
<1> HIDE DEF rs1, tk1
<1> DEFINE A == Admissible(rs1)
           rs2 == Admit(rs1, A)
           own == Acquire(A)
<1>5. /\ Inv(rs2, own, q, tk1) /\ rs2 \in [Run -> RunRecord]
      /\ EnsureReviews(tk1, rs2, own)
  BY <1>2, <1>3, AdmitInv, AdmitType DEF AdmitRuns, rs1, tk1
<1> HIDE DEF rs2, own
<1>6. PICK refused \in SUBSET Reviewable(tk1, rs2),
           reviews \in SUBSET {t \in Task : /\ kind[t] = "review" /\ tk1[t].state = "absent"
                                            /\ Open(rs2[runOf[t]]) /\ ~rs2[runOf[t]].hold} :
        ResumeReady(Reviewed(tk1, refused, reviews), FailRunsOf(rs2, refused), own)
  BY <1>5 DEF EnsureReviews
<1> DEFINE rs3 == FailRunsOf(rs2, refused)
           tk2 == Reviewed(tk1, refused, reviews)
<1>7. /\ Inv(rs3, own, q, tk2) /\ rs3 \in [Run -> RunRecord] /\ tk2 \in [Task -> TaskRecord]
      /\ \A r \in Run : Alike(rs2[r], rs3[r])
  <2>1. \A t \in refused : rs2[runOf[t]].phase # "absent"
    BY DEF Reviewable, Open
  <2>2. From(rs2, tk1, tk2)
    <3> SUFFICES ASSUME NEW t \in Task
                 PROVE  /\ Live(tk2[t]) => Live(tk1[t])
                        /\ tk2[t].state # "absent" =>
                             tk1[t].state # "absent" \/ rs2[runOf[t]].phase # "absent"
      BY DEF From
    <3>1. tk1[t] \in TaskRecord
      BY <1>4
    <3>2. CASE t \in refused
      <4>1. t \notin reviews
        BY <3>2 DEF Reviewable
      <4>2. tk2[t] = [tk1[t] EXCEPT !.state = "needs_review"]
        BY <3>2, <4>1 DEF Reviewed
      <4> QED
        BY <2>1, <3>1, <3>2, <4>2 DEF TaskRecord, Live
    <3>3. CASE t \in reviews /\ t \notin refused
      BY <3>3 DEF Reviewed, NewTask, Live, Open
    <3>4. CASE t \notin reviews /\ t \notin refused
      BY <3>4 DEF Reviewed
    <3> QED
      BY <3>2, <3>3, <3>4
  <2> QED
    BY <1>4, <1>5, <2>1, <2>2, FailRunsOfInv, FailRunsOfType, ReviewedType
<1> HIDE DEF rs3, tk2
<1>8. ResumeReady(tk2, rs3, own)
  BY <1>6 DEF rs3, tk2
<1>9. PICK stuck \in SUBSET Resumable(tk2, rs3) :
      \E resumed \in SUBSET (Resumable(tk2, rs3) \ stuck) :
        EnsureLeaderSteps(Continued(tk2, stuck, resumed), FailRunsOf(rs3, stuck), own)
  BY <1>8 DEF ResumeReady
<1>10. PICK resumed \in SUBSET (Resumable(tk2, rs3) \ stuck) :
        EnsureLeaderSteps(Continued(tk2, stuck, resumed), FailRunsOf(rs3, stuck), own)
  BY <1>9
<1> DEFINE rs4 == FailRunsOf(rs3, stuck)
           tk3 == Continued(tk2, stuck, resumed)
<1>11. /\ Inv(rs4, own, q, tk3) /\ rs4 \in [Run -> RunRecord] /\ tk3 \in [Task -> TaskRecord]
       /\ \A r \in Run : Alike(rs3[r], rs4[r])
  <2>1. ASSUME NEW t \in Resumable(tk2, rs3)
        PROVE  rs3[runOf[t]].phase # "absent" /\ Live(tk2[t])
    <3>1. rs3[runOf[t]].admitted /\ tk2[t].exec = "suspended" /\ runOf[t] \in Run
      BY TopologyAssumption DEF Resumable, Working
    <3> QED
      BY <1>7, <3>1 DEF Inv, RunOK, Live
  <2>2. From(rs3, tk2, tk3)
    <3> SUFFICES ASSUME NEW t \in Task
                 PROVE  /\ Live(tk3[t]) => Live(tk2[t])
                        /\ tk3[t].state # "absent" =>
                             tk2[t].state # "absent" \/ rs3[runOf[t]].phase # "absent"
      BY DEF From
    <3>1. CASE t \in Resumable(tk2, rs3)
      BY <2>1, <3>1
    <3>2. CASE t \notin Resumable(tk2, rs3)
      BY <3>2 DEF Continued
    <3> QED
      BY <3>1, <3>2
  <2> QED
    BY <1>7, <2>1, <2>2, FailRunsOfInv, FailRunsOfType, ContinuedType
<1> HIDE DEF rs4, tk3
<1>12. EnsureLeaderSteps(tk3, rs4, own)
  BY <1>10 DEF rs4, tk3
<1> DEFINE stepping == {r \in Stepping(tk3, rs4) : StepSlots(tk3, r) # {}}
           rs5 == [r \in Run |-> [rs4[r] EXCEPT !.news = @ /\ r \notin stepping]]
<1>13. PICK steps \in SUBSET UNION {StepSlots(tk3, r) : r \in stepping} :
         Dispatch(Stepped(tk3, rs4, steps), rs5, own)
  BY <1>12 DEF EnsureLeaderSteps
<1> DEFINE tk4 == Stepped(tk3, rs4, steps)
<1>14. /\ rs5 \in [Run -> RunRecord] /\ tk4 \in [Task -> TaskRecord]
       /\ Inv(rs5, own, q, tk4)
       /\ \A r \in Run : Alike(rs4[r], rs5[r])
  <2>1. ASSUME NEW r \in Run
        PROVE  rs5[r] \in RunRecord /\ Alike(rs4[r], rs5[r]) /\ RunOK(rs5[r])
    <3>1. rs4[r] \in RunRecord /\ RunOK(rs4[r])
      BY <1>11 DEF Inv
    <3>2. \A b \in BOOLEAN : [rs4[r] EXCEPT !.news = b] \in RunRecord
      BY <3>1 DEF RunRecord
    <3>3. rs5[r] \in RunRecord
      BY <3>2
    <3>4. /\ rs5[r].admitted = rs4[r].admitted /\ rs5[r].seq = rs4[r].seq
          /\ rs5[r].phase = rs4[r].phase /\ rs5[r].cleanup = rs4[r].cleanup
          /\ rs5[r].intent = rs4[r].intent /\ rs5[r].hold = rs4[r].hold
      BY <3>1 DEF RunRecord
    <3> QED
      BY <3>1, <3>3, <3>4 DEF Alike, Onward, RunOK, Working
  <2>2. \A t \in steps : rs4[runOf[t]].phase # "absent"
    <3>1. \A t \in steps : \E r \in Stepping(tk3, rs4) : runOf[t] = r
      BY DEF StepSlots, TasksOf
    <3> QED
      BY <1>11, <3>1 DEF Stepping, Working, Inv, RunOK
  <2>3. From(rs5, tk3, tk4)
    <3> SUFFICES ASSUME NEW t \in Task
                 PROVE  /\ Live(tk4[t]) => Live(tk3[t])
                        /\ tk4[t].state # "absent" =>
                             tk3[t].state # "absent" \/ rs5[runOf[t]].phase # "absent"
      BY DEF From
    <3>1. CASE t \in steps
      <4>1. tk4[t].exec = "none"
        BY <3>1 DEF Stepped, NewTask
      <4>2. rs5[runOf[t]].phase # "absent"
        BY <2>1, <2>2, <3>1, TopologyAssumption DEF Alike, Onward
      <4> QED
        BY <4>1, <4>2 DEF Live
    <3>2. CASE t \notin steps
      BY <3>2 DEF Stepped
    <3> QED
      BY <3>1, <3>2
  <2> HIDE DEF rs5, tk4
  <2>4. Inv(rs5, own, q, tk4)
    BY <1>11, <2>1, <2>3, OnwardInv DEF Alike
  <2>5. tk4 \in [Task -> TaskRecord]
    BY <1>11, SteppedType DEF tk4
  <2>6. rs5 \in [Run -> RunRecord]
    BY <2>1 DEF rs5
  <2> QED
    BY <2>1, <2>4, <2>5, <2>6
<1>15. Dispatch(tk4, rs5, own)
  BY <1>13
<1> HIDE DEF rs5, tk4
<1>16a. PICK started \in SUBSET Dispatchable(tk4, rs5, own) :
       \E denied \in SUBSET (Deniable(tk4, rs5) \ started) :
       \E queued \in SUBSET {t \in Pending(tk4) \ (started \cup denied) :
                               tk4[t].state = "planned" /\ Working(rs5[runOf[t]])} :
         /\ task' = Dispatched(tk4, started, queued, denied)
         /\ run' = FailRunsOf(rs5, denied)
         /\ owner' = own
  BY <1>15 DEF Dispatch
<1>16. PICK denied \in SUBSET (Deniable(tk4, rs5) \ started) :
       \E queued \in SUBSET {t \in Pending(tk4) \ (started \cup denied) :
                               tk4[t].state = "planned" /\ Working(rs5[runOf[t]])} :
         /\ task' = Dispatched(tk4, started, queued, denied)
         /\ run' = FailRunsOf(rs5, denied)
         /\ owner' = own
  BY <1>16a
<1>17. PICK queued \in SUBSET {t \in Pending(tk4) \ (started \cup denied) :
                                 tk4[t].state = "planned" /\ Working(rs5[runOf[t]])} :
         /\ task' = Dispatched(tk4, started, queued, denied)
         /\ run' = FailRunsOf(rs5, denied)
         /\ owner' = own
  BY <1>16
<1>18. \A t \in Pending(tk4) \cup Deniable(tk4, rs5) : t \in Task /\ tk4[t].state # "absent"
  BY DEF Pending, Deniable
<1>19. \A t \in denied : rs5[runOf[t]].phase # "absent"
  BY <1>14, <1>18 DEF Inv, AtHome
<1>20. From(rs5, tk4, task')
  <2> SUFFICES ASSUME NEW t \in Task
               PROVE  /\ Live(task'[t]) => Live(tk4[t]) \/ Holding(rs5[runOf[t]])
                      /\ task'[t].state # "absent" => tk4[t].state # "absent"
    BY DEF From
  <2>0. tk4[t] \in TaskRecord /\ runOf[t] \in Run
    BY <1>14, TopologyAssumption
  <2>1. CASE t \in denied
    <3>1. task'[t] = [tk4[t] EXCEPT !.state = "needs_review"]
      BY <1>17, <2>1 DEF Dispatched
    <3> QED
      BY <1>18, <2>0, <2>1, <3>1 DEF TaskRecord, Live
  <2>2. CASE t \in started
    <3>1. t \in Pending(tk4) /\ Working(rs5[runOf[t]])
      BY <2>2 DEF Dispatchable
    <3>2. Holding(rs5[runOf[t]])
      BY <1>14, <2>0, <3>1 DEF Inv, RunOK, Working, Holding
    <3> QED
      BY <1>18, <3>1, <3>2
  <2>3. CASE t \in queued /\ t \notin denied \cup started
    <3>1. task'[t] = [tk4[t] EXCEPT !.state = "queued"]
      BY <1>17, <2>3 DEF Dispatched
    <3> QED
      BY <1>18, <2>0, <2>3, <3>1 DEF TaskRecord, Live
  <2>4. CASE t \notin denied \cup started \cup queued
    BY <1>17, <2>4 DEF Dispatched
  <2> QED
    BY <2>1, <2>2, <2>3, <2>4
<1>21. /\ Inv(FailRunsOf(rs5, denied), own, q, task')
       /\ \A r \in Run : Alike(rs5[r], FailRunsOf(rs5, denied)[r])
  BY <1>14, <1>19, <1>20, FailRunsOfInv
<1>22. queueSeq' = queueSeq
  BY DEF Tick
<1>23. AdmitsFrom(rs1)
  <2>1. \A r \in Run : Alike(rs2[r], run'[r])
    BY <1>7, <1>11, <1>14, <1>17, <1>21 DEF Alike, Onward
  <2>2. \A r \in Run : ~Arrives(run[r], rs1[r])
    BY <1>3 DEF Arrives, Alike, Onward
  <2> QED
    BY <1>3, <2>1, <2>2 DEF AdmitsFrom, rs2
<1> QED
  BY <1>3, <1>17, <1>21, <1>22, <1>23

-----------------------------------------------------------------------------
(* Adapters and Leaders.                                                   *)

\* Writing the Task of a Run that exists, without starting an execution.
LEMMA FromOne ==
  ASSUME NEW rs, NEW tk \in [Task -> TaskRecord], NEW t \in Task, NEW k,
         Live(k) => Live(tk[t]),
         k.state # "absent" => tk[t].state # "absent" \/ rs[runOf[t]].phase # "absent"
  PROVE  From(rs, tk, [tk EXCEPT ![t] = k])
BY DEF From

\* Writing one Run.
LEMMA OneRunInv ==
  ASSUME NEW own, NEW q, NEW tk, NEW tk2, NEW r \in Run, NEW b,
         run \in [Run -> RunRecord], Inv(run, own, q, tk),
         Onward(run[r], b), RunOK(b), From(run, tk, tk2)
  PROVE  /\ Inv([run EXCEPT ![r] = b], own, q, tk2)
         /\ Passes(run, [run EXCEPT ![r] = b])
<1> DEFINE rs2 == [run EXCEPT ![r] = b]
<1>1. \A s \in Run : Onward(run[s], rs2[s]) /\ RunOK(rs2[s])
  BY DEF Inv, Onward
<1>2. From(rs2, tk, tk2)
  BY <1>1, TopologyAssumption DEF From, Onward, Holding
<1>3. Passes(run, rs2)
  BY <1>1 DEF Passes, Moves, Onward
<1> QED
  BY <1>1, <1>2, <1>3, OnwardInv

\* Leaving the Runs alone.
LEMMA NoRunInv ==
  ASSUME NEW own, NEW q, NEW tk, NEW tk2, Inv(run, own, q, tk), From(run, tk, tk2)
  PROVE  Inv(run, own, q, tk2) /\ Passes(run, run)
BY OnwardInv DEF Inv, Onward, Passes, Moves

\* Holding Runs.
LEMMA FailRunsInv ==
  ASSUME NEW own, NEW q, NEW tk, NEW tk2, NEW T,
         run \in [Run -> RunRecord], Inv(run, own, q, tk),
         \A t \in T : run[runOf[t]].phase # "absent",
         From(run, tk, tk2)
  PROVE  Inv(FailRunsOf(run, T), own, q, tk2) /\ Passes(run, FailRunsOf(run, T))
<1>1. /\ Inv(FailRunsOf(run, T), own, q, tk2)
      /\ \A r \in Run : Alike(run[r], FailRunsOf(run, T)[r])
  BY FailRunsOfInv
<1> QED
  BY <1>1 DEF Passes, Moves, Alike, Onward

\* The Run of an execution exists and holds its roster; so does that of a Task
\* that is not absent, as far as existing goes.
LEMMA HomeExists ==
  ASSUME IInv, NEW t \in Task, Live(task[t]) \/ task[t].state # "absent"
  PROVE  run[runOf[t]].phase # "absent"
BY TopologyAssumption DEF IInv, Inv, AtHome, RunOK, Holding

\* A decision of the Leader: rec is the Run as the decision leaves it.
LEMMA DecideInv ==
  ASSUME IInv, NEW t \in Task, NEW rec \in RunRecord, Decide(t, rec),
         Onward(run[runOf[t]], rec), RunOK(rec),
         From(run, task, task')
  PROVE  Inv(run', owner', queueSeq', task') /\ Passes(run, run')
<1> DEFINE r == runOf[t]
           b == [rec EXCEPT !.news = task[t].seen < rec.guidance]
<1>1. r \in Run /\ run \in [Run -> RunRecord]
  BY TopologyAssumption DEF IInv, TypeOK
<1>2. /\ b.admitted = rec.admitted /\ b.seq = rec.seq /\ b.phase = rec.phase
      /\ b.cleanup = rec.cleanup /\ b.intent = rec.intent /\ b.hold = rec.hold
  BY DEF RunRecord
<1> HIDE DEF b
<1>3. Onward(run[r], b) /\ RunOK(b)
  BY <1>2 DEF Onward, RunOK, Working
<1>4. run' = [run EXCEPT ![r] = b] /\ owner' = owner /\ queueSeq' = queueSeq
  BY DEF Decide, b
<1>5. /\ Inv([run EXCEPT ![r] = b], owner, queueSeq, task')
      /\ Passes(run, [run EXCEPT ![r] = b])
  BY <1>1, <1>3, OneRunInv DEF IInv
<1> QED
  BY <1>4, <1>5

LEMMA AdapterStepInv ==
  ASSUME IInv, NEW t \in Task, AdapterStep(t)
  PROVE  Inv(run', owner', queueSeq', task') /\ Passes(run, run')
<1> DEFINE r == runOf[t]
<1>0. /\ task \in [Task -> TaskRecord] /\ task[t] \in TaskRecord
      /\ run \in [Run -> RunRecord] /\ r \in Run /\ run[r] \in RunRecord /\ RunOK(run[r])
      /\ Inv(run, owner, queueSeq, task)
  BY TopologyAssumption DEF IInv, TypeOK, Inv
<1>1. CASE InjectionRequested(t) \/ InputObserved(t) \/ ResultProposed(t) \/ Suspend(t)
  <2>1. Live(task[t])
    BY <1>1 DEF InjectionRequested, InputObserved, ResultProposed, Suspend, Live
  <2>2. PICK k : SetTask(t, k) /\ UNCHANGED <<run, owner, queueSeq>>
    BY <1>1 DEF InjectionRequested, InputObserved, ResultProposed, Suspend
  <2>3. From(run, task, task')
    BY <1>0, <2>1, <2>2, HomeExists, FromOne DEF SetTask
  <2> QED
    BY <1>0, <2>2, <2>3, NoRunInv
<1>2. CASE SettledFailed(t) \/ SettledMissing(t) \/ Interrupt(t)
  <2>1. Live(task[t])
    BY <1>2 DEF SettledFailed, SettledMissing, Interrupt, Live, Accepting
  <2>2. PICK k : SetTask(t, k) /\ run' = FailRunsOf(run, {t}) /\ UNCHANGED <<owner, queueSeq>>
    BY <1>2 DEF SettledFailed, SettledMissing, Interrupt
  <2>3. run[r].phase # "absent"
    BY <2>1, HomeExists
  <2>4. From(run, task, task')
    BY <1>0, <2>1, <2>2, <2>3, FromOne DEF SetTask
  <2>5. /\ Inv(FailRunsOf(run, {t}), owner, queueSeq, task')
        /\ Passes(run, FailRunsOf(run, {t}))
    BY <1>0, <2>3, <2>4, FailRunsInv
  <2> QED
    BY <2>2, <2>5
<1>3. ASSUME NEW ok \in BOOLEAN, SettledBusiness(t, ok)
      PROVE  Inv(run', owner', queueSeq', task') /\ Passes(run, run')
  <2>1. Live(task[t])
    BY <1>3 DEF SettledBusiness, Live
  <2>2. PICK k : SetTask(t, k)
    BY <1>3 DEF SettledBusiness
  <2>3. run[r].phase # "absent"
    BY <2>1, HomeExists
  <2>4. From(run, task, task')
    BY <1>0, <2>1, <2>2, <2>3, FromOne DEF SetTask
  <2>5. /\ Inv(FailRunsOf(run, {t}), owner, queueSeq, task')
        /\ Passes(run, FailRunsOf(run, {t}))
    BY <1>0, <2>3, <2>4, FailRunsInv
  <2>6. /\ Inv([run EXCEPT ![r] = Revise(run[r])], owner, queueSeq, task')
        /\ Passes(run, [run EXCEPT ![r] = Revise(run[r])])
    BY <1>0, <2>4, ReviseOnward, OnwardRunOK, OneRunInv
  <2>7. /\ \/ run' = [run EXCEPT ![r] = Revise(run[r])]
           \/ run' = FailRunsOf(run, {t})
        /\ UNCHANGED <<owner, queueSeq>>
    BY <1>3 DEF SettledBusiness
  <2> QED
    BY <2>5, <2>6, <2>7
<1>4. ASSUME NEW ok \in BOOLEAN, SettledLeader(t, ok)
      PROVE  Inv(run', owner', queueSeq', task') /\ Passes(run, run')
  <2> DEFINE rec == run[r]
             k == [Release(task[t]) EXCEPT !.state = "completed"]
             tk == [task EXCEPT ![t] = k]
             done == [rec EXCEPT !.phase = "completed"]
  <2>1. Live(task[t]) /\ run[r].phase # "absent"
    <3>1. Live(task[t])
      BY <1>4 DEF SettledLeader, Live
    <3> QED
      BY <3>1, HomeExists
  <2>2. task' = tk /\ queueSeq' = queueSeq
    BY <1>4 DEF SettledLeader
  <2>3. From(run, task, tk)
    <3> HIDE DEF k
    <3> QED
      BY <1>0, <2>1, FromOne
  <2>4. Revise(rec) \in RunRecord /\ Onward(rec, Revise(rec)) /\ Revise(rec).intent # "current"
    BY <1>0, ReviseType, ReviseOnward
  <2> HIDE DEF k, tk
  <2>5. CASE run' = run /\ owner' = owner
    BY <1>0, <2>2, <2>3, <2>5, NoRunInv
  <2>6. CASE /\ run' = [run EXCEPT ![r] = [Revise(rec) EXCEPT !.intent = "none"]]
             /\ owner' = owner
    <3> DEFINE b == [Revise(rec) EXCEPT !.intent = "none"]
    <3>1. Onward(rec, b) /\ b.intent # "current"
      BY <2>4 DEF Onward, RunRecord
    <3>2. RunOK(b)
      BY <1>0, <3>1, OnwardRunOK
    <3> HIDE DEF b
    <3>3. /\ Inv([run EXCEPT ![r] = b], owner, queueSeq, tk)
          /\ Passes(run, [run EXCEPT ![r] = b])
      BY <1>0, <2>3, <3>1, <3>2, OneRunInv
    <3> QED
      BY <2>2, <2>6, <3>3 DEF b
  <2>7. CASE /\ rec.intent = "current"
             /\ run' = [run EXCEPT ![r] = [Revise(rec) EXCEPT !.intent = "none", !.hold = TRUE,
                                                              !.phase = "needs_review"]]
             /\ owner' = owner
    <3> DEFINE b == [Revise(rec) EXCEPT !.intent = "none", !.hold = TRUE,
                                        !.phase = "needs_review"]
    <3>1. ~Terminal(rec.phase)
      BY <1>0, <2>7 DEF RunOK, Working
    <3>2. Onward(rec, b) /\ b.intent # "current"
      BY <2>1, <2>4, <3>1 DEF Onward, RunRecord, Terminal
    <3>3. RunOK(b)
      BY <1>0, <3>2, OnwardRunOK
    <3> HIDE DEF b
    <3>4. /\ Inv([run EXCEPT ![r] = b], owner, queueSeq, tk)
          /\ Passes(run, [run EXCEPT ![r] = b])
      BY <1>0, <2>3, <3>2, <3>3, OneRunInv
    <3> QED
      BY <2>2, <2>7, <3>4 DEF b
  <2>8. CASE rec.intent = "current" /\ CleanupRun(r, done, tk)
    <3>1. done \in RunRecord
      BY <1>0 DEF RunRecord, Phases
    <3>2. Onward(rec, done)
      BY <1>0, <2>1, <2>8 DEF Onward, RunRecord, Terminal, RunOK, Working
    <3> HIDE DEF done
    <3>3. Inv(run', owner', queueSeq, tk) /\ Passes(run, run')
      BY <1>0, <2>3, <2>8, <3>1, <3>2, CleanupInv DEF IInv
    <3> QED
      BY <2>2, <3>3
  <2> QED
    BY <1>4, <2>5, <2>6, <2>7, <2>8 DEF SettledLeader, tk, k
<1>5. CASE (\E P \in SUBSET Unplanned(r) : DecideDispatch(t, P)) \/ DecideWait(t)
             \/ DecideComplete(t)
  <2>1. Working(run[r]) /\ Live(task[t])
    BY <1>5 DEF DecideDispatch, DecideWait, DecideComplete, Decide, Live
  <2>2. run[r].phase # "absent" /\ ~Terminal(run[r].phase)
    BY <1>0, <2>1 DEF Working, RunOK
  <2>3. Revise(run[r]) \in RunRecord /\ Onward(run[r], Revise(run[r]))
        /\ Revise(run[r]).intent # "current"
    BY <1>0, ReviseType, ReviseOnward
  <2>4. Revise(run[r]).hold = run[r].hold /\ Revise(run[r]).phase = run[r].phase
    BY <1>0 DEF Revise, RunRecord
  <2>5. CASE \E P \in SUBSET Unplanned(r) : DecideDispatch(t, P)
    <3>1. PICK P \in SUBSET Unplanned(r) : DecideDispatch(t, P)
      BY <2>5
    <3> DEFINE rec == [Revise(run[r]) EXCEPT !.phase = "running"]
    <3>2. rec \in RunRecord /\ Onward(run[r], rec) /\ rec.intent # "current"
      BY <2>2, <2>3 DEF RunRecord, Phases, Onward, Terminal
    <3>3. RunOK(rec)
      BY <1>0, <3>2, OnwardRunOK
    <3>4. Decide(t, rec) /\ task' = [Plan(task, P) EXCEPT ![t] = Proposed(@)]
      BY <3>1 DEF DecideDispatch
    <3>5. From(run, task, task')
      <4> SUFFICES ASSUME NEW u \in Task
                   PROVE  /\ Live(task'[u]) => Live(task[u]) \/ Holding(run[runOf[u]])
                          /\ task'[u].state # "absent" =>
                               task[u].state # "absent" \/ run[runOf[u]].phase # "absent"
        BY DEF From
      <4>1. Holding(run[r])
        BY <1>0, <2>1 DEF Inv, AtHome
      <4>2. CASE u = t
        BY <2>2, <4>1, <4>2
      <4>3. CASE u # t /\ u \in P
        <5>1. runOf[u] = r
          BY <4>3 DEF Unplanned, TasksOf
        <5> QED
          BY <2>2, <4>1, <5>1
      <4>4. CASE u # t /\ u \notin P
        BY <3>4, <4>4 DEF Plan
      <4> QED
        BY <4>2, <4>3, <4>4
    <3> HIDE DEF rec
    <3> QED
      BY <3>2, <3>3, <3>4, <3>5, DecideInv
  <2>6. ASSUME SetTask(t, Proposed(task[t]))
        PROVE  From(run, task, task')
    <3> HIDE DEF r
    <3> QED
      BY <1>0, <2>1, <2>6, HomeExists, FromOne DEF SetTask
  <2>7. CASE DecideWait(t)
    <3>1. Decide(t, Revise(run[r])) /\ SetTask(t, Proposed(task[t]))
      BY <2>7 DEF DecideWait
    <3>2. RunOK(Revise(run[r]))
      BY <1>0, <2>3, OnwardRunOK
    <3> QED
      BY <2>3, <2>6, <3>1, <3>2, DecideInv
  <2>8. CASE DecideComplete(t)
    <3> DEFINE rec == [Revise(run[r]) EXCEPT !.intent = "current"]
    <3>1. Decide(t, rec) /\ SetTask(t, Proposed(task[t]))
      BY <2>8 DEF DecideComplete
    <3>2. /\ rec \in RunRecord
          /\ rec.admitted = Revise(run[r]).admitted /\ rec.seq = Revise(run[r]).seq
          /\ rec.phase = Revise(run[r]).phase /\ rec.hold = Revise(run[r]).hold
          /\ rec.cleanup = Revise(run[r]).cleanup
      BY <2>3 DEF RunRecord
    <3> HIDE DEF rec
    <3>3. Onward(run[r], rec)
      BY <2>3, <3>2 DEF Onward
    <3>4. RunOK(rec)
      BY <1>0, <2>1, <2>3, <2>4, <3>2 DEF RunOK, Working, Onward
    <3> QED
      BY <2>6, <3>1, <3>2, <3>3, <3>4, DecideInv
  <2> QED
    BY <1>5, <2>5, <2>7, <2>8
<1>6. CASE Stopped(t)
  <2> DEFINE tk == [task EXCEPT ![t] = Release(@)]
  <2>1. task' = tk /\ CleanupRun(r, run[r], tk) /\ queueSeq' = queueSeq
    BY <1>6 DEF Stopped
  <2>2. Live(task[t])
    BY <1>6 DEF Stopped, Live
  <2>3. From(run, task, tk)
    BY <1>0, <2>2, HomeExists, FromOne
  <2>4. Onward(run[r], run[r])
    BY DEF Onward
  <2> HIDE DEF tk
  <2>5. Inv(run', owner', queueSeq, tk) /\ Passes(run, run')
    BY <1>0, <2>1, <2>3, <2>4, CleanupInv DEF IInv
  <2> QED
    BY <2>1, <2>5
<1> QED
  BY <1>1, <1>2, <1>3, <1>4, <1>5, <1>6 DEF AdapterStep

-----------------------------------------------------------------------------
(* The operator, the Leader's identity, a new Controller process.          *)

LEMMA CreateRunInv ==
  ASSUME IInv, NEW r \in Run, NEW P \in SUBSET Unplanned(r), CreateRun(r, P)
  PROVE  /\ Inv(run', owner', queueSeq', task')
         /\ \E rs \in [Run -> RunRecord] : AdmitsFrom(rs)
<1> DEFINE new == [run[r] EXCEPT !.phase = "queued_run", !.seq = queueSeq + 1,
                                 !.leader = lead[teamOf[r]].epoch, !.news = TRUE]
           rs == [run EXCEPT ![r] = new]
           q == queueSeq + 1
           tk == Plan(task, P)
<1>0. /\ run \in [Run -> RunRecord] /\ run[r] \in RunRecord /\ queueSeq \in Nat
      /\ RunOK(run[r]) /\ Inv(run, owner, queueSeq, task) /\ run[r].phase = "absent"
  BY DEF IInv, TypeOK, Inv, CreateRun, Absent
<1>1. /\ new.phase = "queued_run" /\ new.seq = q /\ new.admitted = run[r].admitted
      /\ new.cleanup = run[r].cleanup /\ new.intent = run[r].intent
  BY <1>0 DEF RunRecord
<1>2. new \in RunRecord
  <2>1. lead[teamOf[r]].epoch \in Nat /\ q \in Nat
    BY <1>0, TopologyAssumption DEF IInv, TypeOK, LeadRecord
  <2> QED
    BY <1>0, <2>1 DEF RunRecord, Phases
<1> HIDE DEF new
<1>3. rs \in [Run -> RunRecord] /\ rs[r] = new /\ \A s \in Run : s # r => rs[s] = run[s]
  BY <1>0, <1>2
<1>4. ~run[r].admitted /\ run[r].cleanup # "released" /\ run[r].intent # "current"
  BY <1>0 DEF RunOK, Working, Terminal
<1>5. RunOK(rs[r]) /\ ~Holding(rs[r])
  BY <1>1, <1>3, <1>4 DEF RunOK, Holding
<1>6. \A s \in Run : RunOK(rs[s]) /\ (Holding(rs[s]) <=> Holding(run[s]))
  <2>1. ~Holding(run[r])
    BY <1>4 DEF Holding
  <2>2. \A s \in Run : RunOK(run[s])
    BY <1>0 DEF Inv
  <2> HIDE DEF rs
  <2> QED
    BY <1>3, <1>5, <2>1, <2>2
<1> HIDE DEF rs
<1>7. \A s \in Run : run[s].seq \in Nat
  BY <1>0 DEF RunRecord
<1>8. \A s \in Run : s # r /\ run[s].phase # "absent" => run[s].seq < q
  BY <1>0, <1>7 DEF Inv, Queued
<1>9. Queued(rs, q)
  BY <1>0, <1>1, <1>3, <1>7, <1>8 DEF Inv, Queued
<1>10. Owns(rs, owner) /\ OneActive(rs)
  BY <1>0, <1>6 DEF Inv, Owns, OneActive
<1>11. InOrder(rs)
  <2> SUFFICES ASSUME NEW a \in Run, NEW b \in Run,
                      Holding(rs[a]), Waiting(rs[b]), Clash(a, b)
               PROVE  rs[a].seq < rs[b].seq
    BY DEF InOrder
  <2>1. a # r /\ Holding(run[a]) /\ rs[a] = run[a]
    BY <1>3, <1>5, <1>6
  <2>2. run[a].phase # "absent"
    BY <1>0, <2>1 DEF Inv, RunOK, Holding
  <2>3. CASE b = r
    BY <1>1, <1>3, <1>8, <2>1, <2>2, <2>3
  <2>4. CASE b # r
    BY <1>0, <1>3, <2>1, <2>4 DEF Inv, InOrder
  <2> QED
    BY <2>3, <2>4
<1>12. AtHome(rs, tk)
  <2> SUFFICES ASSUME NEW t \in Task
               PROVE  /\ Live(tk[t]) => Holding(rs[runOf[t]])
                      /\ tk[t].state # "absent" => rs[runOf[t]].phase # "absent"
    BY DEF AtHome
  <2>1. CASE t \in P
    <3>1. runOf[t] = r /\ tk[t].exec = "none"
      BY <2>1 DEF Unplanned, TasksOf, Plan, NewTask
    <3> QED
      BY <1>1, <1>3, <3>1 DEF Live
  <2>2. CASE t \notin P
    <3>1. tk[t] = task[t] /\ runOf[t] \in Run
      BY <2>2, TopologyAssumption DEF Plan
    <3>2. rs[runOf[t]].phase = "absent" => run[runOf[t]].phase = "absent"
      BY <1>1, <1>3, <3>1
    <3> QED
      BY <1>0, <1>6, <3>1, <3>2 DEF Inv, AtHome
  <2> QED
    BY <2>1, <2>2
<1>13. Inv(rs, owner, q, tk)
  BY <1>6, <1>9, <1>10, <1>11, <1>12 DEF Inv
<1>14. Inv(Admit(rs, Admissible(rs)), Acquire(Admissible(rs)), q, tk)
  BY <1>3, <1>13, AdmitInv DEF rs
<1>15. /\ run' = Admit(rs, Admissible(rs)) /\ owner' = Acquire(Admissible(rs))
       /\ queueSeq' = q /\ task' = tk
  BY DEF CreateRun, rs, new
<1>16. AdmitsFrom(rs)
  <2>1. Arrives(run[r], rs[r])
    BY <1>0, <1>1, <1>3, <1>4 DEF Arrives
  <2>2. \A s \in Run : s # r => Alike(run[s], rs[s])
    BY <1>3 DEF Alike, Onward
  <2>3. \A s \in Run : Arrives(run[s], rs[s]) => s = r
    BY <1>3 DEF Arrives
  <2>4. \A s \in Run : Alike(Admit(rs, Admissible(rs))[s], run'[s])
    BY <1>15 DEF Alike, Onward
  <2> QED
    BY <2>1, <2>2, <2>3, <2>4 DEF AdmitsFrom
<1> QED
  BY <1>3, <1>14, <1>15, <1>16

LEMMA OperatorStepInv ==
  ASSUME IInv, OperatorStep
  PROVE  Inv(run', owner', queueSeq', task') /\ Transacts
<1>0. /\ task \in [Task -> TaskRecord] /\ run \in [Run -> RunRecord]
      /\ Inv(run, owner, queueSeq, task)
  BY DEF IInv, TypeOK
<1>1. ASSUME NEW r \in Run, NEW P \in SUBSET Unplanned(r), CreateRun(r, P)
      PROVE  Inv(run', owner', queueSeq', task') /\ Transacts
  BY <1>1, CreateRunInv DEF Transacts
<1>2. ASSUME NEW r \in Run, RunCancel(r)
      PROVE  Inv(run', owner', queueSeq', task') /\ Passes(run, run')
  <2> DEFINE tk == [t \in Task |-> IF /\ runOf[t] = r /\ task[t].state # "absent"
                                      /\ ~Terminal(task[t].state)
                                   THEN Cancelled(task[t]) ELSE task[t]]
             rec == [run[r] EXCEPT !.phase = "cancelled", !.hold = TRUE]
  <2>1. rec \in RunRecord
    BY <1>0 DEF RunRecord, Phases
  <2>2. Onward(run[r], rec)
    BY <1>0, <1>2 DEF RunCancel, Absent, Onward, RunRecord, Terminal
  <2>3. From(run, task, tk)
    <3> SUFFICES ASSUME NEW t \in Task
                 PROVE  /\ Live(tk[t]) => Live(task[t])
                        /\ tk[t].state # "absent" => task[t].state # "absent"
      BY DEF From
    <3>1. Live(Cancelled(task[t])) => Live(task[t])
      <4>1. task[t] \in TaskRecord
        BY <1>0
      <4> QED
        BY <4>1 DEF Cancelled, Live, TaskRecord
    <3> QED
      BY <3>1
  <2>4. task' = tk /\ CleanupRun(r, rec, tk) /\ queueSeq' = queueSeq
    BY <1>2 DEF RunCancel
  <2> HIDE DEF tk, rec
  <2>5. Inv(run', owner', queueSeq, tk) /\ Passes(run, run')
    BY <1>0, <2>1, <2>2, <2>3, <2>4, CleanupInv DEF IInv
  <2> QED
    BY <2>4, <2>5
<1>3. ASSUME NEW r \in Run, RunResume(r) \/ RunGuidance(r)
      PROVE  Inv(run', owner', queueSeq', task') /\ Passes(run, run')
  <2>1. Open(run[r]) /\ run[r] \in RunRecord /\ RunOK(run[r])
    BY <1>0, <1>3 DEF RunResume, RunGuidance, Inv
  <2> DEFINE a == Revise(run[r])
  <2>2. a \in RunRecord /\ Onward(run[r], a) /\ a.intent # "current"
    BY <2>1, ReviseType, ReviseOnward
  <2>3. From(run, task, task)
    BY DEF From
  <2>4. CASE RunResume(r)
    <3> DEFINE ph == IF run[r].admitted THEN "running" ELSE "queued_run"
               b == [a EXCEPT !.leader = lead[teamOf[r]].epoch, !.hold = FALSE, !.phase = ph]
    <3>1. run' = [run EXCEPT ![r] = b] /\ UNCHANGED <<owner, queueSeq, task>>
      BY <2>4 DEF RunResume
    <3> HIDE DEF a
    <3>2. /\ b.admitted = a.admitted /\ b.seq = a.seq /\ b.phase = ph
          /\ b.cleanup = a.cleanup /\ b.intent = a.intent
      BY <2>2 DEF RunRecord
    <3>3. ph # "absent" /\ ~Terminal(ph)
      BY DEF Terminal
    <3> HIDE DEF b, ph
    <3>4. Onward(run[r], b)
      BY <2>1, <2>2, <3>2, <3>3 DEF Onward, Open, Terminal
    <3>5. RunOK(b)
      BY <2>1, <2>2, <3>2, <3>4, OnwardRunOK
    <3> QED
      BY <1>0, <2>3, <3>1, <3>4, <3>5, OneRunInv
  <2>5. CASE RunGuidance(r)
    <3> DEFINE b == [a EXCEPT !.guidance = run[r].guidance + 1]
    <3>1. run' = [run EXCEPT ![r] = b] /\ UNCHANGED <<owner, queueSeq, task>>
      BY <2>5 DEF RunGuidance
    <3> HIDE DEF a
    <3>2. /\ b.admitted = a.admitted /\ b.seq = a.seq /\ b.phase = a.phase
          /\ b.cleanup = a.cleanup /\ b.intent = a.intent
      BY <2>2 DEF RunRecord
    <3> HIDE DEF b
    <3>3. Onward(run[r], b)
      BY <2>2, <3>2 DEF Onward
    <3>4. RunOK(b)
      BY <2>1, <2>2, <3>2, <3>3, OnwardRunOK
    <3> QED
      BY <1>0, <2>3, <3>1, <3>3, <3>4, OneRunInv
  <2> QED
    BY <1>3, <2>4, <2>5
<1>4. ASSUME NEW t \in Task, CreateTask(t) \/ TaskCancel(t) \/ TaskRetry(t) \/ TaskRecover(t)
      PROVE  Inv(run', owner', queueSeq', task') /\ Passes(run, run')
  <2>1. PICK k : /\ task' = [task EXCEPT ![t] = k] /\ UNCHANGED <<run, owner, queueSeq>>
                 /\ Live(k) => Live(task[t])
    <3>1. task[t] \in TaskRecord
      BY <1>0
    <3>2. CASE CreateTask(t)
      <4>1. ~Live(NewTask("queued", 0))
        BY DEF NewTask, Live
      <4> QED
        BY <3>2, <4>1 DEF CreateTask
    <3>3. CASE TaskCancel(t)
      <4>1. Live(Cancelled(task[t])) => Live(task[t])
        BY <3>1 DEF Cancelled, Live, TaskRecord
      <4> QED
        BY <3>3, <4>1 DEF TaskCancel, SetTask
    <3>4. CASE TaskRetry(t) \/ TaskRecover(t)
      <4>1. \A st \in {"queued", "completed"} :
              Live([task[t] EXCEPT !.state = st]) => Live(task[t])
        BY <3>1 DEF Live, TaskRecord
      <4> QED
        BY <3>4, <4>1 DEF TaskRetry, TaskRecover, SetTask
    <3> QED
      BY <1>4, <3>2, <3>3, <3>4
  <2>2. run[runOf[t]].phase # "absent"
    BY <1>4, HomeExists DEF CreateTask, TaskCancel, TaskRetry, TaskRecover, Open
  <2>3. From(run, task, task')
    BY <1>0, <2>1, <2>2, FromOne
  <2> QED
    BY <1>0, <2>1, <2>3, NoRunInv
<1>5. ASSUME NEW t \in Task, TaskVerdict(t)
      PROVE  Inv(run', owner', queueSeq', task') /\ Passes(run, run')
  <2>1. runOf[t] \in Run /\ run[runOf[t]] \in RunRecord /\ RunOK(run[runOf[t]])
    BY <1>0, TopologyAssumption DEF Inv
  <2>2. /\ run' = [run EXCEPT ![runOf[t]] = Revise(run[runOf[t]])]
        /\ UNCHANGED <<owner, queueSeq, task>>
    BY <1>5 DEF TaskVerdict
  <2>3. Onward(run[runOf[t]], Revise(run[runOf[t]])) /\ RunOK(Revise(run[runOf[t]]))
    BY <2>1, ReviseOnward, OnwardRunOK
  <2>4. From(run, task, task)
    BY DEF From
  <2> QED
    BY <1>0, <2>1, <2>2, <2>3, <2>4, OneRunInv
<1>6. ASSUME NEW t \in Task, Reconcile(t)
      PROVE  Inv(run', owner', queueSeq', task') /\ Passes(run, run')
  <2> DEFINE r == runOf[t]
             k == Release(task[t])
             k2 == [k EXCEPT !.state = IF Terminal(@) THEN @ ELSE "interrupted"]
             tk == [task EXCEPT ![t] = k2]
             rec == IF Terminal(k.state) THEN run[r] ELSE Fail(run[r])
  <2>1. task' = tk /\ CleanupRun(r, rec, tk) /\ queueSeq' = queueSeq
    BY <1>6 DEF Reconcile
  <2>2. Live(task[t])
    BY <1>6 DEF Reconcile
  <2> HIDE DEF k2
  <2>3. From(run, task, tk)
    BY <1>0, <2>2, HomeExists, FromOne
  <2>4. r \in Run /\ run[r] \in RunRecord /\ RunOK(run[r]) /\ run[r].phase # "absent"
    BY <1>0, <2>2, HomeExists, TopologyAssumption DEF Inv
  <2>5. rec \in RunRecord /\ Onward(run[r], rec)
    BY <2>4, FailType, FailOnward DEF Alike, Onward
  <2> HIDE DEF tk, rec
  <2>6. Inv(run', owner', queueSeq, tk) /\ Passes(run, run')
    BY <1>0, <2>1, <2>3, <2>4, <2>5, CleanupInv DEF IInv
  <2> QED
    BY <2>1, <2>6
<1> QED
  BY <1>1, <1>2, <1>3, <1>4, <1>5, <1>6 DEF OperatorStep, Transacts

LEMMA LeaderStepInv ==
  ASSUME IInv, LeaderStep
  PROVE  Inv(run', owner', queueSeq', task') /\ Passes(run, run')
<1>0. /\ task \in [Task -> TaskRecord] /\ run \in [Run -> RunRecord]
      /\ Inv(run, owner, queueSeq, task)
  BY DEF IInv, TypeOK
<1>1. PICK m \in Team : LeaderSilent(m) \/ LeaderHeartbeat(m) \/ LeaderRegister(m)
                          \/ LeaderRelease(m)
  BY DEF LeaderStep
<1>2. CASE LeaderSilent(m) \/ LeaderHeartbeat(m) \/ LeaderRelease(m)
  <2>1. UNCHANGED <<run, owner, queueSeq, task>>
    BY <1>2 DEF LeaderSilent, LeaderHeartbeat, LeaderRelease
  <2> QED
    BY <1>0, <2>1 DEF Passes, Moves
<1>3. CASE LeaderRegister(m)
  <2>1. \A t \in StepsOfTeam(m) : Live(task[t]) /\ run[runOf[t]].phase # "absent"
    BY HomeExists DEF StepsOfTeam
  <2>2. From(run, task, task')
    BY <1>3, <2>1 DEF From, LeaderRegister
  <2>3. /\ Inv(FailRunsOf(run, StepsOfTeam(m)), owner, queueSeq, task')
        /\ Passes(run, FailRunsOf(run, StepsOfTeam(m)))
    BY <1>0, <2>1, <2>2, FailRunsInv
  <2> QED
    BY <1>3, <2>3 DEF LeaderRegister
<1> QED
  BY <1>1, <1>2, <1>3

LEMMA RestartInv ==
  ASSUME IInv, Restart
  PROVE  Inv(run', owner', queueSeq', task') /\ Passes(run, run')
<1>0. /\ task \in [Task -> TaskRecord] /\ run \in [Run -> RunRecord]
      /\ Inv(run, owner, queueSeq, task)
  BY DEF IInv, TypeOK
<1>1. ASSUME NEW r \in Run
      PROVE  Onward(run[r], run'[r]) /\ RunOK(run'[r])
  <2>1. run[r] \in RunRecord /\ RunOK(run[r])
    BY <1>0 DEF Inv
  <2>2. CASE run'[r] = run[r]
    BY <2>1, <2>2 DEF Onward
  <2>3. CASE run'[r] = [Revise(run[r]) EXCEPT !.hold = TRUE]
    <3>1. Revise(run[r]) \in RunRecord /\ Onward(run[r], Revise(run[r]))
          /\ Revise(run[r]).intent # "current"
      BY <2>1, ReviseType, ReviseOnward
    <3>2. Onward(run[r], run'[r]) /\ run'[r].intent # "current"
      BY <2>3, <3>1 DEF Onward, RunRecord
    <3> QED
      BY <2>1, <3>2, OnwardRunOK
  <2> QED
    BY <2>2, <2>3 DEF Restart
<1>2. From(run', task, task')
  <2> SUFFICES ASSUME NEW t \in Task
               PROVE  /\ Live(task'[t]) => Live(task[t])
                      /\ task'[t].state # "absent" =>
                           task[t].state # "absent" \/ run'[runOf[t]].phase # "absent"
    BY DEF From
  <2>1. CASE Live(task[t])
    BY <1>1, <2>1, HomeExists, TopologyAssumption DEF Onward
  <2>2. CASE ~Live(task[t])
    BY <2>2 DEF Restart
  <2> QED
    BY <2>1, <2>2
<1>3. Inv(run', owner, queueSeq, task') /\ Passes(run, run')
  BY <1>0, <1>1, <1>2, OnwardInv DEF Passes, Moves, Onward
<1> QED
  BY <1>3 DEF Restart

-----------------------------------------------------------------------------
(* The theorems.                                                           *)

LEMMA InitInv == Init => IInv
<1> SUFFICES ASSUME Init PROVE IInv
  OBVIOUS
<1>1. \A r \in Run : /\ RunOK(run[r]) /\ ~Holding(run[r]) /\ ~Waiting(run[r])
                     /\ run[r].phase = "absent"
  BY DEF Init, RunOK, Holding, Waiting, Open, Working
<1>2. \A t \in Task : ~Live(task[t]) /\ task[t].state = "absent"
  BY DEF Init, NewTask, Live
<1>3. Owns(run, owner)
  BY <1>1, TopologyAssumption DEF Init, Owns
<1>4. Inv(run, owner, queueSeq, task)
  BY <1>1, <1>2, <1>3 DEF Inv, Queued, OneActive, InOrder, AtHome
<1> QED
  BY <1>4, InitType DEF IInv

\* What every step does to the invariant, and how far it takes the Runs.
LEMMA StepInv ==
  ASSUME IInv, [Next]_vars
  PROVE  Inv(run', owner', queueSeq', task') /\ Transacts
<1>1. CASE Tick
  BY <1>1, TickInv DEF Transacts
<1>2. CASE Restart
  BY <1>2, RestartInv DEF Transacts
<1>3. CASE OperatorStep
  BY <1>3, OperatorStepInv
<1>4. CASE LeaderStep
  BY <1>4, LeaderStepInv DEF Transacts
<1>5. CASE \E t \in Task : AdapterStep(t)
  BY <1>5, AdapterStepInv DEF Transacts
<1>6. CASE UNCHANGED vars
  BY <1>6 DEF vars, IInv, Transacts, Passes, Moves
<1> QED
  BY <1>1, <1>2, <1>3, <1>4, <1>5, <1>6 DEF Next

\* The strengthened invariant is inductive.
LEMMA NextInv == IInv /\ [Next]_vars => IInv'
<1> SUFFICES ASSUME IInv, [Next]_vars PROVE IInv'
  OBVIOUS
<1>1. TypeOK'
  BY NextType DEF IInv
<1>2. Inv(run', owner', queueSeq', task')
  BY StepInv
<1>3. IInv' <=> TypeOK' /\ Inv(run', owner', queueSeq', task')
  BY DEF IInv, Inv, RunOK, Queued, Owns, OneActive, InOrder, AtHome
<1> QED
  BY <1>1, <1>2, <1>3

THEOREM InductiveInvariant == Spec => []IInv
<1> QED
  BY InitInv, NextInv, PTL DEF Spec

\* A Run owns exactly its roster from its admission to its clean-up: no Tick,
\* clean-up, cancellation or restart leaves it with a part of it.
THEOREM WholeRoster == Spec => []OwnsWholeRoster
<1>1. IInv => OwnsWholeRoster
  <2> SUFFICES ASSUME IInv, NEW r \in Run
               PROVE  {role \in Role : owner[role] = r} =
                        IF Holding(run[r]) THEN roster[r] ELSE {}
    BY DEF OwnsWholeRoster
  <2>1. \A role \in Role : owner[role] = r <=> Holding(run[r]) /\ role \in roster[r]
    BY DEF IInv, Inv, Owns
  <2>2. roster[r] \subseteq Role
    BY TopologyAssumption
  <2> QED
    BY <2>1, <2>2
<1> QED
  BY <1>1, InductiveInvariant, PTL

\* The unique index one_active_team can never make a Tick fail.
THEOREM OneActiveRun == Spec => []OneActiveRunPerTeam
<1>1. IInv => OneActiveRunPerTeam
  BY DEF IInv, Inv, OneActive, OneActiveRunPerTeam
<1> QED
  BY <1>1, InductiveInvariant, PTL

\* No Run is overtaken by a later one it clashes with.
THEOREM FIFO == Spec => []NoOvertake
<1>1. IInv => NoOvertake
  BY DEF IInv, Inv, InOrder, NoOvertake
<1> QED
  BY <1>1, InductiveInvariant, PTL

\* Roles are never given away under an execution that may still be running.
THEOREM RolesHeld == Spec => []RolesHeldWhileExecuting
<1>1. IInv => RolesHeldWhileExecuting
  <2> SUFFICES ASSUME IInv, NEW t \in Task, Live(task[t])
               PROVE  /\ Holding(run[runOf[t]])
                      /\ \A role \in roster[runOf[t]] : owner[role] = runOf[t]
    BY DEF RolesHeldWhileExecuting
  <2>1. runOf[t] \in Run /\ roster[runOf[t]] \subseteq Role
    BY TopologyAssumption
  <2>2. Holding(run[runOf[t]])
    BY DEF IInv, Inv, AtHome
  <2> QED
    BY <2>1, <2>2 DEF IInv, Inv, Owns
<1> QED
  BY <1>1, InductiveInvariant, PTL

\* A proposed completion never survives a hold, a cancellation or a clean-up.
THEOREM IntentWorking == Spec => []IntentNeedsWorkingRun
<1>1. IInv => IntentNeedsWorkingRun
  BY DEF IInv, Inv, RunOK, IntentNeedsWorkingRun
<1> QED
  BY <1>1, InductiveInvariant, PTL

-----------------------------------------------------------------------------
(* The loop of admitRuns.                                                  *)

\* What the loop has seen when it comes to the place n.
PassedBy(rs, n) ==
  [earlier |-> {r \in Run : Waiting(rs[r]) /\ rs[r].seq < n} \ Admissible(rs),
   admitted |-> {r \in Admissible(rs) : rs[r].seq < n}]

\* A Run that meets exactly those before it is left when it is not in the set.
LEMMA VisitDecides ==
  ASSUME NEW rs, NEW r \in Run, Waiting(rs[r])
  PROVE  Blocked(rs, PassedBy(rs, rs[r].seq), r) <=> r \notin Admissible(rs)
<1> DEFINE before == {s \in Run : Waiting(rs[s]) /\ rs[s].seq < rs[r].seq}
           seen == PassedBy(rs, rs[r].seq)
           Free == /\ ~rs[r].hold
                   /\ LeaderReady(teamOf[r]) /\ lead[teamOf[r]].epoch = rs[r].leader
                   /\ \A s \in Run : teamOf[s] = teamOf[r] => ~Holding(rs[s])
                   /\ \A role \in roster[r] : owner[role] = NoRun
           Met == /\ \A s \in seen.earlier : ~Clash(s, r)
                  /\ \A s \in seen.admitted :
                       teamOf[s] # teamOf[r] /\ \A role \in roster[r] : role \notin roster[s]
<1>1. /\ seen.earlier = before \ Admissible(rs)
      /\ seen.admitted = before \cap Admissible(rs)
      /\ before \subseteq Run
  BY DEF PassedBy, Admissible
<1>2. Blocked(rs, seen, r) <=> ~(Free /\ Met)
  <2>1. seen.admitted \subseteq Run
    BY <1>1
  <2> HIDE DEF seen
  <2> QED
    BY <2>1 DEF Blocked
<1>3. r \in Admissible(rs) <=> Free /\ \A s \in before : ~Clash(s, r)
  BY DEF Admissible, EarlierBlocks, ActiveBlocks
<1>4. Met <=> \A s \in before : ~Clash(s, r)
  BY <1>1 DEF Clash
<1> HIDE DEF Free, Met, before, seen
<1>5. Blocked(rs, seen, r) <=> r \notin Admissible(rs)
  BY <1>2, <1>3, <1>4
<1> QED
  BY <1>5 DEF seen

LEMMA VisitAdvances ==
  ASSUME NEW rs, NEW n \in Nat,
         \A r \in Run : rs[r].seq \in Nat,
         \A r, s \in Run : Waiting(rs[r]) /\ Waiting(rs[s]) /\ rs[r].seq = rs[s].seq => r = s
  PROVE  VisitPlace(rs, PassedBy(rs, n), n) = PassedBy(rs, n + 1)
<1>1. \A r \in Run : rs[r].seq < n + 1 <=> rs[r].seq < n \/ rs[r].seq = n
  OBVIOUS
<1>2. Admissible(rs) \subseteq {r \in Run : Waiting(rs[r])}
  BY DEF Admissible
<1>3. CASE At(rs, n) = {}
  <2>1. \A r \in Run : Waiting(rs[r]) => (rs[r].seq < n + 1 <=> rs[r].seq < n)
    BY <1>1, <1>3 DEF At
  <2>2. PassedBy(rs, n) = PassedBy(rs, n + 1)
    <3>1. {r \in Run : Waiting(rs[r]) /\ rs[r].seq < n}
              = {r \in Run : Waiting(rs[r]) /\ rs[r].seq < n + 1}
      BY <2>1
    <3>2. {r \in Admissible(rs) : rs[r].seq < n} = {r \in Admissible(rs) : rs[r].seq < n + 1}
      BY <2>1, <1>2
    <3> QED
      BY <3>1, <3>2 DEF PassedBy
  <2> QED
    BY <1>3, <2>2 DEF VisitPlace
<1>4. CASE At(rs, n) # {}
  <2> DEFINE r == CHOOSE s \in At(rs, n) : TRUE
  <2>1. r \in Run /\ Waiting(rs[r]) /\ rs[r].seq = n
    BY <1>4 DEF At
  <2> HIDE DEF r
  <2>2. VisitPlace(rs, PassedBy(rs, n), n) = Visit(rs, PassedBy(rs, n), r)
    BY <1>4 DEF VisitPlace, r
  <2>3. \A s \in Run : Waiting(rs[s]) => (rs[s].seq < n + 1 <=> rs[s].seq < n \/ s = r)
    BY <1>1, <2>1
  <2>4. Blocked(rs, PassedBy(rs, n), r) <=> r \notin Admissible(rs)
    BY <2>1, VisitDecides
  <2> DEFINE waiting(k) == {s \in Run : Waiting(rs[s]) /\ rs[s].seq < k} \ Admissible(rs)
             admitted(k) == {s \in Admissible(rs) : rs[s].seq < k}
  <2>5. CASE r \in Admissible(rs)
    <3>1. waiting(n + 1) = waiting(n) /\ admitted(n + 1) = admitted(n) \cup {r}
      BY <1>2, <2>1, <2>3, <2>5
    <3> QED
      BY <2>2, <2>4, <2>5, <3>1 DEF Visit, PassedBy
  <2>6. CASE r \notin Admissible(rs)
    <3>1. waiting(n + 1) = waiting(n) \cup {r} /\ admitted(n + 1) = admitted(n)
      BY <1>2, <2>1, <2>3, <2>6
    <3> QED
      BY <2>2, <2>4, <2>6, <3>1 DEF Visit, PassedBy
  <2> QED
    BY <2>5, <2>6
<1> QED
  BY <1>3, <1>4

\* A nonempty set of natural numbers has a least one.
LEMMA LeastNumber ==
  ASSUME NEW S \in SUBSET Nat, S # {}
  PROVE  \E m \in S : \A n \in S : m <= n
<1> DEFINE R == OpToRel(<, Nat)
<1>1. IsWellFoundedOn(R, Nat)
  BY NatLessThanWellFounded
<1>2. \A m, n \in Nat : m < n => <<m, n>> \in R
  BY DEF OpToRel
<1> HIDE DEF R
<1>3. PICK m \in S : \A n \in S : ~(<<n, m>> \in R)
  BY <1>1, WFMin
<1>4. ASSUME NEW n \in S
      PROVE  m <= n
  <2>1. m \in Nat /\ n \in Nat /\ ~(n < m)
    BY <1>2, <1>3
  <2> QED
    BY <2>1
<1> QED
  BY <1>4

\* The recursive function has one value: what the loop has seen is known at each
\* place, or else there is a first place where it is not.
LEMMA LoopAdmits ==
  ASSUME NEW rs, queueSeq \in Nat,
         \A r \in Run : rs[r].seq \in Nat,
         \A r \in Run : Waiting(rs[r]) => rs[r].seq <= queueSeq,
         \A r, s \in Run : Waiting(rs[r]) /\ Waiting(rs[s]) /\ rs[r].seq = rs[s].seq => r = s
  PROVE  AdmissionPass(rs) = Admissible(rs)
<1> DEFINE From0(f, n) == IF n = 0 THEN NobodyYet ELSE f[n - 1]
           Is(f) == f = [n \in 0..queueSeq |-> VisitPlace(rs, From0(f, n), n)]
           g == [n \in 0..queueSeq |-> PassedBy(rs, n + 1)]
           pass == CHOOSE f : Is(f)
<1>1. NobodyYet = PassedBy(rs, 0)
  <2>1. Admissible(rs) \subseteq Run /\ \A r \in Run : ~(rs[r].seq < 0)
    BY DEF Admissible
  <2> QED
    BY <2>1 DEF NobodyYet, PassedBy
<1>2. ASSUME NEW n \in 0..queueSeq
      PROVE  VisitPlace(rs, PassedBy(rs, n), n) = PassedBy(rs, n + 1)
  BY VisitAdvances
<1>3. Is(g)
  <2>1. ASSUME NEW n \in 0..queueSeq
        PROVE  g[n] = VisitPlace(rs, From0(g, n), n)
    <3>1. From0(g, n) = PassedBy(rs, n)
      <4>1. CASE n = 0
        BY <1>1, <4>1
      <4>2. CASE n # 0
        <5>1. n - 1 \in 0..queueSeq /\ (n - 1) + 1 = n
          BY <4>2
        <5> QED
          BY <4>2, <5>1
      <4> QED
        BY <4>1, <4>2
    <3> QED
      BY <1>2, <3>1
  <2> QED
    BY <2>1
<1>4. Is(pass)
  BY <1>3
<1> HIDE DEF g, pass
<1>5. ASSUME NEW n \in 0..queueSeq
      PROVE  pass[n] = VisitPlace(rs, From0(pass, n), n)
  BY <1>4
<1>6. \A n \in 0..queueSeq : pass[n] = PassedBy(rs, n + 1)
  <2> DEFINE Wrong == {n \in 0..queueSeq : pass[n] # PassedBy(rs, n + 1)}
  <2> SUFFICES ASSUME Wrong # {} PROVE FALSE
    OBVIOUS
  <2>1. PICK n \in Wrong : \A m \in Wrong : n <= m
    <3>1. Wrong \in SUBSET Nat
      OBVIOUS
    <3> QED
      BY <3>1, LeastNumber
  <2>2. n \in 0..queueSeq /\ pass[n] # PassedBy(rs, n + 1)
    OBVIOUS
  <2>3. From0(pass, n) = PassedBy(rs, n)
    <3>1. CASE n = 0
      BY <1>1, <3>1
    <3>2. CASE n # 0
      <4>1. n - 1 \in 0..queueSeq /\ ~(n <= n - 1) /\ (n - 1) + 1 = n
        BY <2>2, <3>2
      <4>2. pass[n - 1] = PassedBy(rs, (n - 1) + 1)
        BY <2>1, <4>1
      <4> QED
        BY <3>2, <4>1, <4>2
    <3> QED
      BY <3>1, <3>2
  <2> QED
    BY <1>2, <1>5, <2>2, <2>3
<1>7. pass[queueSeq].admitted = Admissible(rs)
  <2>1. pass[queueSeq] = PassedBy(rs, queueSeq + 1)
    BY <1>6
  <2>2. \A r \in Admissible(rs) : rs[r].seq < queueSeq + 1
    BY DEF Admissible
  <2>3. {r \in Admissible(rs) : rs[r].seq < queueSeq + 1} = Admissible(rs)
    BY <2>2
  <2> QED
    BY <2>1, <2>3 DEF PassedBy
<1> QED
  BY <1>7 DEF AdmissionPass, pass

\* The loop of admitRuns, which visits the queue Run by Run and meets its own
\* writes, admits the set that RunAdmission admits at once: nothing that any order
\* of the queue, a hold or a Leader's absence does makes the two differ.
THEOREM OnePass == Spec => []AdmissionIsOnePass
<1>1. IInv => AdmissionIsOnePass
  <2> SUFFICES ASSUME IInv PROVE AdmissionIsOnePass
    OBVIOUS
  <2>1. /\ queueSeq \in Nat
        /\ \A r \in Run : run[r].seq \in Nat
        /\ \A r \in Run : Waiting(run[r]) => run[r].seq <= queueSeq
        /\ \A r, s \in Run : Waiting(run[r]) /\ Waiting(run[s]) /\ run[r].seq = run[s].seq => r = s
    BY DEF IInv, TypeOK, RunRecord, Inv, Queued, Waiting, Open
  <2> QED
    BY <2>1, LoopAdmits DEF AdmissionIsOnePass
<1> QED
  BY <1>1, InductiveInvariant, PTL

-----------------------------------------------------------------------------
(* Refinement: the Runs are parties of Reservations.                       *)

\* A Run is at exactly one stage.
LEMMA Stages ==
  ASSUME NEW a, RunOK(a)
  PROVE  /\ StageOf(a) \in {"away", "inline", "served", "gone"}
         /\ StageOf(a) = "away" <=> a.phase = "absent"
         /\ StageOf(a) = "inline" <=> Waiting(a)
         /\ StageOf(a) = "served" <=> Holding(a)
BY DEF StageOf, RunOK, Waiting, Open, Holding

\* Without an admission a Run stays where it is, or is over.
LEMMA MovesLater ==
  ASSUME NEW a, NEW b, RunOK(a), RunOK(b), Moves(a, b)
  PROVE  StageOf(b) = StageOf(a) \/ (StageOf(a) \in {"inline", "served"} /\ StageOf(b) = "gone")
BY DEF StageOf, RunOK, Moves, Waiting, Open, Holding

\* Who uses a Role or a Team.
LEMMA Users ==
  ASSUME IInv, NEW r \in Run, NEW x \in Things
  PROVE  /\ UserOf(x) \in Run \cup {NoRun}
         /\ UserOf(x) = r <=> StageOf(run[r]) = "served" /\ x \in Needs[r]
<1>1. StageOf(run[r]) = "served" <=> Holding(run[r])
  BY Stages DEF IInv, Inv
<1>2. CASE \E role \in Role : x = <<"role", role>>
  <2>1. PICK role \in Role : x = <<"role", role>>
    BY <1>2
  <2>2. UserOf(x) = owner[role] /\ (x \in Needs[r] <=> role \in roster[r])
    BY <2>1 DEF UserOf, Needs
  <2> QED
    BY <1>1, <2>2 DEF IInv, Inv, Owns, TypeOK
<1>3. CASE \E t \in Team : x = <<"team", t>>
  <2>1. PICK t \in Team : x = <<"team", t>>
    BY <1>3
  <2> DEFINE Works(s) == Holding(run[s]) /\ teamOf[s] = t
             u == CHOOSE s \in Run : Works(s)
  <2>2. UserOf(x) = IF \E s \in Run : Works(s) THEN u ELSE NoRun
    BY <2>1 DEF UserOf
  <2>3. x \in Needs[r] <=> teamOf[r] = t
    BY <2>1 DEF Needs
  <2>4. \A s \in Run : Works(r) /\ Works(s) => r = s
    BY DEF IInv, Inv, OneActive
  <2>5. (\E s \in Run : Works(s)) => u \in Run /\ Works(u)
    OBVIOUS
  <2> HIDE DEF u
  <2>6. UserOf(x) = r <=> Works(r)
    BY <2>2, <2>4, <2>5, TopologyAssumption
  <2> QED
    BY <1>1, <2>2, <2>3, <2>5, <2>6
<1> QED
  BY <1>2, <1>3 DEF Things

\* Whatever executes is served.
LEMMA WorkersServed ==
  ASSUME IInv, NEW r \in Run, LiveIn(task, r) # {}
  PROVE  StageOf(run[r]) = "served"
<1>1. PICK t \in Task : runOf[t] = r /\ Live(task[t])
  BY DEF LiveIn, TasksOf
<1> QED
  BY <1>1, Stages DEF IInv, Inv, AtHome

\* A Run in the queue never arrives again, and is known to the queue counter.
LEMMA Places ==
  ASSUME IInv, NEW r \in Run
  PROVE  /\ run[r].seq \in Nat /\ run[r] \in RunRecord /\ RunOK(run[r])
         /\ StageOf(run[r]) # "away" => run[r].seq <= queueSeq
  BY Stages DEF IInv, Inv, TypeOK, RunRecord, Queued

\* A transaction that admits nobody serves nobody.
LEMMA PassesReserves ==
  ASSUME IInv, IInv', Passes(run, run')
  PROVE  Reservations!Line /\ Reservations!Service
<1>1. ASSUME NEW r \in Run
      PROVE  /\ run[r].seq \in Nat /\ run'[r].seq = run[r].seq
             /\ RunOK(run[r]) /\ RunOK(run'[r]) /\ Moves(run[r], run'[r])
  <2>1. RunOK(run'[r])
    BY DEF IInv, Inv, RunOK, Working
  <2> QED
    BY <2>1, Places DEF Passes, Moves
<1>2. ASSUME NEW r \in Run
      PROVE  /\ StageOf(run'[r]) \in Reservations!Later[StageOf(run[r])]
             /\ StageOf(run'[r]) \in Reservations!Stages
             /\ StageOf(run[r]) = "away" => StageOf(run'[r]) = "away"
             /\ StageOf(run'[r]) = "served" => StageOf(run[r]) = "served"
  BY <1>1, MovesLater, Stages DEF Reservations!Later, Reservations!Stages
<1>3. \A r \in Run : ~Reservations!Comes(r)
  BY <1>2 DEF Reservations!Comes
<1>4. Reservations!Line
  BY <1>1, <1>2, <1>3 DEF Reservations!Line
<1>5. Reservations!Service
  BY <1>2 DEF Reservations!Service
<1> QED
  BY <1>4, <1>5

\* What an admission makes of one Run.
LEMMA AdmissionStages ==
  ASSUME IInv, IInv', NEW rs \in [Run -> RunRecord], AdmitsFrom(rs), NEW r \in Run
  PROVE  /\ StageOf(run[r]) = "away" <=> run[r].phase = "absent"
         /\ run'[r].seq = rs[r].seq /\ rs[r].seq \in Nat
         /\ Arrives(run[r], rs[r]) \/ rs[r].seq = run[r].seq
         /\ Arrives(run[r], rs[r]) <=> StageOf(run[r]) = "away" /\ StageOf(run'[r]) # "away"
         /\ StageOf(run'[r]) \in Reservations!Later[StageOf(run[r])]
         /\ StageOf(run'[r]) \in Reservations!Stages
         /\ StageOf(run[r]) = "inline" => Waiting(rs[r])
         /\ StageOf(run[r]) = "served" => Holding(rs[r])
         /\ StageOf(run[r]) # "served" /\ StageOf(run'[r]) = "served" => r \in Admissible(rs)
<1> DEFINE a == run[r]
           b == rs[r]
           c == Admit(rs, Admissible(rs))[r]
           d == run'[r]
<1>1. RunOK(a) /\ RunOK(d) /\ a \in RunRecord /\ b \in RunRecord
  <2>1. RunOK(run'[r])
    BY DEF IInv, Inv, RunOK, Working
  <2> QED
    BY <2>1, Places
<1>2. Arrives(a, b) \/ (Onward(a, b) /\ Onward(b, a))
  BY DEF AdmitsFrom, Alike
<1>3. Onward(c, d) /\ Onward(d, c)
  BY DEF AdmitsFrom, Alike
<1>4. r \notin Admissible(rs) => c = b
  BY DEF Admit
<1>5. r \in Admissible(rs) => /\ c.admitted /\ c.phase = "planning" /\ c.seq = b.seq
                              /\ c.cleanup = b.cleanup /\ Waiting(b)
  <2>1. Revise(b) \in RunRecord /\ Revise(b).seq = b.seq /\ Revise(b).cleanup = b.cleanup
    BY <1>1, ReviseType DEF Revise, RunRecord
  <2> QED
    BY <2>1 DEF Admit, Admissible, RunRecord
<1> HIDE DEF a, b, c, d
<1>6. CASE r \in Admissible(rs)
  <2>1. b.cleanup # "released" /\ ~Holding(a)
    BY <1>1, <1>2, <1>5, <1>6 DEF RunOK, Onward, Arrives, Waiting, Open, Holding, Terminal
  <2>2. StageOf(d) = "served" /\ d.seq = b.seq
    BY <1>1, <1>3, <1>5, <1>6, <2>1, Stages DEF Onward, Holding
  <2>3. StageOf(a) \in {"away", "inline"} /\ (StageOf(a) = "away" <=> Arrives(a, b))
    BY <1>1, <1>2, <1>5, <1>6, Stages DEF Onward, Arrives, Waiting, Open
  <2>4. /\ StageOf(d) \in Reservations!Later[StageOf(a)]
        /\ StageOf(d) \in Reservations!Stages
    BY <2>2, <2>3 DEF Reservations!Later, Reservations!Stages
  <2>5. Waiting(b) /\ (Arrives(a, b) \/ b.seq = a.seq) /\ b.seq \in Nat
    BY <1>1, <1>2, <1>5, <1>6 DEF Onward, RunRecord
  <2>6. StageOf(a) = "away" <=> a.phase = "absent"
    BY <1>1, Stages
  <2> QED
    BY <1>6, <2>2, <2>3, <2>4, <2>5, <2>6 DEF a, b, d
<1>7. CASE r \notin Admissible(rs) /\ Arrives(a, b)
  <2>1. Onward(b, d) /\ Onward(d, b) /\ ~Holding(b) /\ a.phase = "absent" /\ StageOf(a) = "away"
    BY <1>1, <1>3, <1>4, <1>7, Stages DEF Arrives, Holding
  <2>2. ~Holding(d) /\ d.phase # "absent" /\ d.seq = b.seq
    BY <1>7, <2>1 DEF Arrives, Onward, Holding
  <2>3. StageOf(d) # "served" /\ b.seq \in Nat
    BY <1>1, <2>2, Stages DEF RunRecord
  <2>4. StageOf(d) = "inline"
    BY <1>1, <1>7, <2>1, Stages DEF Arrives, Onward, Waiting, Open, Terminal
  <2>5. /\ StageOf(d) \in Reservations!Later[StageOf(a)]
        /\ StageOf(d) \in Reservations!Stages
    BY <2>1, <2>4 DEF Reservations!Later, Reservations!Stages
  <2> QED
    BY <1>7, <2>1, <2>2, <2>3, <2>4, <2>5 DEF a, b, d
<1>8. CASE r \notin Admissible(rs) /\ Onward(a, b) /\ Onward(b, a)
  <2>1. Onward(b, d) /\ Moves(a, d)
    BY <1>3, <1>4, <1>8 DEF Onward, Moves
  <2>2. StageOf(d) = StageOf(a) \/ (StageOf(a) \in {"inline", "served"} /\ StageOf(d) = "gone")
    BY <1>1, <2>1, MovesLater
  <2>3. (Waiting(a) => Waiting(b)) /\ (Holding(a) => Holding(b)) /\ d.seq = b.seq /\ b.seq = a.seq
    BY <1>8, <2>1 DEF Onward, Waiting, Open, Holding
  <2>4. /\ StageOf(d) \in Reservations!Later[StageOf(a)]
        /\ StageOf(d) \in Reservations!Stages
    BY <1>1, <2>2, Stages DEF Reservations!Later, Reservations!Stages
  <2>5. ~Arrives(a, b) /\ b.seq \in Nat
    BY <1>1, <1>8 DEF Arrives, Onward, RunRecord
  <2> QED
    BY <1>1, <2>2, <2>3, <2>4, <2>5, Stages DEF a, b, d
<1> QED
  BY <1>2, <1>6, <1>7, <1>8

LEMMA AdmitsLine ==
  ASSUME IInv, IInv', NEW rs \in [Run -> RunRecord], AdmitsFrom(rs)
  PROVE  Reservations!Line
<1>1. \A r \in Run : Reservations!Comes(r) <=> Arrives(run[r], rs[r])
  BY AdmissionStages DEF Reservations!Comes
<1>2. ASSUME NEW r \in Run, Arrives(run[r], rs[r])
      PROVE  run'[r].seq = queueSeq + 1
  BY <1>2, AdmissionStages DEF Arrives
<1>3. ASSUME NEW r \in Run, ~Arrives(run[r], rs[r])
      PROVE  run'[r].seq = run[r].seq
  BY <1>3, AdmissionStages
<1>4. ASSUME NEW r \in Run, NEW s \in Run, Arrives(run[r], rs[r]), StageOf(run[s]) # "away"
      PROVE  run[s].seq < run'[r].seq
  <2>1. run[s].seq <= queueSeq /\ run[s].seq \in Nat /\ queueSeq \in Nat
    BY <1>4, Places DEF IInv, TypeOK
  <2> QED
    BY <1>2, <1>4, <2>1
<1>5. \A r \in Run : StageOf(run'[r]) \in Reservations!Later[StageOf(run[r])]
                     /\ StageOf(run'[r]) \in Reservations!Stages /\ run'[r].seq \in Nat
  BY AdmissionStages
<1>6. \A r, s \in Run : Arrives(run[r], rs[r]) /\ Arrives(run[s], rs[s]) => r = s
  BY DEF AdmitsFrom
<1> QED
  BY <1>1, <1>3, <1>4, <1>5, <1>6 DEF Reservations!Line

\* A transaction that admits Runs serves them in turn, with what nobody uses.
LEMMA AdmitsService ==
  ASSUME IInv, IInv', NEW rs \in [Run -> RunRecord], AdmitsFrom(rs)
  PROVE  Reservations!Service
<1> SUFFICES ASSUME NEW r \in Run, StageOf(run[r]) # "served", StageOf(run'[r]) = "served"
             PROVE  /\ \A x \in Needs[r] : UserOf(x) = NoRun
                    /\ \A s \in Run \ {r} : StageOf(run[s]) = "inline"
                              /\ Needs[r] \cap Needs[s] # {}
                                               => run'[r].seq < run[s].seq
  <2>1. \A r \in Run : \A x \in Needs[r] : x \in Things
    BY TopologyAssumption DEF Needs, Things
  <2> QED
    BY <2>1 DEF Reservations!Service
<1>1. r \in Admissible(rs)
  BY AdmissionStages
<1>2. ASSUME NEW x \in Needs[r]
      PROVE  UserOf(x) = NoRun
  <2>1. CASE x = <<"team", teamOf[r]>>
    <3>1. \A s \in Run : Holding(run[s]) => Holding(rs[s])
      BY AdmissionStages, Places, Stages
    <3>2. \A s \in Run : ~(Holding(run[s]) /\ teamOf[s] = teamOf[r])
      BY <1>1, <3>1 DEF Admissible, ActiveBlocks
    <3> QED
      BY <2>1, <3>2 DEF UserOf
  <2>2. CASE \E role \in roster[r] : x = <<"role", role>>
    BY <1>1, <2>2 DEF Admissible, UserOf
  <2> QED
    BY <2>1, <2>2 DEF Needs
<1>3. ASSUME NEW s \in Run, s # r, StageOf(run[s]) = "inline", Needs[r] \cap Needs[s] # {}
      PROVE  run'[r].seq < run[s].seq
  <2>1. Clash(s, r)
    BY <1>3 DEF Clash, Needs
  <2>2. /\ Waiting(rs[s]) /\ ~Arrives(run[s], rs[s]) /\ rs[s].seq = run[s].seq
        /\ rs[s].seq \in Nat /\ rs[r].seq \in Nat /\ run'[r].seq = rs[r].seq
    BY <1>3, AdmissionStages
  <2>3. ~(rs[s].seq < rs[r].seq)
    BY <1>1, <2>1, <2>2 DEF Admissible, EarlierBlocks
  <2>4. rs[r].seq # rs[s].seq
    <3>1. CASE Arrives(run[r], rs[r])
      <4>1. run[s].seq <= queueSeq /\ queueSeq \in Nat
        BY <1>3, Places DEF IInv, TypeOK
      <4> QED
        BY <2>2, <3>1, <4>1 DEF Arrives
    <3>2. CASE ~Arrives(run[r], rs[r])
      <4>1. rs[r].seq = run[r].seq /\ StageOf(run[r]) # "away"
        BY <3>2, AdmissionStages
      <4>2. run[r].phase # "absent" /\ run[s].phase # "absent"
        BY <1>3, <4>1, Places, Stages
      <4> QED
        BY <1>3, <2>2, <4>1, <4>2 DEF IInv, Inv, Queued
    <3> QED
      BY <3>1, <3>2
  <2> QED
    BY <2>2, <2>3, <2>4
<1> QED
  BY <1>2, <1>3

LEMMA ReservationsInit ==
  ASSUME Init
  PROVE  Reservations!Init
<1>1. IInv
  BY InitInv
<1>2. \A r \in Run : run[r].phase = "absent" /\ run[r].seq = 0 /\ ~Holding(run[r])
  BY DEF Init, Holding
<1>3. \A r \in Run : StageOf(run[r]) = "away"
  BY <1>1, <1>2, Stages DEF IInv, Inv
<1>4. \A x \in Things : UserOf(x) = NoRun
  BY <1>2 DEF Init, UserOf, Things
<1>5. \A r \in Run : LiveIn(task, r) = {}
  BY DEF Init, LiveIn, Live, NewTask, TasksOf
<1> QED
  BY <1>2, <1>3, <1>4, <1>5 DEF Reservations!Init

\* What is used is used by those that are served, whatever executes included.
InUse ==
  /\ \A x \in Things : UserOf(x) \in Run \cup {NoRun}
  /\ \A x \in Things, r \in Run : UserOf(x) = r <=> StageOf(run[r]) = "served" /\ x \in Needs[r]
  /\ \A r \in Run : LiveIn(task, r) # {} => StageOf(run[r]) = "served"

LEMMA ReservationsUse == IInv' => Reservations!Use
<1>1. IInv => InUse
  <2>1. IInv => \A x \in Things : UserOf(x) \in Run \cup {NoRun}
    BY DEF UserOf, IInv, TypeOK, Things
  <2> QED
    BY <2>1, Users, WorkersServed DEF InUse
<1>2. IInv' => InUse'
  BY <1>1, PTL
<1> QED
  BY <1>2 DEF InUse, Reservations!Use

LEMMA ReservationsStep ==
  ASSUME IInv, [Next]_vars
  PROVE  Reservations!Next
<1>1. IInv'
  BY NextInv
<1>2. Reservations!Line /\ Reservations!Service
  BY <1>1, StepInv, PassesReserves, AdmitsLine, AdmitsService DEF Transacts
<1> QED
  BY <1>1, <1>2, ReservationsUse DEF Reservations!Next

\* Over any Runs, Teams, rosters and failures, Teams and Roles are used as
\* Reservations promises: all at once, in turn, for as long as anything of the
\* Run may still execute, and once.
THEOREM ReservationsKept == Spec => ImplementsReservations
<1>1. Init => Reservations!Init
  BY ReservationsInit
<1>2. IInv /\ [Next]_vars => [Reservations!Next]_(Reservations!vars)
  BY ReservationsStep
<1> QED
  BY <1>1, <1>2, InductiveInvariant, PTL DEF Spec, ImplementsReservations, Reservations!Spec
-----------------------------------------------------------------------------
(* The turn.  What Reservations promises of the line, and cancelled Runs    *)
(* staying cancelled, make the first in line stay the first.               *)

\* Nobody comes between the next Run in line and its admission: it stays next, with
\* only cancelled Runs in its way, until it waits no longer.
TurnKept == [][\A s \in Run : NextInLine(s) => NextInLine(s)' \/ ~Waiting(run'[s])]_vars

\* When those are gone, only what NextInLine does not speak of can keep it from its
\* admission: a hold, or a Leader that is not there under the binding it recorded.
NextIsAdmissible ==
  \A s \in Run : NextInLine(s) =>
    \/ s \in Admissible(run)
    \/ run[s].hold \/ ~LeaderReady(teamOf[s]) \/ lead[teamOf[s]].epoch # run[s].leader
    \/ \E r \in Run \ {s} : Clash(r, s) /\ Holding(run[r]) /\ run[r].phase = "cancelled"

LEMMA CancelledStays ==
  ASSUME IInv, [Next]_vars, NEW r \in Run, run[r].phase = "cancelled"
  PROVE  run'[r].phase = "cancelled"
<1>1. CASE Passes(run, run')
  BY <1>1 DEF Passes, Moves
<1>2. ASSUME NEW rs \in [Run -> RunRecord], AdmitsFrom(rs)
      PROVE  run'[r].phase = "cancelled"
  <2>1. rs[r].phase = "cancelled"
    BY <1>2 DEF AdmitsFrom, Arrives, Alike, Onward
  <2>2. Admit(rs, Admissible(rs))[r] = rs[r]
    BY <2>1 DEF Admit, Admissible, Waiting, Open, Terminal
  <2> QED
    BY <1>2, <2>1, <2>2 DEF AdmitsFrom, Alike, Onward
<1> QED
  BY <1>1, <1>2, StepInv DEF Transacts

LEMMA TurnStep ==
  ASSUME IInv, [Next]_vars, NEW s \in Run, NextInLine(s), Waiting(run'[s])
  PROVE  NextInLine(s)'
<1>0. IInv' /\ Reservations!Next
  BY NextInv, ReservationsStep
<1>1. /\ \A r \in Run : StageOf(run[r]) = "inline" <=> Waiting(run[r])
      /\ \A r \in Run : StageOf(run[r]) = "served" <=> Holding(run[r])
      /\ \A r \in Run : StageOf(run[r]) \in {"away", "inline", "served", "gone"}
      /\ \A r \in Run : run[r].seq \in Nat
  BY Stages DEF IInv, Inv, TypeOK, RunRecord
<1>2. /\ \A r \in Run : StageOf(run'[r]) = "inline" <=> Waiting(run'[r])
      /\ \A r \in Run : StageOf(run'[r]) = "served" <=> Holding(run'[r])
      /\ \A r \in Run : run'[r].seq \in Nat
  <2>1. \A r \in Run : RunOK(run'[r])
    BY <1>0 DEF IInv, Inv, RunOK, Working
  <2> QED
    BY <1>0, <2>1, Stages DEF IInv, TypeOK, RunRecord
<1>3. Waiting(run[s]) /\ StageOf(run[s]) = "inline" /\ run'[s].seq = run[s].seq
  BY <1>0, <1>1 DEF NextInLine, Reservations!Next, Reservations!Line, Reservations!Comes
<1>4. ASSUME NEW r \in Run \ {s}, Clash(r, s), Waiting(run'[r])
      PROVE  run'[s].seq < run'[r].seq
  <2>1. StageOf(run[r]) \in {"away", "inline"}
    BY <1>0, <1>1, <1>2, <1>4 DEF Reservations!Next, Reservations!Line, Reservations!Later
  <2>2. CASE StageOf(run[r]) = "inline"
    BY <1>0, <1>1, <1>3, <1>4, <2>2
    DEF NextInLine, Reservations!Next, Reservations!Line, Reservations!Comes
  <2>3. CASE StageOf(run[r]) = "away"
    BY <1>0, <1>2, <1>3, <1>4, <2>3
    DEF Reservations!Next, Reservations!Line, Reservations!Comes
  <2> QED
    BY <2>1, <2>2, <2>3
<1>5. ASSUME NEW r \in Run \ {s}, Clash(r, s), Holding(run'[r])
      PROVE  run'[r].phase = "cancelled"
  <2>1. CASE Holding(run[r])
    BY <1>5, <2>1, CancelledStays DEF NextInLine
  <2>2. CASE ~Holding(run[r])
    <3>1. Needs[r] \cap Needs[s] # {}
      <4>1. \A q \in Run : /\ <<"team", teamOf[q]>> \in Needs[q]
                          /\ \A role \in roster[q] : <<"role", role>> \in Needs[q]
        BY DEF Needs
      <4>2. CASE teamOf[r] = teamOf[s]
        <5>1. <<"team", teamOf[r]>> \in Needs[r] /\ <<"team", teamOf[r]>> \in Needs[s]
          BY <4>1, <4>2
        <5> QED
          BY <5>1
      <4>3. CASE roster[r] \cap roster[s] # {}
        <5>1. PICK role : role \in roster[r] /\ role \in roster[s]
          BY <4>3
        <5>2. <<"role", role>> \in Needs[r] /\ <<"role", role>> \in Needs[s]
          BY <4>1, <5>1
        <5> QED
          BY <5>2
      <4> QED
        BY <1>5, <4>2, <4>3 DEF Clash
    <3>2. StageOf(run[r]) # "served" /\ StageOf(run'[r]) = "served"
      BY <1>1, <1>2, <1>5, <2>2
    <3>3. run'[r].seq < run[s].seq
      BY <1>0, <1>3, <1>5, <3>1, <3>2 DEF Reservations!Next, Reservations!Service
    <3>4. CASE StageOf(run[r]) = "away"
      <4>1. run[s].seq < run'[r].seq
        BY <1>0, <1>3, <3>2, <3>4
        DEF Reservations!Next, Reservations!Line, Reservations!Comes
      <4> QED
        BY <1>1, <1>2, <3>3, <4>1
    <3>5. CASE StageOf(run[r]) # "away"
      <4>1. Waiting(run[r]) /\ run'[r].seq = run[r].seq
        BY <1>0, <1>1, <3>2, <3>5
        DEF Reservations!Next, Reservations!Line, Reservations!Later, Reservations!Comes
      <4> QED
        BY <1>1, <1>5, <3>3, <4>1 DEF NextInLine
    <3> QED
      BY <3>4, <3>5
  <2> QED
    BY <2>1, <2>2
<1> QED
  BY <1>4, <1>5 DEF NextInLine

\* The first in line stays the first: the part of HandOver that needs no fairness.
THEOREM TurnIsKept == Spec => TurnKept
<1>1. IInv /\ [Next]_vars =>
        [\A s \in Run : NextInLine(s) => NextInLine(s)' \/ ~Waiting(run'[s])]_vars
  BY TurnStep
<1> QED
  BY <1>1, InductiveInvariant, PTL DEF Spec, TurnKept

\* The first in line that nobody is in the way of is in the set that the next Tick
\* admits.
THEOREM NextAdmitted == Spec => []NextIsAdmissible
<1>1. IInv => NextIsAdmissible
  <2> SUFFICES ASSUME IInv, NEW s \in Run, NextInLine(s),
                      ~run[s].hold, LeaderReady(teamOf[s]), lead[teamOf[s]].epoch = run[s].leader,
                      \A r \in Run \ {s} : ~(Clash(r, s) /\ Holding(run[r]))
               PROVE  s \in Admissible(run)
    BY DEF NextIsAdmissible, NextInLine
  <2>1. Waiting(run[s]) /\ ~Holding(run[s])
    BY DEF NextInLine, Waiting, Holding
  <2>2. \A r \in Run : ~ActiveBlocks(run, r, s)
    BY <2>1 DEF ActiveBlocks, Clash
  <2>3. \A r \in Run : ~EarlierBlocks(run, r, s)
    <3>1. \A r \in Run : run[r].seq \in Nat
      BY DEF IInv, TypeOK, RunRecord
    <3> QED
      BY <3>1 DEF EarlierBlocks, NextInLine
  <2>4. ASSUME NEW role \in roster[s]
        PROVE  owner[role] = NoRun
    <3>1. role \in Role /\ owner[role] \in Run \cup {NoRun}
      BY TopologyAssumption DEF IInv, TypeOK
    <3>2. \A r \in Run : owner[role] = r => Holding(run[r]) /\ role \in roster[r]
      BY <3>1 DEF IInv, Inv, Owns
    <3> QED
      BY <2>1, <3>1, <3>2 DEF Clash
  <2> QED
    BY <2>1, <2>2, <2>3, <2>4 DEF Admissible
<1> QED
  BY <1>1, InductiveInvariant, PTL
=============================================================================
