---------------------------- MODULE TaskTreeProofs ----------------------------
(* TaskTree: what a parent, its children and their questions may never do,  *)
(* for any trees, agents and bounds.                                        *)
EXTENDS TaskTree, TLAPS, FiniteSetTheorems, WellFoundedInduction

-----------------------------------------------------------------------------
(* The inductive invariant.  T, A and Q are the tables tasks, attempts and   *)
(* clarifications, at some point of a transaction.                           *)

TasksOK(T) == T \in [Task -> TaskRecord]
AttemptsOK(A) == A \in [Task -> AttemptRecord]
QuestionsOK(Q) == Q \in [Task -> QuestionRecord]

\* Whoever has no Attempt has no lease, who is done, or not yet there, has no
\* Attempt, and who is not yet there has had none.
AtRest(T, A) ==
  \A t \in Task : /\ ~Live(A[t]) => A[t] = NoAttempt
                  /\ T[t].state \in {"absent", "completed"} => ~Live(A[t])
                  /\ T[t].state = "absent" => T[t].tries = 0

\* WorksAlone, of the table A.
Alone(A) ==
  \A t \in Task : parentOf[t] # None => ~(Working(A[parentOf[t]]) /\ Live(A[t]))

\* The question of t has no answer yet; a child has put one to its Attempt.
Open(Q, t) == Q[t].state \in {"waiting_child_settled", "answering"}
Asked(T, Q, t) ==
  \E c \in Task : /\ parentOf[c] = t /\ Q[c].to = T[t].tries
                  /\ Q[c].state \in {"answering", "answered"}

\* An asker remembers its question until the answer: it yields, and is suspended
\* with it.
Remembers(x, t) ==
  /\ Executing(x) => x.mode = "work" /\ x.yield
  /\ Executing(x) \/ Suspended(x) => x.about = t

Askers(T, A, Q) ==
  \A t \in Task :
    /\ Open(Q, t) => parentOf[t] # None /\ Q[t].from <= T[t].tries
    /\ Open(Q, t) /\ Q[t].from = T[t].tries /\ ~Asked(T, Q, t) => Remembers(A[t], t)

\* A response segment answers what a child has asked the Attempt it belongs to.
Responses(T, A, Q) ==
  \A t \in Task : Executing(A[t]) /\ A[t].mode = "response_only" =>
    LET q == A[t].about IN
    /\ q \in Task /\ parentOf[q] = t
    /\ Q[q].state = "answering" /\ Q[q].to = T[t].tries

\* A Task without a result has no verdict; CoverageHonest, of the table T.
Numbered(T) == \A t \in Task : T[t].result = 0 => T[t].verdict = NoVerdict

Honest(T) ==
  \A t \in Task : parentOf[t] # None /\ T[t].verdict.decision = "accepted" =>
    LET p == parentOf[t] IN
    /\ T[t].state = "completed" /\ T[t].verdict.result = T[t].result
    /\ T[p].state = "completed" /\ T[p].verdict.decision = "accepted"
    /\ T[p].result = T[t].verdict.by /\ T[p].verdict.result = T[p].result
    /\ T[p].refs[t] = T[t].result

TreeInv(T, A, Q) ==
  /\ TasksOK(T) /\ AttemptsOK(A) /\ QuestionsOK(Q)
  /\ AtRest(T, A) /\ Alone(A) /\ Askers(T, A, Q) /\ Responses(T, A, Q)
  /\ Numbered(T) /\ Honest(T)

IInv == TreeInv(task, attempt, question)

-----------------------------------------------------------------------------
(* Ancestors and coverage.                                                   *)

LEMMA NotNone == None \notin Task
  BY TreeAssumption

LEMMA ParentOf ==
  ASSUME NEW t \in Task
  PROVE  /\ parentOf[t] # None => parentOf[t] \in Task /\ parentOf[t] # t
         /\ attempts[t] \in Nat
<1>1. parentOf[t] \in Task \cup {None}
  BY TreeAssumption
<1>2. ASSUME parentOf[t] = t
      PROVE  FALSE
  <2>1. parentOf[t] # None
    BY <1>2, NotNone
  <2>2. rank[t] < rank[t] /\ rank[t] \in Nat
    BY <1>2, <2>1, TreeAssumption
  <2> QED
    BY <2>2
<1> QED
  BY <1>1, <1>2, TreeAssumption

\* The ancestors of a Task are its parent and those of its parent.
LEMMA AncestorsUp ==
  ASSUME NEW t \in Task, parentOf[t] # None,
         NEW u \in {parentOf[t]} \cup Ancestors[parentOf[t]]
  PROVE  u \in Ancestors[t]
<1> DEFINE Holds(S, v) == parentOf[v] # None => parentOf[v] \in S
           Upward == {S \in SUBSET Task : \A v \in S : Holds(S, v)}
<1>1. parentOf[t] \in Task
  BY ParentOf
<1>2. \A v \in Task : Ancestors[v] = {w \in Task : \A S \in Upward : Holds(S, v) => w \in S}
  BY DEF Ancestors
<1>3. u \in Task
  BY <1>1, <1>2
<1>4. ASSUME NEW S \in Upward, Holds(S, t)
      PROVE  u \in S
  <2>1. parentOf[t] \in S
    BY <1>4
  <2>2. Holds(S, parentOf[t])
    BY <2>1, <1>4
  <2>3. CASE u \in Ancestors[parentOf[t]]
    BY <2>2, <2>3, <1>1, <1>2, <1>4
  <2> QED
    BY <2>1, <2>3
<1> QED
  BY <1>2, <1>3, <1>4

LEMMA CoversUp ==
  ASSUME NEW T, NEW t \in Task, parentOf[t] # None, Covers(T, t)
  PROVE  Covers(T, parentOf[t])
<1>1. \A u \in {parentOf[t]} \cup Ancestors[parentOf[t]] : u \in Ancestors[t]
  BY AncestorsUp
<1> QED
  BY <1>1 DEF Covers

LEMMA CoversBoth ==
  ASSUME NEW T, NEW t \in Task, parentOf[t] # None, Covers(T, t)
  PROVE  LET p == parentOf[t] IN
         /\ T[t].state = "completed" /\ T[t].result # 0
         /\ T[p].state = "completed" /\ T[p].result # 0
         /\ T[p].refs[t] = T[t].result
         /\ parentOf[p] = None => /\ T[p].verdict.decision = "accepted"
                                  /\ T[p].verdict.result = T[p].result
<1>1. Covers(T, parentOf[t])
  BY CoversUp
<1> QED
  BY <1>1 DEF Covers

LEMMA CoveredTyped ==
  ASSUME NEW T, TasksOK(T)
  PROVE  /\ TasksOK(Covered(T))
         /\ \A t \in Task : /\ Covered(T)[t].state = T[t].state
                            /\ Covered(T)[t].tries = T[t].tries
                            /\ Covered(T)[t].result = T[t].result
                            /\ Covered(T)[t].refs = T[t].refs
                            /\ Covered(T)[t].waits = T[t].waits
<1>1. ASSUME NEW t \in Task
      PROVE  /\ Covered(T)[t] \in TaskRecord
             /\ Covered(T)[t].state = T[t].state
             /\ Covered(T)[t].tries = T[t].tries
             /\ Covered(T)[t].result = T[t].result
             /\ Covered(T)[t].refs = T[t].refs
             /\ Covered(T)[t].waits = T[t].waits
  <2>1. CASE parentOf[t] = None \/ T[t].result = 0
    BY <2>1 DEF Covered, TasksOK
  <2>2. CASE ~(parentOf[t] = None \/ T[t].result = 0)
    <3> DEFINE v == IF Covers(T, t)
                    THEN [decision |-> "accepted", result |-> T[t].result,
                          by |-> T[parentOf[t]].result]
                    ELSE NoVerdict
    <3>1. Covered(T)[t] = [T[t] EXCEPT !.verdict = v]
      BY <2>2 DEF Covered
    <3>2. T[t] \in TaskRecord /\ T[parentOf[t]] \in TaskRecord
      BY <2>2, ParentOf DEF TasksOK
    <3>3. v \in Verdicts
      BY <3>2 DEF Verdicts, NoVerdict, TaskRecord
    <3> HIDE DEF v
    <3> QED
      BY <3>1, <3>2, <3>3 DEF TaskRecord
  <2> QED
    BY <2>1, <2>2
<1>2. Covered(T) = [t \in Task |-> Covered(T)[t]]
  BY DEF Covered
<1> QED
  BY <1>1, <1>2 DEF TasksOK

LEMMA CoveredVerdict ==
  ASSUME NEW T, TasksOK(T), NEW t \in Task
  PROVE  /\ T[t].result = 0 \/ parentOf[t] = None => Covered(T)[t] = T[t]
         /\ T[t].result # 0 /\ parentOf[t] # None /\ Covers(T, t) =>
              Covered(T)[t].verdict = [decision |-> "accepted", result |-> T[t].result,
                                       by |-> T[parentOf[t]].result]
         /\ T[t].result # 0 /\ parentOf[t] # None /\ ~Covers(T, t) =>
              Covered(T)[t].verdict = NoVerdict
<1>1. T[t] \in TaskRecord
  BY DEF TasksOK
<1>2. \A c \in TaskRecord : \A v : [c EXCEPT !.verdict = v].verdict = v
  BY DEF TaskRecord
<1>3. CASE T[t].result = 0 \/ parentOf[t] = None
  BY <1>3 DEF Covered
<1>4. CASE T[t].result # 0 /\ parentOf[t] # None
  <2>1. Covered(T)[t] = [T[t] EXCEPT !.verdict =
                           IF Covers(T, t)
                           THEN [decision |-> "accepted", result |-> T[t].result,
                                 by |-> T[parentOf[t]].result]
                           ELSE NoVerdict]
    BY <1>4 DEF Covered
  <2> DEFINE v == IF Covers(T, t)
                  THEN [decision |-> "accepted", result |-> T[t].result,
                        by |-> T[parentOf[t]].result]
                  ELSE NoVerdict
  <2>2. Covered(T)[t].verdict = v
    <3>1. Covered(T)[t] = [T[t] EXCEPT !.verdict = v]
      BY <2>1
    <3> HIDE DEF v
    <3> QED
      BY <1>1, <1>2, <3>1
  <2>3. CASE Covers(T, t)
    BY <1>4, <2>2, <2>3
  <2>4. CASE ~Covers(T, t)
    BY <1>4, <2>2, <2>4
  <2> QED
    BY <2>3, <2>4
<1> QED
  BY <1>3, <1>4

\* After coverChildren an accepted child is accounted for.
LEMMA CoveredHonest ==
  ASSUME NEW T, TasksOK(T), Numbered(T)
  PROVE  Numbered(Covered(T)) /\ Honest(Covered(T))
<1> DEFINE C == Covered(T)
<1>1. \A t \in Task : /\ C[t].state = T[t].state /\ C[t].result = T[t].result
                      /\ C[t].refs = T[t].refs
  BY CoveredTyped
<1>2. ASSUME NEW t \in Task, C[t].result = 0
      PROVE  C[t].verdict = NoVerdict
  BY <1>1, <1>2, CoveredVerdict DEF Numbered
<1>3. ASSUME NEW t \in Task, parentOf[t] # None, C[t].verdict.decision = "accepted"
      PROVE  LET p == parentOf[t] IN
             /\ C[t].state = "completed" /\ C[t].verdict.result = C[t].result
             /\ C[p].state = "completed" /\ C[p].verdict.decision = "accepted"
             /\ C[p].result = C[t].verdict.by /\ C[p].verdict.result = C[p].result
             /\ C[p].refs[t] = C[t].result
  <2> DEFINE p == parentOf[t]
  <2>1. p \in Task
    BY <1>3, ParentOf
  <2>2. T[t].result # 0
    BY <1>1, <1>2, <1>3 DEF NoVerdict
  <2>3. Covers(T, t)
    <3>1. ~Covers(T, t) => C[t].verdict = NoVerdict
      BY <1>3, <2>2, CoveredVerdict
    <3>2. NoVerdict.decision # "accepted"
      BY DEF NoVerdict
    <3> QED
      BY <1>3, <3>1, <3>2
  <2>4. C[t].verdict = [decision |-> "accepted", result |-> T[t].result, by |-> T[p].result]
    BY <1>3, <2>2, <2>3, CoveredVerdict
  <2>5. /\ T[t].state = "completed" /\ T[p].state = "completed" /\ T[p].result # 0
        /\ T[p].refs[t] = T[t].result
    BY <1>3, <2>3, CoversBoth
  <2>6. C[p].verdict.decision = "accepted" /\ C[p].verdict.result = T[p].result
    <3>1. CASE parentOf[p] = None
      <4>1. C[p] = T[p]
        BY <2>1, <3>1, CoveredVerdict
      <4>2. T[p].verdict.decision = "accepted" /\ T[p].verdict.result = T[p].result
        BY <1>3, <2>3, <3>1, CoversBoth
      <4> QED
        BY <4>1, <4>2
    <3>2. CASE parentOf[p] # None
      <4>1. Covers(T, p)
        BY <1>3, <2>3, CoversUp
      <4>2. C[p].verdict = [decision |-> "accepted", result |-> T[p].result,
                            by |-> T[parentOf[p]].result]
        BY <2>1, <2>5, <3>2, <4>1, CoveredVerdict
      <4> QED
        BY <4>2
    <3> QED
      BY <3>1, <3>2
  <2> QED
    BY <1>1, <2>1, <2>4, <2>5, <2>6
<1> QED
  BY <1>2, <1>3 DEF Numbered, Honest

-----------------------------------------------------------------------------
(* Writes of the table tasks.                                                *)

\* What an interruption does to a row at most.
Sinks(c, d) ==
  /\ d.tries = c.tries /\ d.waits = c.waits
  /\ d.state = c.state \/ (~Terminal(c.state) /\ d.state = "needs_review")

LEMMA FailedRow ==
  ASSUME NEW c \in TaskRecord
  PROVE  /\ Failed(c) \in TaskRecord
         /\ Failed(c).state = "needs_review" /\ Failed(c).tries = c.tries
         /\ Failed(c).waits = c.waits
         /\ Failed(c).result = c.result /\ Failed(c).verdict = c.verdict
  BY DEF Failed, TaskRecord

LEMMA FailAncestorsRows ==
  ASSUME NEW T, TasksOK(T), Numbered(T), NEW B
  PROVE  LET F == FailAncestors(T, B) IN
         /\ TasksOK(F) /\ Numbered(F) /\ Honest(F)
         /\ \A t \in Task : Sinks(T[t], F[t])
<1> DEFINE Hit(t) == (\E b \in B : t \in Ancestors[b]) /\ ~Terminal(T[t].state)
           M == [t \in Task |-> IF Hit(t) THEN Failed(T[t]) ELSE T[t]]
<1>1. FailAncestors(T, B) = Covered(M)
  BY DEF FailAncestors
<1>2. \A t \in Task : T[t] \in TaskRecord
  BY DEF TasksOK
<1>3. ASSUME NEW t \in Task
      PROVE  /\ M[t] \in TaskRecord /\ Sinks(T[t], M[t])
             /\ M[t].result = T[t].result /\ M[t].verdict = T[t].verdict
  <2>1. CASE Hit(t)
    BY <1>2, <2>1, FailedRow DEF Sinks
  <2>2. CASE ~Hit(t)
    BY <1>2, <2>2 DEF Sinks
  <2> QED
    BY <2>1, <2>2
<1>4. M = [t \in Task |-> M[t]]
  OBVIOUS
<1> HIDE DEF M
<1>5. TasksOK(M) /\ Numbered(M)
  BY <1>3, <1>4 DEF TasksOK, Numbered
<1>6. /\ TasksOK(Covered(M)) /\ Numbered(Covered(M)) /\ Honest(Covered(M))
      /\ \A t \in Task : /\ Covered(M)[t].state = M[t].state
                         /\ Covered(M)[t].tries = M[t].tries
                         /\ Covered(M)[t].waits = M[t].waits
  BY <1>5, CoveredTyped, CoveredHonest
<1>7. \A t \in Task : Sinks(T[t], Covered(M)[t])
  BY <1>3, <1>6 DEF Sinks
<1> QED
  BY <1>1, <1>6, <1>7

\* A write that leaves what is completed alone, and the verdicts, keeps the books.
Mild(c, d) ==
  /\ c.state = "completed" => d = c
  /\ \/ d.verdict = c.verdict /\ d.result = c.result
     \/ d.verdict = NoVerdict

LEMMA MildKeeps ==
  ASSUME NEW T, NEW T2, Numbered(T), Honest(T),
         \A t \in Task : Mild(T[t], T2[t])
  PROVE  Numbered(T2) /\ Honest(T2)
<1>1. Numbered(T2)
  BY DEF Numbered, Mild
<1>2. ASSUME NEW t \in Task, parentOf[t] # None, T2[t].verdict.decision = "accepted"
      PROVE  LET p == parentOf[t] IN
             /\ T2[t].state = "completed" /\ T2[t].verdict.result = T2[t].result
             /\ T2[p].state = "completed" /\ T2[p].verdict.decision = "accepted"
             /\ T2[p].result = T2[t].verdict.by /\ T2[p].verdict.result = T2[p].result
             /\ T2[p].refs[t] = T2[t].result
  <2> DEFINE p == parentOf[t]
  <2>1. p \in Task
    BY <1>2, ParentOf
  <2>2. T2[t].verdict = T[t].verdict
    <3>1. NoVerdict.decision # "accepted"
      BY DEF NoVerdict
    <3> QED
      BY <1>2, <3>1 DEF Mild
  <2>3. /\ T[t].state = "completed" /\ T[t].verdict.result = T[t].result
        /\ T[p].state = "completed" /\ T[p].verdict.decision = "accepted"
        /\ T[p].result = T[t].verdict.by /\ T[p].verdict.result = T[p].result
        /\ T[p].refs[t] = T[t].result
    BY <1>2, <2>2 DEF Honest
  <2>4. T2[t] = T[t] /\ T2[p] = T[p]
    BY <2>1, <2>3 DEF Mild
  <2> QED
    BY <2>3, <2>4
<1> QED
  BY <1>1, <1>2 DEF Honest

-----------------------------------------------------------------------------
(* Writes of the table attempts that start nothing.                          *)

Calm(x, y) ==
  /\ Live(y) => Live(x)
  /\ ~Live(y) => y = NoAttempt
  /\ Executing(y) => /\ Executing(x) /\ y.mode = x.mode /\ y.about = x.about
                     /\ x.yield => y.yield
  /\ Suspended(y) => (Executing(x) \/ Suspended(x)) /\ y.about = x.about

\* An answer is written into a question.
Alike(q, r) == r.state = q.state /\ r.from = q.from /\ r.to = q.to

LEMMA CalmKeeps ==
  ASSUME NEW T, NEW A, NEW Q, NEW T2, NEW A2, NEW Q2, TreeInv(T, A, Q),
         TasksOK(T2), AttemptsOK(A2), QuestionsOK(Q2),
         \A t \in Task : /\ T2[t].tries = T[t].tries
                         /\ T2[t].state = "absent" => T[t].state = "absent"
                         /\ T2[t].state \in {"absent", "completed"} => ~Live(A2[t])
                         /\ Calm(A[t], A2[t])
                         /\ Alike(Q[t], Q2[t]),
         Numbered(T2), Honest(T2)
  PROVE  TreeInv(T2, A2, Q2)
<1>1. AtRest(T2, A2)
  BY DEF AtRest, Calm, TreeInv
<1>2. Alone(A2)
  <2> SUFFICES ASSUME NEW t \in Task, parentOf[t] # None,
                      Working(A2[parentOf[t]]), Live(A2[t])
               PROVE  FALSE
    BY DEF Alone
  <2>1. parentOf[t] \in Task
    BY ParentOf
  <2>2. Working(A[parentOf[t]]) /\ Live(A[t])
    BY <2>1 DEF Calm, Working
  <2> QED
    BY <2>2 DEF TreeInv, Alone
<1>3. Askers(T2, A2, Q2)
  <2> SUFFICES ASSUME NEW t \in Task, Open(Q2, t)
               PROVE  /\ parentOf[t] # None /\ Q2[t].from <= T2[t].tries
                      /\ Q2[t].from = T2[t].tries /\ ~Asked(T2, Q2, t) => Remembers(A2[t], t)
    BY DEF Askers
  <2>1. Open(Q, t) /\ Q[t].from = Q2[t].from /\ T2[t].tries = T[t].tries
    BY DEF Open, Alike
  <2>2. Asked(T, Q, t) => Asked(T2, Q2, t)
    BY <2>1 DEF Asked, Alike
  <2>3. /\ parentOf[t] # None /\ Q[t].from <= T[t].tries
        /\ Q[t].from = T[t].tries /\ ~Asked(T, Q, t) => Remembers(A[t], t)
    BY <2>1 DEF TreeInv, Askers
  <2>4. Remembers(A[t], t) => Remembers(A2[t], t)
    BY DEF Remembers, Calm
  <2> QED
    BY <2>1, <2>2, <2>3, <2>4
<1>4. Responses(T2, A2, Q2)
  <2> SUFFICES ASSUME NEW t \in Task, Executing(A2[t]), A2[t].mode = "response_only"
               PROVE  LET q == A2[t].about IN
                      /\ q \in Task /\ parentOf[q] = t
                      /\ Q2[q].state = "answering" /\ Q2[q].to = T2[t].tries
    BY DEF Responses
  <2>1. Executing(A[t]) /\ A[t].mode = "response_only" /\ A2[t].about = A[t].about
    BY DEF Calm
  <2> QED
    BY <2>1 DEF TreeInv, Responses, Alike
<1> QED
  BY <1>1, <1>2, <1>3, <1>4 DEF TreeInv

LEMMA StaysCalm ==
  ASSUME NEW T, NEW A, NEW Q, TreeInv(T, A, Q), NEW t \in Task
  PROVE  Calm(A[t], A[t])
  BY DEF TreeInv, AtRest, Calm

-----------------------------------------------------------------------------
(* Tick, part by part.                                                       *)

\* What no transaction changes in a row when it interrupts it.
Interrupted(c, d) ==
  /\ d.tries = c.tries
  /\ d.state \in {"absent", "completed"} => d.state = c.state

LEMMA SpoiltKeeps ==
  ASSUME NEW T, NEW A, NEW Q, TreeInv(T, A, Q), NEW X
  PROVE  TreeInv(Spoilt(T, X), A, Q)
<1> DEFINE spoilt == CHOOSE f : f = [t \in Task |->
              \/ t \in X
              \/ \E c \in Task : parentOf[c] = t /\ T[t].refs[c] # 0 /\ f[c]]
           bad == {t \in Task : /\ T[t].state = "completed" /\ T[t].result # 0
                                /\ (spoilt[t] \/ ~RefsValid(T, t))}
           M == [t \in Task |-> IF t \in bad THEN [Failed(T[t]) EXCEPT !.verdict = NoVerdict]
                                             ELSE T[t]]
<1>1. Spoilt(T, X) = FailAncestors(M, bad)
  BY DEF Spoilt
<1> HIDE DEF bad
<1>2. ASSUME NEW c \in TaskRecord
      PROVE  LET d == [Failed(c) EXCEPT !.verdict = NoVerdict] IN
             /\ d \in TaskRecord /\ d.tries = c.tries /\ d.state = "needs_review"
             /\ d.verdict = NoVerdict
  BY DEF Failed, TaskRecord, NoVerdict, Verdicts
<1>3. \A t \in Task : T[t] \in TaskRecord
  BY DEF TreeInv, TasksOK
<1>4. ASSUME NEW t \in Task
      PROVE  /\ M[t] \in TaskRecord /\ Interrupted(T[t], M[t])
             /\ M[t] = T[t] \/ M[t].verdict = NoVerdict
  <2>1. CASE t \in bad
    BY <1>2, <1>3, <2>1 DEF Interrupted
  <2>2. CASE t \notin bad
    BY <1>3, <2>2 DEF Interrupted
  <2> QED
    BY <2>1, <2>2
<1>5. M = [t \in Task |-> M[t]]
  OBVIOUS
<1> HIDE DEF M
<1>6. TasksOK(M) /\ Numbered(M)
  BY <1>4, <1>5 DEF TasksOK, Numbered, TreeInv
<1>7. PICK F : F = FailAncestors(M, bad)
  OBVIOUS
<1>8. TasksOK(F) /\ Numbered(F) /\ Honest(F) /\ \A t \in Task : Sinks(M[t], F[t])
  BY <1>6, <1>7, FailAncestorsRows
<1>9. \A t \in Task : /\ F[t].tries = T[t].tries
                      /\ F[t].state = "absent" => T[t].state = "absent"
                      /\ F[t].state \in {"absent", "completed"} => ~Live(A[t])
                      /\ Calm(A[t], A[t]) /\ Alike(Q[t], Q[t])
  BY <1>4, <1>8, StaysCalm DEF Interrupted, Sinks, TreeInv, AtRest, Alike
<1>10. TreeInv(F, A, Q)
  BY <1>8, <1>9, CalmKeeps DEF TreeInv
<1> QED
  BY <1>1, <1>7, <1>10

LEMMA QuarantineRow ==
  ASSUME NEW x \in AttemptRecord, NEW st \in {"interrupted", "cancelled", "needs_review"}
  PROVE  Quarantine(x, st) \in AttemptRecord /\ Quarantine(x, st).state = st
  BY DEF Quarantine, AttemptRecord

LEMMA QuarantineCalm ==
  ASSUME NEW x, NEW y, Live(x), y.state \in {"interrupted", "cancelled", "needs_review"}
  PROVE  Calm(x, y) /\ Live(y)
  BY DEF Calm, Live, Executing, Suspended

LEMMA ExpiredKeeps ==
  ASSUME NEW T, TreeInv(T, attempt, question),
         NEW G, NEW L, \A t \in Task \cap L : attempt[t].lease = "held"
  PROVE  TreeInv(ExpiredTask(T, G, L), ExpiredAttempt(G, L), question)
<1>1. PICK A, Q, O : A = attempt /\ Q = question /\ O = OfAgents(G)
  OBVIOUS
<1>2. \A t \in Task : A[t] \in AttemptRecord /\ T[t] \in TaskRecord
  BY <1>1 DEF TreeInv, AttemptsOK, TasksOK
<1>3. \A t \in Task : t \in O \cup L => Live(A[t])
  BY <1>1 DEF OfAgents, TreeInv, AtRest, NoAttempt
<1> DEFINE x(t) == IF t \in O THEN Quarantine(A[t], "interrupted") ELSE A[t]
           A2 == [t \in Task |->
                    IF t \notin L THEN x(t)
                    ELSE [x(t) EXCEPT !.lease = "expired",
                                      !.state = IF Terminal(@) THEN @ ELSE "needs_review"]]
           M == [t \in Task |-> IF t \in O THEN [T[t] EXCEPT !.state = "interrupted"]
                                ELSE IF t \in L /\ ~Terminal(T[t].state)
                                     THEN [T[t] EXCEPT !.state = "needs_review"]
                                     ELSE T[t]]
<1>4. ExpiredAttempt(G, L) = A2
  BY <1>1 DEF ExpiredAttempt
<1>5. ExpiredTask(T, G, L) = FailAncestors(M, O \cup L)
  BY <1>1 DEF ExpiredTask
<1>6. ASSUME NEW y \in AttemptRecord, Live(y)
      PROVE  LET z == [y EXCEPT !.lease = "expired",
                                !.state = IF Terminal(@) THEN @ ELSE "needs_review"]
             IN /\ z \in AttemptRecord
                /\ z.state \in {"interrupted", "cancelled", "needs_review"}
  BY <1>6 DEF AttemptRecord, Terminal, Live
<1>7. ASSUME NEW t \in Task
      PROVE  A2[t] \in AttemptRecord /\ Calm(A[t], A2[t])
  <2>1. CASE t \in O /\ t \notin L
    BY <1>2, <1>3, <2>1, QuarantineRow, QuarantineCalm
  <2>2. CASE t \notin O /\ t \notin L
    BY <1>1, <1>2, <2>2, StaysCalm
  <2>3. CASE t \in L
    <3>1. x(t) \in AttemptRecord /\ Live(x(t))
      BY <1>2, <1>3, <2>3, QuarantineRow DEF Live
    <3> HIDE DEF x
    <3>2. A2[t] \in AttemptRecord /\ A2[t].state \in {"interrupted", "cancelled", "needs_review"}
      BY <1>6, <2>3, <3>1
    <3> HIDE DEF A2
    <3> QED
      BY <1>3, <2>3, <3>2, QuarantineCalm
  <2> QED
    BY <2>1, <2>2, <2>3
<1>8. A2 = [t \in Task |-> A2[t]] /\ M = [t \in Task |-> M[t]]
  OBVIOUS
<1> HIDE DEF A2
<1>9. ASSUME NEW c \in TaskRecord, NEW st \in {"interrupted", "needs_review"}
      PROVE  LET d == [c EXCEPT !.state = st] IN
             /\ d \in TaskRecord /\ d.state = st /\ d.tries = c.tries
             /\ d.verdict = c.verdict /\ d.result = c.result
  BY DEF TaskRecord
<1>10. ASSUME NEW t \in Task
       PROVE  /\ M[t] \in TaskRecord /\ Interrupted(T[t], M[t])
              /\ M[t].verdict = T[t].verdict /\ M[t].result = T[t].result
  <2>1. CASE t \in O
    BY <1>2, <1>9, <2>1 DEF Interrupted
  <2>2. CASE t \notin O /\ t \in L /\ ~Terminal(T[t].state)
    BY <1>2, <1>9, <2>2 DEF Interrupted
  <2>3. CASE t \notin O /\ ~(t \in L /\ ~Terminal(T[t].state))
    BY <1>2, <2>3 DEF Interrupted
  <2> QED
    BY <2>1, <2>2, <2>3
<1> HIDE DEF M
<1>11. AttemptsOK(A2)
  BY <1>7, <1>8 DEF AttemptsOK
<1>12. TasksOK(M) /\ Numbered(M)
  BY <1>8, <1>10 DEF TasksOK, Numbered, TreeInv
<1>13. PICK F : F = FailAncestors(M, O \cup L)
  OBVIOUS
<1>14. TasksOK(F) /\ Numbered(F) /\ Honest(F) /\ \A t \in Task : Sinks(M[t], F[t])
  BY <1>12, <1>13, FailAncestorsRows
<1>15. \A t \in Task : /\ F[t].tries = T[t].tries
                       /\ F[t].state = "absent" => T[t].state = "absent"
                       /\ F[t].state \in {"absent", "completed"} => ~Live(A2[t])
                       /\ Calm(A[t], A2[t]) /\ Alike(Q[t], Q[t])
  BY <1>1, <1>7, <1>10, <1>14 DEF Interrupted, Sinks, TreeInv, AtRest, Alike, Calm
<1>16. TreeInv(T, A, Q)
  BY <1>1
<1>17. TreeInv(F, A2, Q)
  BY <1>11, <1>14, <1>15, <1>16, CalmKeeps DEF TreeInv
<1> QED
  BY <1>1, <1>4, <1>5, <1>13, <1>17

\* startResponses: the parents of R answer.
LEMMA RespondingKeeps ==
  ASSUME NEW T, NEW A, TreeInv(T, A, question),
         NEW R \in SUBSET {q \in Task : Askable(T, A, q)}
  PROVE  TreeInv(T, Responding(A, R),
                 [q \in Task |-> IF q \in R THEN [question[q] EXCEPT !.state = "answering"]
                                ELSE question[q]])
<1>1. PICK Q : Q = question
  OBVIOUS
<1> DEFINE Q2 == [q \in Task |-> IF q \in R THEN [Q[q] EXCEPT !.state = "answering"] ELSE Q[q]]
           A2 == Responding(A, R)
           who(t) == CHOOSE q \in R : parentOf[q] = t
           Busy(t) == \E q \in R : parentOf[q] = t
<1>2. TreeInv(T, A, Q)
  BY <1>1
<1>3. \A t \in Task : A[t] \in AttemptRecord /\ T[t] \in TaskRecord /\ Q[t] \in QuestionRecord
  BY <1>2 DEF TreeInv, AttemptsOK, TasksOK, QuestionsOK
<1>4. ASSUME NEW q \in R
      PROVE  /\ q \in Task /\ parentOf[q] # None /\ parentOf[q] \in Task
             /\ Q[q].state = "waiting_child_settled"
             /\ Suspended(A[parentOf[q]]) /\ Q[q].to = T[parentOf[q]].tries
  <2>1. q \in Task /\ Askable(T, A, q)
    OBVIOUS
  <2>2. parentOf[q] # None
    BY <1>1, <1>2, <2>1 DEF Askable, Open, TreeInv, Askers
  <2> QED
    BY <1>1, <2>1, <2>2, ParentOf DEF Askable
<1>5. ASSUME NEW t \in Task
      PROVE  /\ Q2[t] \in QuestionRecord
             /\ Q2[t].from = Q[t].from /\ Q2[t].to = Q[t].to
             /\ t \in R => Q2[t].state = "answering"
             /\ t \notin R => Q2[t] = Q[t]
  BY <1>3 DEF QuestionRecord
<1>6. Q2 = [t \in Task |-> Q2[t]]
  OBVIOUS
<1> HIDE DEF Q2
<1>7. ASSUME NEW t \in Task, ~Busy(t)
      PROVE  A2[t] = A[t]
  BY <1>7 DEF Responding
<1>8. ASSUME NEW t \in Task, Busy(t)
      PROVE  /\ who(t) \in R /\ parentOf[who(t)] = t
             /\ A2[t] = [Segment EXCEPT !.mode = "response_only", !.about = who(t)]
  BY <1>8 DEF Responding
<1>9. ASSUME NEW q \in Task
      PROVE  LET x == [Segment EXCEPT !.mode = "response_only", !.about = q] IN
             /\ x \in AttemptRecord /\ x.mode = "response_only" /\ x.about = q
             /\ Executing(x) /\ ~Suspended(x) /\ ~Working(x) /\ Live(x)
  BY DEF Segment, NoAttempt, AttemptRecord, Executing, Suspended, Working, Live
<1>10. ASSUME NEW t \in Task, Busy(t)
       PROVE  /\ A2[t] \in AttemptRecord /\ A2[t].mode = "response_only"
              /\ A2[t].about = who(t) /\ who(t) \in R /\ parentOf[who(t)] = t
              /\ ~Suspended(A2[t]) /\ ~Working(A2[t]) /\ Live(A2[t]) /\ Live(A[t])
  <2>1. who(t) \in R /\ who(t) \in Task /\ parentOf[who(t)] = t
    BY <1>4, <1>8, <1>10
  <2>2. Live(A[t])
    BY <1>4, <2>1 DEF Live, Suspended
  <2> HIDE DEF who
  <2>3. A2[t] = [Segment EXCEPT !.mode = "response_only", !.about = who(t)]
    BY <1>8, <1>10
  <2> HIDE DEF A2
  <2> QED
    BY <1>9, <2>1, <2>2, <2>3
<1>11. A2 = [t \in Task |-> A2[t]]
  BY DEF Responding
<1> HIDE DEF A2, who
<1>12. AttemptsOK(A2) /\ QuestionsOK(Q2)
  BY <1>3, <1>5, <1>6, <1>7, <1>10, <1>11 DEF AttemptsOK, QuestionsOK
<1>13. AtRest(T, A2)
  BY <1>2, <1>7, <1>10 DEF AtRest, TreeInv
<1>14. Alone(A2)
  <2> SUFFICES ASSUME NEW t \in Task, parentOf[t] # None,
                      Working(A2[parentOf[t]]), Live(A2[t])
               PROVE  FALSE
    BY DEF Alone
  <2>1. parentOf[t] \in Task
    BY ParentOf
  <2>2. Live(A[t]) /\ Working(A[parentOf[t]])
    BY <1>7, <1>10, <2>1
  <2> QED
    BY <1>2, <2>2 DEF TreeInv, Alone
<1>15. Askers(T, A2, Q2)
  <2> SUFFICES ASSUME NEW t \in Task, Open(Q2, t)
               PROVE  /\ parentOf[t] # None /\ Q2[t].from <= T[t].tries
                      /\ Q2[t].from = T[t].tries /\ ~Asked(T, Q2, t) => Remembers(A2[t], t)
    BY DEF Askers
  <2>1. Open(Q, t) /\ Q2[t].from = Q[t].from
    BY <1>4, <1>5 DEF Open
  <2>2. CASE Busy(t)
    <3>1. PICK q \in R : parentOf[q] = t
      BY <2>2
    <3>2. q \in Task /\ Q2[q].state = "answering" /\ Q2[q].to = T[t].tries
      BY <1>4, <1>5, <3>1
    <3>3. Asked(T, Q2, t)
      BY <3>1, <3>2 DEF Asked
    <3> QED
      BY <1>2, <2>1, <3>3 DEF TreeInv, Askers
  <2>3. CASE ~Busy(t)
    <3>1. Asked(T, Q, t) => Asked(T, Q2, t)
      BY <1>5 DEF Asked
    <3> QED
      BY <1>2, <1>7, <2>1, <2>3, <3>1 DEF TreeInv, Askers
  <2> QED
    BY <2>2, <2>3
<1>16. Responses(T, A2, Q2)
  <2> SUFFICES ASSUME NEW t \in Task, Executing(A2[t]), A2[t].mode = "response_only"
               PROVE  LET q == A2[t].about IN
                      /\ q \in Task /\ parentOf[q] = t
                      /\ Q2[q].state = "answering" /\ Q2[q].to = T[t].tries
    BY DEF Responses
  <2>1. CASE Busy(t)
    BY <1>4, <1>5, <1>10, <2>1
  <2>2. CASE ~Busy(t)
    <3> DEFINE q == A[t].about
    <3>1. A2[t] = A[t]
      BY <1>7, <2>2
    <3>2. /\ q \in Task /\ parentOf[q] = t
          /\ Q[q].state = "answering" /\ Q[q].to = T[t].tries
      BY <1>2, <3>1 DEF TreeInv, Responses
    <3>3. q \notin R
      BY <1>4, <3>2
    <3> QED
      BY <1>5, <3>1, <3>2, <3>3
  <2> QED
    BY <2>1, <2>2
<1>17. TreeInv(T, A2, Q2)
  BY <1>2, <1>12, <1>13, <1>14, <1>15, <1>16 DEF TreeInv
<1> QED
  BY <1>1, <1>17 DEF Q2, A2

LEMMA SegmentRow ==
  /\ Segment \in AttemptRecord /\ Live(Segment) /\ Executing(Segment)
  /\ ~Suspended(Segment) /\ Segment.mode = "work" /\ NoAttempt \in AttemptRecord
  BY DEF Segment, NoAttempt, AttemptRecord, Executing, Suspended, Live

LEMMA ResolvedRow ==
  ASSUME NEW T, TasksOK(T), NEW t \in Task
  PROVE  Resolved(T, t) \in [Task -> Nat]
<1>1. \A c \in Task : T[c].result \in Nat /\ T[t].refs[c] \in Nat
  BY DEF TasksOK, TaskRecord
<1> QED
  BY <1>1 DEF Resolved

\* Who is ready has only children that are done, or not yet there.
LEMMA ReadyChildren ==
  ASSUME NEW T, NEW A, AtRest(T, A), NEW p, Ready(T, p), NEW t \in Task, parentOf[t] = p
  PROVE  T[t].state \in {"absent", "completed"} /\ ~Live(A[t])
  BY DEF Ready, Children, AtRest

LEMMA NotUnderWay ==
  ASSUME NEW T, NEW t, T[t].state \in {"absent", "completed"}
  PROVE  ~Pending(T[t]) /\ T[t].state # "waiting_dependency"
  BY DEF Pending

\* resumeReady: of the suspended Tasks S those with valid references go on.
LEMMA ContinuedKeeps ==
  ASSUME NEW T, NEW A, NEW Q, TreeInv(T, A, Q), NEW S,
         \A t \in S : /\ t \in Task /\ T[t].state = "waiting_dependency" /\ Suspended(A[t])
                      /\ A[t].about # None => Q[A[t].about].state = "answered"
                      /\ Ready(T, t)
  PROVE  TreeInv(Continued(T, S), ContinuedAttempt(T, A, S), Q)
<1> DEFINE good == {t \in S : RefsValid(Given(T, t), t)}
           A2 == ContinuedAttempt(T, A, S)
           M == [t \in Task |-> IF t \in good
                                THEN [T[t] EXCEPT !.state = "dispatching", !.flag = FALSE,
                                                  !.waits = {}, !.refs = Resolved(T, t)]
                                ELSE IF t \in S THEN Failed(T[t])
                                ELSE T[t]]
<1>1. Continued(T, S) = FailAncestors(M, S \ good)
  BY DEF Continued
<1>2. ASSUME NEW t \in Task
      PROVE  A2[t] = IF t \in good THEN Segment ELSE A[t]
  BY DEF ContinuedAttempt
<1>3. A2 = [t \in Task |-> A2[t]]
  BY DEF ContinuedAttempt
<1> HIDE DEF A2
<1>4. \A t \in Task : A[t] \in AttemptRecord /\ T[t] \in TaskRecord
  BY DEF TreeInv, AttemptsOK, TasksOK
<1>5. good \subseteq S
  OBVIOUS
<1> HIDE DEF good
<1>6. ASSUME NEW c \in TaskRecord, NEW refs \in [Task -> Nat]
      PROVE  LET d == [c EXCEPT !.state = "dispatching", !.flag = FALSE, !.waits = {},
                                !.refs = refs] IN
             /\ d \in TaskRecord /\ d.state = "dispatching" /\ d.tries = c.tries
             /\ d.verdict = c.verdict /\ d.result = c.result
  BY DEF TaskRecord
<1>7. ASSUME NEW t \in Task
      PROVE  /\ M[t] \in TaskRecord /\ M[t].tries = T[t].tries
             /\ M[t].verdict = T[t].verdict /\ M[t].result = T[t].result
             /\ M[t].state \in {"absent", "completed"} => M[t].state = T[t].state /\ t \notin S
  <2>1. CASE t \in good
    <3>1. PICK refs \in [Task -> Nat] : refs = Resolved(T, t)
      BY ResolvedRow DEF TreeInv
    <3> DEFINE d == [T[t] EXCEPT !.state = "dispatching", !.flag = FALSE, !.waits = {},
                                 !.refs = refs]
    <3>2. M[t] = d
      BY <2>1, <3>1
    <3>3. /\ d \in TaskRecord /\ d.state = "dispatching" /\ d.tries = T[t].tries
          /\ d.verdict = T[t].verdict /\ d.result = T[t].result
      BY <1>4, <1>6
    <3> HIDE DEF M, d
    <3> QED
      BY <3>2, <3>3
  <2>2. CASE t \notin good /\ t \in S
    BY <1>4, <2>2, FailedRow
  <2>3. CASE t \notin S
    BY <1>4, <1>5, <2>3
  <2> QED
    BY <2>1, <2>2, <2>3
<1>8. M = [t \in Task |-> M[t]]
  OBVIOUS
<1> HIDE DEF M
<1>9. TasksOK(M) /\ Numbered(M)
  BY <1>7, <1>8 DEF TasksOK, Numbered, TreeInv
<1>10. PICK F : F = FailAncestors(M, S \ good)
  OBVIOUS
<1>11. TasksOK(F) /\ Numbered(F) /\ Honest(F) /\ \A t \in Task : Sinks(M[t], F[t])
  BY <1>9, <1>10, FailAncestorsRows
<1>12. ASSUME NEW t \in Task
       PROVE  /\ F[t].tries = T[t].tries
              /\ F[t].state \in {"absent", "completed"} => F[t].state = T[t].state /\ t \notin S
  BY <1>7, <1>11 DEF Sinks
<1>13. AttemptsOK(A2)
  BY <1>2, <1>3, <1>4, SegmentRow DEF AttemptsOK
<1>14. \A t \in Task : Live(A2[t]) => Live(A[t])
  BY <1>2, <1>5 DEF Live, Suspended
<1>15. AtRest(F, A2)
  BY <1>2, <1>5, <1>12, <1>14, SegmentRow DEF AtRest, TreeInv
<1>16. Alone(A2)
  <2> SUFFICES ASSUME NEW t \in Task, parentOf[t] # None,
                      Working(A2[parentOf[t]]), Live(A2[t])
               PROVE  FALSE
    BY DEF Alone
  <2>1. parentOf[t] \in Task /\ Live(A[t])
    BY <1>14, ParentOf
  <2>2. CASE parentOf[t] \in good
    BY <1>5, <2>1, <2>2, ReadyChildren DEF TreeInv
  <2>3. CASE parentOf[t] \notin good
    BY <1>2, <2>1, <2>3 DEF TreeInv, Alone
  <2> QED
    BY <2>2, <2>3
<1>17. Askers(F, A2, Q)
  <2> SUFFICES ASSUME NEW t \in Task, Open(Q, t)
               PROVE  /\ parentOf[t] # None /\ Q[t].from <= F[t].tries
                      /\ Q[t].from = F[t].tries /\ ~Asked(F, Q, t) => Remembers(A2[t], t)
    BY DEF Askers
  <2>1. /\ parentOf[t] # None /\ Q[t].from <= T[t].tries
        /\ Q[t].from = T[t].tries /\ ~Asked(T, Q, t) => Remembers(A[t], t)
    BY DEF TreeInv, Askers
  <2>2. Asked(F, Q, t) <=> Asked(T, Q, t)
    BY <1>12 DEF Asked
  <2>3. ASSUME t \in good, Remembers(A[t], t)
        PROVE  FALSE
    <3>1. A[t].about = t /\ t # None
      BY <1>5, <2>3, NotNone DEF Remembers
    <3> QED
      BY <1>5, <2>3, <3>1 DEF Open
  <2> QED
    BY <1>2, <1>12, <2>1, <2>2, <2>3
<1>18. Responses(F, A2, Q)
  BY <1>2, <1>12, SegmentRow DEF TreeInv, Responses
<1>19. TreeInv(F, A2, Q)
  BY <1>11, <1>13, <1>15, <1>16, <1>17, <1>18 DEF TreeInv
<1> QED
  BY <1>1, <1>10, <1>19 DEF A2

\* The rows the dispatch loop writes.
LEMMA ServedRows ==
  ASSUME NEW c \in TaskRecord, NEW refs \in [Task -> Nat], NEW waits \in SUBSET Task
  PROVE  LET s == [c EXCEPT !.state = "dispatching", !.tries = @ + 1, !.flag = FALSE,
                            !.waits = {}, !.refs = refs]
             f == [Failed(c) EXCEPT !.waits = {}]
             b == [c EXCEPT !.flag = FALSE, !.waits = waits]
         IN /\ s \in TaskRecord /\ s.state = "dispatching" /\ s.tries = c.tries + 1
            /\ s.verdict = c.verdict /\ s.result = c.result
            /\ f \in TaskRecord /\ f.state = "needs_review" /\ f.tries = c.tries
            /\ f.verdict = c.verdict /\ f.result = c.result
            /\ b \in TaskRecord /\ b.state = c.state /\ b.tries = c.tries
            /\ b.verdict = c.verdict /\ b.result = c.result
<1>1. \A n \in Nat : LET s == [c EXCEPT !.state = "dispatching", !.tries = n, !.flag = FALSE,
                                        !.waits = {}, !.refs = refs] IN
        /\ s \in TaskRecord /\ s.state = "dispatching" /\ s.tries = n
        /\ s.verdict = c.verdict /\ s.result = c.result
  BY DEF TaskRecord
<1>2. c.tries \in Nat
  BY DEF TaskRecord
<1>3. c.tries + 1 \in Nat
  BY <1>2
<1>4. LET f == [Failed(c) EXCEPT !.waits = {}]
          b == [c EXCEPT !.flag = FALSE, !.waits = waits]
      IN /\ f \in TaskRecord /\ f.state = "needs_review" /\ f.tries = c.tries
         /\ f.verdict = c.verdict /\ f.result = c.result
         /\ b \in TaskRecord /\ b.state = c.state /\ b.tries = c.tries
         /\ b.verdict = c.verdict /\ b.result = c.result
  BY DEF TaskRecord, Failed
<1> QED
  BY <1>1, <1>3, <1>4

\* The dispatch loop serves the Tasks D, and drops those whose deadline is over.
LEMMA ServedKeeps ==
  ASSUME NEW T, NEW A, NEW Q, TreeInv(T, A, Q),
         NEW D \in SUBSET {t \in Task : Startable(T, A, t)}, NEW late
  PROVE  TreeInv(Served(T, A, D, late), StartedAttempt(T, A, D), Q)
<1> DEFINE fit(t) == T[t].tries < attempts[t] /\ RefsValid(Given(T, t), t)
           started == {t \in D : fit(t)}
           blocked == {t \in Task : Pending(T[t])} \ (D \cup late)
           waits(t) == IF Callable(T, A, t) THEN WaitsFor(A, started, t) ELSE {}
           A2 == StartedAttempt(T, A, D)
           M == [t \in Task |->
                   IF t \in started
                   THEN [T[t] EXCEPT !.state = "dispatching", !.tries = @ + 1, !.flag = FALSE,
                                     !.waits = {}, !.refs = Resolved(T, t)]
                   ELSE IF t \in D \cup late THEN [Failed(T[t]) EXCEPT !.waits = {}]
                   ELSE IF t \in blocked THEN [T[t] EXCEPT !.flag = FALSE, !.waits = waits(t)]
                   ELSE T[t]]
           B == (D \cup late) \ started
<1>1. Served(T, A, D, late) = FailAncestors(M, B)
  BY DEF Served
<1>2. ASSUME NEW t \in Task
      PROVE  A2[t] = IF t \in started THEN Segment ELSE A[t]
  BY DEF StartedAttempt
<1>3. A2 = [t \in Task |-> A2[t]]
  BY DEF StartedAttempt
<1>4. \A t \in Task : A[t] \in AttemptRecord /\ T[t] \in TaskRecord
  BY DEF TreeInv, AttemptsOK, TasksOK
<1>5. ASSUME NEW t \in started
      PROVE  /\ t \in Task /\ Pending(T[t]) /\ ~Live(A[t]) /\ Ready(T, t)
             /\ parentOf[t] # None => Suspended(A[parentOf[t]])
  BY DEF Startable, Callable
<1>6. \A t \in Task : waits(t) \in SUBSET Task
  BY DEF WaitsFor
<1> HIDE DEF A2, started, blocked, waits, B
<1>7. ASSUME NEW t \in Task
      PROVE  /\ M[t] \in TaskRecord
             /\ M[t].verdict = T[t].verdict /\ M[t].result = T[t].result
             /\ t \in started => M[t].tries = T[t].tries + 1 /\ M[t].state = "dispatching"
             /\ t \notin started => /\ M[t].tries = T[t].tries
                                    /\ M[t].state \in {T[t].state, "needs_review"}
  <2>1. PICK refs \in [Task -> Nat] : refs = Resolved(T, t)
    BY ResolvedRow DEF TreeInv
  <2>2. PICK w \in SUBSET Task : w = waits(t)
    BY <1>6
  <2> DEFINE s == [T[t] EXCEPT !.state = "dispatching", !.tries = @ + 1, !.flag = FALSE,
                               !.waits = {}, !.refs = refs]
             f == [Failed(T[t]) EXCEPT !.waits = {}]
             b == [T[t] EXCEPT !.flag = FALSE, !.waits = w]
  <2>3. /\ s \in TaskRecord /\ s.state = "dispatching" /\ s.tries = T[t].tries + 1
        /\ s.verdict = T[t].verdict /\ s.result = T[t].result
        /\ f \in TaskRecord /\ f.state = "needs_review" /\ f.tries = T[t].tries
        /\ f.verdict = T[t].verdict /\ f.result = T[t].result
        /\ b \in TaskRecord /\ b.state = T[t].state /\ b.tries = T[t].tries
        /\ b.verdict = T[t].verdict /\ b.result = T[t].result
    BY <1>4, ServedRows
  <2>4. M[t] = IF t \in started THEN s
               ELSE IF t \in D \cup late THEN f
               ELSE IF t \in blocked THEN b
               ELSE T[t]
    BY <2>1, <2>2
  <2> HIDE DEF M, s, f, b
  <2> QED
    BY <1>4, <2>3, <2>4
<1>8. M = [t \in Task |-> M[t]]
  OBVIOUS
<1> HIDE DEF M
<1>9. TasksOK(M) /\ Numbered(M)
  BY <1>7, <1>8 DEF TasksOK, Numbered, TreeInv
<1>10. PICK F : F = FailAncestors(M, B)
  OBVIOUS
<1>11. TasksOK(F) /\ Numbered(F) /\ Honest(F) /\ \A t \in Task : Sinks(M[t], F[t])
  BY <1>9, <1>10, FailAncestorsRows
<1>12. ASSUME NEW t \in Task
       PROVE  /\ t \in started => F[t].tries = T[t].tries + 1
              /\ t \notin started => F[t].tries = T[t].tries
              /\ F[t].state \in {"absent", "completed"} => F[t].state = T[t].state /\ t \notin started
  BY <1>7, <1>11 DEF Sinks
<1>13. AttemptsOK(A2)
  BY <1>2, <1>3, <1>4, SegmentRow DEF AttemptsOK
<1>14. AtRest(F, A2)
  BY <1>2, <1>12, SegmentRow DEF AtRest, TreeInv
<1>15. Alone(A2)
  <2> SUFFICES ASSUME NEW t \in Task, parentOf[t] # None,
                      Working(A2[parentOf[t]]), Live(A2[t])
               PROVE  FALSE
    BY DEF Alone
  <2> DEFINE p == parentOf[t]
  <2>1. p \in Task
    BY ParentOf
  <2>2. CASE p \in started
    <3>1. T[t].state \in {"absent", "completed"} /\ ~Live(A[t])
      BY <1>5, <2>2, ReadyChildren DEF TreeInv
    <3>2. t \notin started
      BY <1>5, <3>1, NotUnderWay
    <3> QED
      BY <1>2, <3>1, <3>2
  <2>3. CASE p \notin started /\ t \in started
    BY <1>2, <1>5, <2>1, <2>3 DEF Working, Executing, Suspended
  <2>4. CASE p \notin started /\ t \notin started
    BY <1>2, <2>1, <2>4 DEF TreeInv, Alone
  <2> QED
    BY <2>2, <2>3, <2>4
<1>16. Askers(F, A2, Q)
  <2> SUFFICES ASSUME NEW t \in Task, Open(Q, t)
               PROVE  /\ parentOf[t] # None /\ Q[t].from <= F[t].tries
                      /\ Q[t].from = F[t].tries /\ ~Asked(F, Q, t) => Remembers(A2[t], t)
    BY DEF Askers
  <2>1. /\ parentOf[t] # None /\ Q[t].from <= T[t].tries
        /\ Q[t].from = T[t].tries /\ ~Asked(T, Q, t) => Remembers(A[t], t)
    BY DEF TreeInv, Askers
  <2>2. T[t].tries \in Nat /\ Q[t].from \in Nat
    BY <1>4 DEF TreeInv, QuestionsOK, QuestionRecord, TaskRecord
  <2>3. CASE t \in started
    BY <1>12, <2>1, <2>2, <2>3
  <2>4. CASE t \notin started
    <3>1. F[t].tries = T[t].tries /\ A2[t] = A[t]
      BY <1>2, <1>12, <2>4
    <3>2. Asked(F, Q, t) <=> Asked(T, Q, t)
      BY <3>1 DEF Asked
    <3> QED
      BY <2>1, <3>1, <3>2
  <2> QED
    BY <2>3, <2>4
<1>17. Responses(F, A2, Q)
  BY <1>2, <1>12, SegmentRow DEF TreeInv, Responses
<1>18. TreeInv(F, A2, Q)
  BY <1>11, <1>13, <1>14, <1>15, <1>16, <1>17 DEF TreeInv
<1> QED
  BY <1>1, <1>10, <1>18 DEF A2

\* reconcileWaitGraph.
LEMMA UnwoundKeeps ==
  ASSUME NEW T, NEW A, NEW Q, TreeInv(T, A, Q), NEW C
  PROVE  TreeInv(Unwound(T, C), A, Q)
<1> DEFINE n == Newest(C)
           M == [T EXCEPT ![n] = Failed(T[n])]
<1>1. CASE T[n].state = "needs_review"
  BY <1>1 DEF Unwound
<1>2. CASE T[n].state # "needs_review"
  <2>1. Unwound(T, C) = FailAncestors(M, {n})
    BY <1>2 DEF Unwound
  <2>2. T = [t \in Task |-> T[t]] /\ \A t \in Task : T[t] \in TaskRecord
    BY DEF TreeInv, TasksOK
  <2>3. M = [t \in Task |-> M[t]]
    BY <2>2
  <2>4. ASSUME NEW t \in Task
        PROVE  /\ M[t] \in TaskRecord /\ Interrupted(T[t], M[t])
               /\ M[t].verdict = T[t].verdict /\ M[t].result = T[t].result
    <3>1. CASE t = n
      BY <2>2, <3>1, FailedRow DEF Interrupted
    <3>2. CASE t # n
      BY <2>2, <3>2 DEF Interrupted
    <3> QED
      BY <3>1, <3>2
  <2> HIDE DEF M
  <2>5. TasksOK(M) /\ Numbered(M)
    BY <2>3, <2>4 DEF TasksOK, Numbered, TreeInv
  <2>6. PICK F : F = FailAncestors(M, {n})
    OBVIOUS
  <2>7. TasksOK(F) /\ Numbered(F) /\ Honest(F) /\ \A t \in Task : Sinks(M[t], F[t])
    BY <2>5, <2>6, FailAncestorsRows
  <2>8. \A t \in Task : /\ F[t].tries = T[t].tries
                        /\ F[t].state = "absent" => T[t].state = "absent"
                        /\ F[t].state \in {"absent", "completed"} => ~Live(A[t])
                        /\ Calm(A[t], A[t]) /\ Alike(Q[t], Q[t])
    BY <2>4, <2>7, StaysCalm DEF Interrupted, Sinks, TreeInv, AtRest, Alike
  <2>9. TreeInv(F, A, Q)
    BY <2>7, <2>8, CalmKeeps DEF TreeInv
  <2> QED
    BY <2>1, <2>6, <2>9
<1> QED
  BY <1>1, <1>2

\* A nonempty set of natural numbers has a least one.
LEMMA LeastNatural ==
  ASSUME NEW S \in SUBSET Nat, S # {}
  PROVE  \E m \in S : \A n \in S : m <= n
<1> DEFINE R == OpToRel(<, Nat)
<1>1. IsWellFoundedOn(R, Nat)
  BY NatLessThanWellFounded
<1>2. \A m, n \in Nat : m < n => <<m, n>> \in R
  BY DEF OpToRel
<1> HIDE DEF R
<1>3. PICK m \in S : \A n \in S : ~(<<n, m>> \in R)
  BY <1>1, WFMin
<1>4. ASSUME NEW n \in S
      PROVE  m <= n
  <2>1. m \in Nat /\ n \in Nat /\ ~(n < m)
    BY <1>2, <1>3
  <2> QED
    BY <2>1
<1> QED
  BY <1>4

\* Some Task of a set is the newest: the one with the fewest that are newer.
LEMMA NewestIn ==
  ASSUME NEW C \in SUBSET Task, C # {}
  PROVE  Newest(C) \in C
<1> DEFINE Newer(t) == {u \in C : rank[u] > rank[t]}
           Sizes == {Cardinality(Newer(t)) : t \in C}
<1>1. IsFiniteSet(C) /\ \A t \in C : rank[t] \in Nat
  BY FS_Subset, TreeAssumption
<1>2. ASSUME NEW t \in C
      PROVE  IsFiniteSet(Newer(t)) /\ Cardinality(Newer(t)) \in Nat
  <2>1. Newer(t) \in SUBSET C
    OBVIOUS
  <2>2. IsFiniteSet(Newer(t))
    BY <1>1, <2>1, FS_Subset
  <2> QED
    BY <2>2, FS_CardinalityType
<1>3. PICK t \in C : \A u \in C : Cardinality(Newer(t)) <= Cardinality(Newer(u))
  <2>1. Sizes \in SUBSET Nat /\ Sizes # {}
    BY <1>2
  <2>2. PICK m \in Sizes : \A n \in Sizes : m <= n
    BY <2>1, LeastNatural
  <2> QED
    BY <2>2
<1>4. ASSUME NEW u \in C, rank[u] > rank[t]
      PROVE  FALSE
  <2>1. Newer(u) \in SUBSET Newer(t) /\ u \in Newer(t) /\ u \notin Newer(u)
    BY <1>1, <1>4
  <2>2. /\ Cardinality(Newer(u)) <= Cardinality(Newer(t))
        /\ Cardinality(Newer(u)) # Cardinality(Newer(t))
    BY <1>2, <2>1, FS_Subset
  <2>3. PICK k, l : k = Cardinality(Newer(t)) /\ l = Cardinality(Newer(u))
    OBVIOUS
  <2>4. k \in Nat /\ l \in Nat /\ k <= l
    BY <1>2, <1>3, <2>3
  <2> QED
    BY <2>2, <2>3, <2>4
<1>5. \A u \in C : rank[u] <= rank[t]
  BY <1>1, <1>4
<1> QED
  BY <1>5 DEF Newest

\* Further waits break no circle.
LEMMA CirclesGrow ==
  ASSUME NEW E, NEW E2, E \subseteq E2, NEW C \in Circles(E)
  PROVE  C \in Circles(E2)
<1>1. /\ C \in SUBSET ({e[1] : e \in E} \cap {e[2] : e \in E}) /\ C # {}
      /\ \A t \in C : \E u \in C : <<t, u>> \in E
  BY DEF Circles
<1>2. PICK next \in [C -> C] :
        /\ \A t \in C : <<t, next[t]>> \in E
        /\ \A B \in SUBSET C : B # {} /\ B # C => \E t \in B : next[t] \notin B
  BY DEF Circles
<1>3. C \in SUBSET ({e[1] : e \in E2} \cap {e[2] : e \in E2})
  BY <1>1
<1>4. \A t \in C : \E u \in C : <<t, u>> \in E2
  BY <1>1
<1>5. /\ \A t \in C : <<t, next[t]>> \in E2
      /\ \A B \in SUBSET C : B # {} /\ B # C => \E t \in B : next[t] \notin B
  BY <1>2
<1> QED
  BY <1>1, <1>3, <1>4, <1>5 DEF Circles

\* The circle that is found is marked and is still there.
LEMMA UnwoundNoticed ==
  ASSUME NEW T, TasksOK(T), Numbered(T), NEW C \in Circles(WaitEdges(T))
  PROVE  Noticed(Unwound(T, C))
<1> DEFINE n == Newest(C)
<1>1. C \in SUBSET Task /\ C # {}
  BY DEF Circles, WaitEdges
<1>2. n \in C
  BY <1>1, NewestIn
<1>3. CASE T[n].state = "needs_review"
  <2>1. Unwound(T, C) = T
    BY <1>3 DEF Unwound
  <2> QED
    BY <1>2, <1>3, <2>1 DEF Noticed
<1>4. CASE T[n].state # "needs_review"
  <2> DEFINE M == [T EXCEPT ![n] = Failed(T[n])]
  <2>1. PICK F : F = FailAncestors(M, {n})
    OBVIOUS
  <2>2. Unwound(T, C) = F
    BY <1>4, <2>1 DEF Unwound
  <2>3. T = [t \in Task |-> T[t]] /\ \A t \in Task : T[t] \in TaskRecord
    BY DEF TasksOK
  <2>4. M = [t \in Task |-> M[t]]
    BY <2>3
  <2>5. ASSUME NEW t \in Task
        PROVE  /\ M[t] \in TaskRecord /\ M[t].waits = T[t].waits
               /\ M[t].verdict = T[t].verdict /\ M[t].result = T[t].result
               /\ M[t].state = IF t = n THEN "needs_review" ELSE T[t].state
    <3>1. CASE t = n
      BY <2>3, <3>1, FailedRow
    <3>2. CASE t # n
      BY <2>3, <3>2
    <3> QED
      BY <3>1, <3>2
  <2> HIDE DEF M
  <2>6. TasksOK(M) /\ Numbered(M)
    BY <2>4, <2>5 DEF TasksOK, Numbered
  <2>7. \A t \in Task : Sinks(M[t], F[t])
    BY <2>1, <2>6, FailAncestorsRows
  <2>8. \A t \in Task : /\ F[t].waits = T[t].waits
                        /\ ~Terminal(T[t].state) => ~Terminal(F[t].state)
                        /\ T[t].state # "absent" => F[t].state # "absent"
    BY <2>5, <2>7 DEF Sinks, Terminal
  <2>9. WaitEdges(T) \subseteq WaitEdges(F)
    BY <2>8 DEF WaitEdges, Children
  <2>10. C \in Circles(WaitEdges(F))
    BY <2>9, CirclesGrow
  <2>11. F[n].state = "needs_review"
    BY <1>1, <1>2, <2>5, <2>7 DEF Sinks
  <2> QED
    BY <1>2, <2>2, <2>10, <2>11 DEF Noticed
<1> QED
  BY <1>3, <1>4

\* Besides, the circles of waits are noticed.
LEMMA DispatchKeeps ==
  ASSUME NEW T, NEW A, NEW Q, TreeInv(T, A, Q), Dispatch(T, A)
  PROVE  TreeInv(task', attempt', Q) /\ Noticed(task')
<1>1. PICK D \in SUBSET {t \in Task : Startable(T, A, t)},
           late \in SUBSET {t \in Dated : Pending(T[t])} :
        /\ attempt' = StartedAttempt(T, A, D)
        /\ \E served \in {Served(T, A, D, late)} : task' \in CycleMarked(served)
  BY DEF Dispatch
<1>2. PICK served : served = Served(T, A, D, late) /\ task' \in CycleMarked(served)
  BY <1>1
<1>3. TreeInv(served, attempt', Q)
  BY <1>1, <1>2, ServedKeeps
<1>4. PICK A2, T2 : A2 = attempt' /\ T2 = task'
  OBVIOUS
<1>5. TreeInv(served, A2, Q)
  BY <1>3, <1>4
<1>6. CASE Circles(WaitEdges(served)) = {}
  <2>1. T2 = served
    BY <1>2, <1>4, <1>6 DEF CycleMarked
  <2>2. Noticed(T2)
    BY <1>6, <2>1 DEF Noticed
  <2> QED
    BY <1>4, <1>5, <2>1, <2>2
<1>7. CASE Circles(WaitEdges(served)) # {}
  <2>1. PICK C \in Circles(WaitEdges(served)) : T2 = Unwound(served, C)
    BY <1>2, <1>4, <1>7 DEF CycleMarked
  <2>2. TreeInv(T2, A2, Q)
    BY <1>5, <2>1, UnwoundKeeps
  <2>3. Noticed(T2)
    BY <1>5, <2>1, UnwoundNoticed DEF TreeInv
  <2> QED
    BY <1>4, <2>2, <2>3
<1> QED
  BY <1>6, <1>7

LEMMA TickKeeps ==
  ASSUME IInv, Tick
  PROVE  IInv' /\ Noticed(task')
<1>1. PICK X, G, L, T0, T1, A1 :
        /\ T0 = Spoilt(task, X)
        /\ L \in SUBSET {t \in Failing : attempt[t].lease = "held"}
        /\ T1 = ExpiredTask(T0, G, L) /\ A1 = ExpiredAttempt(G, L)
        /\ \E R \in SUBSET {q \in Task : Askable(T1, A1, q)} :
           \E A2 \in {Responding(A1, R)} :
           \E S \in SUBSET {t \in Task : Continuable(T1, A2, t)} :
             /\ question' = [q \in Task |-> IF q \in R
                                            THEN [question[q] EXCEPT !.state = "answering"]
                                            ELSE question[q]]
             /\ \E T3 \in {Continued(T1, S)}, A3 \in {ContinuedAttempt(T1, A2, S)} :
                  Dispatch(T3, A3)
  BY DEF Tick
<1>2. PICK R \in SUBSET {q \in Task : Askable(T1, A1, q)} :
        \E A2 \in {Responding(A1, R)} :
        \E S \in SUBSET {t \in Task : Continuable(T1, A2, t)} :
          /\ question' = [q \in Task |-> IF q \in R
                                         THEN [question[q] EXCEPT !.state = "answering"]
                                         ELSE question[q]]
          /\ \E T3 \in {Continued(T1, S)}, A3 \in {ContinuedAttempt(T1, A2, S)} :
               Dispatch(T3, A3)
  BY <1>1
<1>3. PICK A2, T3, A3, Q2 :
        /\ A2 = Responding(A1, R)
        /\ Q2 = [q \in Task |-> IF q \in R THEN [question[q] EXCEPT !.state = "answering"]
                                           ELSE question[q]]
        /\ question' = Q2
        /\ \E S \in SUBSET {t \in Task : Continuable(T1, A2, t)} :
             T3 = Continued(T1, S) /\ A3 = ContinuedAttempt(T1, A2, S)
        /\ Dispatch(T3, A3)
  BY <1>2
<1>4. PICK S \in SUBSET {t \in Task : Continuable(T1, A2, t)} :
        T3 = Continued(T1, S) /\ A3 = ContinuedAttempt(T1, A2, S)
  BY <1>3
<1>5. TreeInv(T0, attempt, question)
  <2>1. PICK T, A, Q : T = task /\ A = attempt /\ Q = question
    OBVIOUS
  <2>2. TreeInv(T, A, Q)
    BY <2>1 DEF IInv
  <2>3. TreeInv(Spoilt(T, X), A, Q)
    BY <2>2, SpoiltKeeps
  <2> QED
    BY <1>1, <2>1, <2>3
<1>6. TreeInv(T1, A1, question)
  BY <1>1, <1>5, ExpiredKeeps
<1>7. TreeInv(T1, A2, Q2)
  BY <1>3, <1>6, RespondingKeeps
<1>8. \A q \in Task : Q2[q].state = "answered" <=> question[q].state = "answered"
  <2> SUFFICES ASSUME NEW q \in Task
               PROVE  Q2[q].state = "answered" <=> question[q].state = "answered"
    OBVIOUS
  <2>1. CASE q \in R
    <3>1. question[q].state = "waiting_child_settled"
      BY <2>1 DEF Askable
    <3>2. question[q] \in QuestionRecord
      BY DEF IInv, TreeInv, QuestionsOK
    <3>3. Q2[q].state = "answering"
      BY <1>3, <2>1, <3>2 DEF QuestionRecord
    <3> QED
      BY <3>1, <3>3
  <2>2. CASE q \notin R
    BY <1>3, <2>2
  <2> QED
    BY <2>1, <2>2
<1>9. TreeInv(T3, A3, Q2)
  <2>1. \A t \in S : /\ t \in Task /\ T1[t].state = "waiting_dependency" /\ Suspended(A2[t])
                     /\ A2[t].about # None => Q2[A2[t].about].state = "answered"
                     /\ Ready(T1, t)
    <3>1. \A t \in S : t \in Task /\ Continuable(T1, A2, t)
      OBVIOUS
    <3>2. \A t \in Task : A2[t].about \in Task \cup {None}
      BY <1>7 DEF TreeInv, AttemptsOK, AttemptRecord
    <3> QED
      BY <1>8, <3>1, <3>2 DEF Continuable
  <2> QED
    BY <1>4, <1>7, <2>1, ContinuedKeeps
<1>10. TreeInv(task', attempt', Q2) /\ Noticed(task')
  BY <1>3, <1>9, DispatchKeeps
<1> QED
  BY <1>3, <1>10 DEF IInv

-----------------------------------------------------------------------------
(* One action.                                                               *)

LEMMA CalmStep ==
  ASSUME IInv,
         TasksOK(task'), AttemptsOK(attempt'), QuestionsOK(question'),
         \A t \in Task : /\ task'[t].tries = task[t].tries
                         /\ task'[t].state = "absent" => task[t].state = "absent"
                         /\ task'[t].state \in {"absent", "completed"} => ~Live(attempt'[t])
                         /\ Calm(attempt[t], attempt'[t])
                         /\ Alike(question[t], question'[t]),
         Numbered(task'), Honest(task')
  PROVE  IInv'
<1>1. PICK T, A, Q, T2, A2, Q2 : /\ T = task /\ A = attempt /\ Q = question
                                 /\ T2 = task' /\ A2 = attempt' /\ Q2 = question'
  OBVIOUS
<1>2. TreeInv(T, A, Q)
  BY <1>1 DEF IInv
<1>3. TreeInv(T2, A2, Q2)
  BY <1>1, <1>2, CalmKeeps
<1> QED
  BY <1>1, <1>3 DEF IInv

LEMMA TypedNow ==
  ASSUME IInv, NEW t \in Task
  PROVE  /\ task[t] \in TaskRecord /\ attempt[t] \in AttemptRecord
         /\ question[t] \in QuestionRecord
         /\ Calm(attempt[t], attempt[t])
         /\ task[t].state \in {"absent", "completed"} => ~Live(attempt[t])
  BY DEF IInv, TreeInv, TasksOK, AttemptsOK, QuestionsOK, AtRest, Calm

\* The table T2 after an action that gives t the Attempt x: what is done, or not
\* yet there, was so before, or is t without an Attempt.
Written(T, T2, t, x) ==
  /\ TasksOK(T2) /\ Numbered(T2) /\ Honest(T2)
  /\ \A u \in Task :
       /\ T2[u].tries = T[u].tries
       /\ T2[u].state = "absent" => T[u].state = "absent"
       /\ T2[u].state = "completed" => T[u].state = "completed" \/ (u = t /\ ~Live(x))

LEMMA OneAttempt ==
  ASSUME IInv, NEW t \in Task, NEW x \in AttemptRecord, Calm(attempt[t], x),
         SetAttempt(t, x), question' = question, Written(task, task', t, x)
  PROVE  IInv'
<1>1. attempt' = [attempt EXCEPT ![t] = x]
  BY DEF SetAttempt
<1>2. AttemptsOK(attempt') /\ QuestionsOK(question')
  BY <1>1 DEF IInv, TreeInv, AttemptsOK
<1>3. ASSUME NEW u \in Task
      PROVE  /\ attempt'[u] = IF u = t THEN x ELSE attempt[u]
             /\ Calm(attempt[u], attempt'[u])
             /\ Alike(question[u], question'[u])
             /\ task'[u].state \in {"absent", "completed"} => ~Live(attempt'[u])
  <2>1. attempt'[u] = IF u = t THEN x ELSE attempt[u]
    BY <1>1 DEF IInv, TreeInv, AttemptsOK
  <2> QED
    BY <2>1, TypedNow DEF Alike, Written, Calm
<1> QED
  BY <1>2, <1>3, CalmStep DEF Written

LEMMA SameTable ==
  ASSUME IInv, NEW t \in Task, NEW x
  PROVE  Written(task, task, t, x)
  BY DEF IInv, TreeInv, Written

LEMMA RowSet ==
  ASSUME IInv, NEW t \in Task,
         NEW st \in {"running", "result_proposed", "waiting_dependency", "interrupted",
                     "needs_review", "cancelled"},
         NEW S, S = SetTask(t, st)
  PROVE  /\ TasksOK(S) /\ Numbered(S) /\ S[t].state = st
         /\ \A u \in Task : /\ u # t => S[u] = task[u]
                            /\ S[u].tries = task[u].tries
                            /\ S[u].verdict = task[u].verdict /\ S[u].result = task[u].result
<1>1. \A c \in TaskRecord : LET d == [c EXCEPT !.state = st] IN
        /\ d \in TaskRecord /\ d.state = st /\ d.tries = c.tries
        /\ d.verdict = c.verdict /\ d.result = c.result
  BY DEF TaskRecord
<1>2. \A u \in Task : task[u] \in TaskRecord
  BY TypedNow
<1>3. S = [u \in Task |-> IF u = t THEN [task[t] EXCEPT !.state = st] ELSE task[u]]
  BY DEF SetTask, IInv, TreeInv, TasksOK
<1>4. S[t] = [task[t] EXCEPT !.state = st] /\ \A u \in Task : u # t => S[u] = task[u]
  BY <1>3
<1>5. S \in [Task -> TaskRecord]
  BY <1>1, <1>2, <1>3
<1>6. S[t].state = st
  BY <1>1, <1>2, <1>4
<1>7. ASSUME NEW u \in Task
      PROVE  /\ S[u].tries = task[u].tries
             /\ S[u].verdict = task[u].verdict /\ S[u].result = task[u].result
  <2>1. CASE u = t
    BY <1>1, <1>2, <1>4, <2>1
  <2>2. CASE u # t
    BY <1>4, <2>2
  <2> QED
    BY <2>1, <2>2
<1>8. Numbered(S)
  BY <1>7 DEF Numbered, IInv, TreeInv
<1> QED
  BY <1>4, <1>5, <1>6, <1>7, <1>8 DEF TasksOK

LEMMA TableSet ==
  ASSUME IInv, NEW t \in Task, Live(attempt[t]), NEW x,
         NEW st \in {"running", "result_proposed", "waiting_dependency"}
  PROVE  Written(task, SetTask(t, st), t, x)
<1>1. PICK T, S : T = task /\ S = SetTask(t, st)
  OBVIOUS
<1>2. T[t].state # "completed"
  BY <1>1, TypedNow
<1>3. /\ TasksOK(S) /\ Numbered(S)
      /\ \A u \in Task : /\ u # t => S[u] = T[u]
                         /\ S[u].tries = T[u].tries
                         /\ S[u].verdict = T[u].verdict /\ S[u].result = T[u].result
      /\ S[t].state = st
  BY <1>1, RowSet
<1>4. \A u \in Task : Mild(T[u], S[u])
  BY <1>2, <1>3 DEF Mild
<1>5. Numbered(T) /\ Honest(T)
  BY <1>1 DEF IInv, TreeInv
<1>6. Honest(S)
  BY <1>4, <1>5, MildKeeps
<1>7. Written(T, S, t, x)
  BY <1>3, <1>6 DEF Written
<1> QED
  BY <1>1, <1>7

LEMMA TableFailed ==
  ASSUME IInv, NEW t \in Task, NEW x, NEW B,
         NEW st \in {"interrupted", "needs_review"}
  PROVE  Written(task, FailAncestors(SetTask(t, st), B), t, x)
<1>1. PICK T, S, F : T = task /\ S = SetTask(t, st) /\ F = FailAncestors(S, B)
  OBVIOUS
<1>2. /\ TasksOK(S) /\ Numbered(S)
      /\ \A u \in Task : /\ u # t => S[u] = T[u]
                         /\ S[u].tries = T[u].tries
      /\ S[t].state = st
  BY <1>1, RowSet
<1>3. TasksOK(F) /\ Numbered(F) /\ Honest(F) /\ \A u \in Task : Sinks(S[u], F[u])
  BY <1>1, <1>2, FailAncestorsRows
<1>4. Written(T, F, t, x)
  BY <1>2, <1>3 DEF Written, Sinks
<1> QED
  BY <1>1, <1>4

-----------------------------------------------------------------------------
(* Events.                                                                   *)

LEMMA NoAttemptCalm ==
  ASSUME NEW x
  PROVE  Calm(x, NoAttempt) /\ NoAttempt \in AttemptRecord /\ ~Live(NoAttempt)
  BY DEF Calm, NoAttempt, AttemptRecord, Live, Executing, Suspended

LEMMA InjectKeeps ==
  ASSUME IInv, NEW t \in Task, Inject(t)
  PROVE  IInv'
<1> DEFINE x == [attempt[t] EXCEPT !.receipt = "injection_requested"]
<1>1. x \in AttemptRecord /\ Calm(attempt[t], x)
  BY TypedNow DEF Inject, AttemptRecord, Calm, Live, Executing, Suspended
<1>2. SetAttempt(t, x) /\ task' = task /\ question' = question
  BY DEF Inject
<1> HIDE DEF x
<1> QED
  BY <1>1, <1>2, OneAttempt, SameTable

LEMMA ObserveKeeps ==
  ASSUME IInv, NEW t \in Task, Observe(t)
  PROVE  IInv'
<1> DEFINE x == [attempt[t] EXCEPT !.receipt = "input_observed", !.state = "running"]
<1>1. x \in AttemptRecord /\ Calm(attempt[t], x) /\ Live(attempt[t])
  BY TypedNow DEF Observe, AttemptRecord, Calm, Live, Executing, Suspended
<1>2. SetAttempt(t, x) /\ task' = SetTask(t, "running") /\ question' = question
  BY DEF Observe
<1> HIDE DEF x
<1>3. Written(task, task', t, x)
  BY <1>1, <1>2, TableSet
<1> QED
  BY <1>1, <1>2, <1>3, OneAttempt

LEMMA YieldKeeps ==
  ASSUME IInv, NEW t \in Task, Yield(t)
  PROVE  IInv'
<1> DEFINE x == [attempt[t] EXCEPT !.yield = TRUE]
<1>1. x \in AttemptRecord /\ Calm(attempt[t], x)
  BY TypedNow DEF Yield, AttemptRecord, Calm, Live, Executing, Suspended
<1>2. SetAttempt(t, x) /\ task' = task /\ question' = question
  BY DEF Yield
<1> HIDE DEF x
<1> QED
  BY <1>1, <1>2, OneAttempt, SameTable

LEMMA ResultProposedKeeps ==
  ASSUME IInv, NEW t \in Task, ResultProposed(t)
  PROVE  IInv'
<1> DEFINE x == [attempt[t] EXCEPT !.state = "result_proposed"]
<1>1. x \in AttemptRecord /\ Calm(attempt[t], x) /\ Live(attempt[t])
  BY TypedNow DEF ResultProposed, AttemptRecord, Calm, Live, Executing, Suspended
<1>2. SetAttempt(t, x) /\ task' = SetTask(t, "result_proposed") /\ question' = question
  BY DEF ResultProposed
<1> HIDE DEF x
<1>3. Written(task, task', t, x)
  BY <1>1, <1>2, TableSet
<1> QED
  BY <1>1, <1>2, <1>3, OneAttempt

LEMMA SettledFailedKeeps ==
  ASSUME IInv, NEW t \in Task, SettledFailed(t)
  PROVE  IInv'
<1>1. /\ SetAttempt(t, NoAttempt) /\ question' = question
      /\ task' = FailAncestors(SetTask(t, "interrupted"), {t})
  BY DEF SettledFailed
<1>2. Written(task, task', t, NoAttempt)
  BY <1>1, TableFailed
<1> QED
  BY <1>1, <1>2, OneAttempt, NoAttemptCalm

LEMMA SettledSuspendedKeeps ==
  ASSUME IInv, NEW t \in Task, SettledSuspended(t)
  PROVE  IInv'
<1> DEFINE x == [attempt[t] EXCEPT !.state = "suspended", !.lease = "none"]
<1>1. x \in AttemptRecord /\ Calm(attempt[t], x) /\ Live(attempt[t])
  BY TypedNow DEF SettledSuspended, Working, AttemptRecord, Calm, Live, Executing, Suspended
<1>2. SetAttempt(t, x) /\ task' = SetTask(t, "waiting_dependency") /\ question' = question
  BY DEF SettledSuspended
<1> HIDE DEF x
<1>3. Written(task, task', t, x)
  BY <1>1, <1>2, TableSet
<1> QED
  BY <1>1, <1>2, <1>3, OneAttempt

LEMMA SettledMissingKeeps ==
  ASSUME IInv, NEW t \in Task, SettledMissing(t)
  PROVE  IInv'
<1> DEFINE x == [attempt[t] EXCEPT !.state = "needs_review", !.lease = "none"]
<1>1. x \in AttemptRecord /\ Calm(attempt[t], x)
  BY TypedNow DEF SettledMissing, Working, AttemptRecord, Calm, Live, Executing, Suspended
<1>2. /\ SetAttempt(t, x) /\ question' = question
      /\ task' = FailAncestors(SetTask(t, "needs_review"), {t})
  BY DEF SettledMissing
<1> HIDE DEF x
<1>3. Written(task, task', t, x)
  BY <1>2, TableFailed
<1> QED
  BY <1>1, <1>2, <1>3, OneAttempt

LEMMA DeferredKeeps ==
  ASSUME IInv, NEW t \in Task, Deferred(t)
  PROVE  IInv'
<1> DEFINE x == [attempt[t] EXCEPT !.state = "suspended", !.lease = "none"]
<1>1. x \in AttemptRecord /\ Calm(attempt[t], x) /\ Live(attempt[t])
  BY TypedNow DEF Deferred, AttemptRecord, Calm, Live, Executing, Suspended
<1>2. SetAttempt(t, x) /\ task' = SetTask(t, "waiting_dependency") /\ question' = question
  BY DEF Deferred
<1> HIDE DEF x
<1>3. Written(task, task', t, x)
  BY <1>1, <1>2, TableSet
<1> QED
  BY <1>1, <1>2, <1>3, OneAttempt

LEMMA StoppedKeeps ==
  ASSUME IInv, NEW t \in Task, Stopped(t)
  PROVE  IInv'
<1>1. SetAttempt(t, NoAttempt) /\ task' = task /\ question' = question
  BY DEF Stopped
<1> QED
  BY <1>1, OneAttempt, NoAttemptCalm, SameTable

LEMMA ReconcileKeeps ==
  ASSUME IInv, NEW t \in Task, Reconcile(t)
  PROVE  IInv'
<1>1. /\ SetAttempt(t, NoAttempt) /\ question' = question
      /\ task' = IF Terminal(task[t].state) THEN task
                 ELSE FailAncestors(SetTask(t, "interrupted"), {t})
  BY DEF Reconcile
<1>2. Written(task, task', t, NoAttempt)
  <2>1. CASE Terminal(task[t].state)
    BY <1>1, <2>1, SameTable
  <2>2. CASE ~Terminal(task[t].state)
    BY <1>1, <2>2, TableFailed
  <2> QED
    BY <2>1, <2>2
<1> QED
  BY <1>1, <1>2, OneAttempt, NoAttemptCalm

\* The answer is written into the question.
LEMMA AnswerKeeps ==
  ASSUME IInv, NEW t \in Task, Answer(t)
  PROVE  IInv'
<1>1. PICK q : q = attempt[t].about
  OBVIOUS
<1>2. q \in Task /\ question' = [question EXCEPT ![q].answer = TRUE]
  BY <1>1 DEF Answer, IInv, TreeInv, Responses
<1>3. task' = task /\ attempt' = attempt
  BY DEF Answer
<1>4. PICK Q, Q2 : Q = question /\ Q2 = question'
  OBVIOUS
<1>5. \A u \in Task : Q[u] \in QuestionRecord
  BY <1>4, TypedNow
<1>6. \A r \in QuestionRecord : LET s == [r EXCEPT !.answer = TRUE] IN
        s \in QuestionRecord /\ Alike(r, s)
  BY DEF QuestionRecord, Alike
<1>7. Q2 = [u \in Task |-> IF u = q THEN [Q[q] EXCEPT !.answer = TRUE] ELSE Q[u]]
  BY <1>2, <1>4 DEF IInv, TreeInv, QuestionsOK
<1>8. \A u \in Task : Q2[u] = IF u = q THEN [Q[q] EXCEPT !.answer = TRUE] ELSE Q[u]
  BY <1>7
<1>9. \A u \in Task : Q2[u] \in QuestionRecord /\ Alike(Q[u], Q2[u])
  BY <1>2, <1>5, <1>6, <1>8 DEF Alike
<1>10. QuestionsOK(Q2)
  BY <1>7, <1>8, <1>9 DEF QuestionsOK
<1>11. \A u \in Task : /\ task'[u] = task[u] /\ attempt'[u] = attempt[u]
                       /\ Alike(question[u], question'[u])
  BY <1>3, <1>4, <1>9
<1>12. QuestionsOK(question')
  BY <1>4, <1>10
<1>13. TasksOK(task') /\ AttemptsOK(attempt') /\ Numbered(task') /\ Honest(task')
  BY <1>3 DEF IInv, TreeInv
<1> QED
  BY <1>11, <1>12, <1>13, TypedNow, CalmStep

\* A question is put: it is remembered, and nobody answers it yet.
LEMMA ClarifyKeeps ==
  ASSUME IInv, NEW t \in Task, Clarify(t)
  PROVE  IInv'
<1> DEFINE p == parentOf[t]
           x == [attempt[t] EXCEPT !.yield = TRUE, !.about = t]
           r == [state |-> "waiting_child_settled", from |-> task[t].tries,
                 to |-> task[p].tries, answer |-> FALSE]
<1>1. PICK T, A, Q, A2, Q2 : /\ T = task /\ A = attempt /\ Q = question
                             /\ A2 = attempt' /\ Q2 = question'
  OBVIOUS
<1>2. TreeInv(T, A, Q)
  BY <1>1 DEF IInv
<1>3. p # None /\ p \in Task /\ p # t
  BY ParentOf DEF Clarify
<1>4. /\ A2 = [A EXCEPT ![t] = x] /\ Q2 = [Q EXCEPT ![t] = r] /\ task' = T
      /\ Executing(A[t]) /\ A[t].mode = "work" /\ Q[t].state = "none"
  BY <1>1 DEF Clarify, SetAttempt, Executing
<1>5. /\ x \in AttemptRecord /\ Live(x) /\ Executing(x) /\ x.mode = "work"
      /\ x.yield /\ x.about = t
  BY <1>1, <1>4, TypedNow DEF AttemptRecord, Live, Executing
<1>6. /\ r \in QuestionRecord /\ r.state = "waiting_child_settled" /\ r.from = T[t].tries
  BY <1>1, <1>3, TypedNow DEF QuestionRecord, TaskRecord
<1> HIDE DEF x, r, p
<1>7. \A u \in Task : /\ A2[u] = IF u = t THEN x ELSE A[u]
                      /\ Q2[u] = IF u = t THEN r ELSE Q[u]
  BY <1>2, <1>4 DEF TreeInv, AttemptsOK, QuestionsOK
<1>8. AttemptsOK(A2) /\ QuestionsOK(Q2)
  BY <1>2, <1>4, <1>5, <1>6 DEF TreeInv, AttemptsOK, QuestionsOK
<1>9. Live(A[t])
  BY <1>4 DEF Executing, Live
<1>10. \A u \in Task : /\ Live(A2[u]) <=> Live(A[u])
                       /\ Working(A2[u]) <=> Working(A[u])
  BY <1>4, <1>5, <1>7, <1>9 DEF Working
<1>11. AtRest(T, A2)
  BY <1>2, <1>5, <1>7, <1>10 DEF TreeInv, AtRest
<1>12. Alone(A2)
  BY <1>2, <1>10, ParentOf DEF TreeInv, Alone
<1>13. Askers(T, A2, Q2)
  <2> SUFFICES ASSUME NEW u \in Task, Open(Q2, u)
               PROVE  /\ parentOf[u] # None /\ Q2[u].from <= T[u].tries
                      /\ Q2[u].from = T[u].tries /\ ~Asked(T, Q2, u) => Remembers(A2[u], u)
    BY DEF Askers
  <2>1. CASE u = t
    <3>1. T[t].tries \in Nat
      BY <1>1, TypedNow DEF TaskRecord
    <3>2. Remembers(x, t)
      BY <1>5 DEF Remembers
    <3> QED
      BY <1>3, <1>6, <1>7, <2>1, <3>1, <3>2 DEF p
  <2>2. CASE u # t
    <3>1. Open(Q, u) /\ Q2[u] = Q[u] /\ A2[u] = A[u]
      BY <1>7, <2>2 DEF Open
    <3>2. Asked(T, Q, u) => Asked(T, Q2, u)
      BY <1>4, <1>7 DEF Asked
    <3> QED
      BY <1>2, <3>1, <3>2 DEF TreeInv, Askers
  <2> QED
    BY <2>1, <2>2
<1>14. Responses(T, A2, Q2)
  <2> SUFFICES ASSUME NEW u \in Task, Executing(A2[u]), A2[u].mode = "response_only"
               PROVE  LET q == A2[u].about IN
                      /\ q \in Task /\ parentOf[q] = u
                      /\ Q2[q].state = "answering" /\ Q2[q].to = T[u].tries
    BY DEF Responses
  <2>1. u # t /\ A2[u] = A[u]
    BY <1>5, <1>7
  <2>2. LET q == A[u].about IN
        q \in Task /\ parentOf[q] = u /\ Q[q].state = "answering" /\ Q[q].to = T[u].tries
    BY <1>2, <2>1 DEF TreeInv, Responses
  <2> QED
    BY <1>4, <1>7, <2>1, <2>2
<1>15. TreeInv(T, A2, Q2)
  BY <1>2, <1>8, <1>11, <1>12, <1>13, <1>14 DEF TreeInv
<1> QED
  BY <1>1, <1>4, <1>15 DEF IInv

\* The parent has answered: its own question, if it has one, has been forgotten
\* with the answer, and the question of its child is no longer open.
LEMMA SettledResponseKeeps ==
  ASSUME IInv, NEW t \in Task, SettledResponse(t)
  PROVE  IInv'
<1> DEFINE x == [NoAttempt EXCEPT !.state = "suspended", !.receipt = attempt[t].receipt]
<1>1. PICK T, A, Q, T2, A2, Q2, q : /\ T = task /\ A = attempt /\ Q = question
                                    /\ T2 = task' /\ A2 = attempt' /\ Q2 = question'
                                    /\ q = attempt[t].about
  OBVIOUS
<1>2. TreeInv(T, A, Q)
  BY <1>1 DEF IInv
<1>3. /\ Executing(A[t]) /\ A[t].mode = "response_only"
      /\ A2 = [A EXCEPT ![t] = x] /\ T2 = SetTask(t, "waiting_dependency")
      /\ Q2 = [Q EXCEPT ![q].state = "answered"]
  BY <1>1 DEF SettledResponse, SetAttempt
<1>4. q \in Task /\ parentOf[q] = t /\ Q[q].state = "answering" /\ Q[q].to = T[t].tries
  BY <1>1, <1>2, <1>3 DEF TreeInv, Responses
<1>5. q # t
  BY <1>4, ParentOf, NotNone
<1>6. x \in AttemptRecord /\ Live(x) /\ ~Executing(x)
  BY TypedNow DEF NoAttempt, AttemptRecord, Live, Executing
<1> HIDE DEF x
<1> DEFINE r == [Q[q] EXCEPT !.state = "answered"]
<1>7. r \in QuestionRecord /\ r.state = "answered" /\ r.to = Q[q].to
  BY <1>1, <1>4, TypedNow DEF QuestionRecord
<1>8. Q2 = [Q EXCEPT ![q] = r]
  BY <1>3
<1> HIDE DEF r
<1>9. \A u \in Task : /\ A2[u] = IF u = t THEN x ELSE A[u]
                      /\ Q2[u] = IF u = q THEN r ELSE Q[u]
  BY <1>2, <1>3, <1>8 DEF TreeInv, AttemptsOK, QuestionsOK
<1>10. AttemptsOK(A2) /\ QuestionsOK(Q2)
  BY <1>2, <1>3, <1>4, <1>6, <1>7, <1>8 DEF TreeInv, AttemptsOK, QuestionsOK
<1>11. Live(A[t]) /\ Live(attempt[t])
  BY <1>1, <1>3 DEF Executing, Live
<1>12. /\ Written(T, T2, t, x) /\ \A u \in Task : u # t => T2[u] = T[u]
       /\ T2[t].state = "waiting_dependency"
  BY <1>1, <1>3, <1>11, TableSet, RowSet
<1>13. \A u \in Task : /\ Live(A2[u]) <=> Live(A[u])
                       /\ Working(A2[u]) => Working(A[u])
                       /\ T2[u].tries = T[u].tries
  BY <1>6, <1>9, <1>11, <1>12 DEF Working, Written
<1>14. AtRest(T2, A2)
  BY <1>2, <1>6, <1>9, <1>12, <1>13 DEF TreeInv, AtRest
<1>15. Alone(A2)
  BY <1>2, <1>13, ParentOf DEF TreeInv, Alone
<1>16. Askers(T2, A2, Q2)
  <2> SUFFICES ASSUME NEW u \in Task, Open(Q2, u)
               PROVE  /\ parentOf[u] # None /\ Q2[u].from <= T2[u].tries
                      /\ Q2[u].from = T2[u].tries /\ ~Asked(T2, Q2, u) => Remembers(A2[u], u)
    BY DEF Askers
  <2>1. u # q /\ Q2[u] = Q[u] /\ Open(Q, u)
    BY <1>7, <1>9 DEF Open
  <2>2. /\ parentOf[u] # None /\ Q[u].from <= T[u].tries
        /\ Q[u].from = T[u].tries /\ ~Asked(T, Q, u) => Remembers(A[u], u)
    BY <1>2, <2>1 DEF TreeInv, Askers
  <2>3. CASE u = t
    <3>1. Asked(T2, Q2, t)
      BY <1>4, <1>7, <1>9, <1>13 DEF Asked
    <3> QED
      BY <1>13, <2>1, <2>2, <2>3, <3>1
  <2>4. CASE u # t
    <3>1. Asked(T, Q, u) => Asked(T2, Q2, u)
      BY <1>4, <1>9, <1>13, <2>4 DEF Asked
    <3> QED
      BY <1>9, <1>13, <2>1, <2>2, <2>4, <3>1
  <2> QED
    BY <2>3, <2>4
<1>17. Responses(T2, A2, Q2)
  <2> SUFFICES ASSUME NEW u \in Task, Executing(A2[u]), A2[u].mode = "response_only"
               PROVE  LET o == A2[u].about IN
                      /\ o \in Task /\ parentOf[o] = u
                      /\ Q2[o].state = "answering" /\ Q2[o].to = T2[u].tries
    BY DEF Responses
  <2>1. u # t /\ A2[u] = A[u]
    BY <1>6, <1>9
  <2>2. LET o == A[u].about IN
        o \in Task /\ parentOf[o] = u /\ Q[o].state = "answering" /\ Q[o].to = T[u].tries
    BY <1>2, <2>1 DEF TreeInv, Responses
  <2> QED
    BY <1>4, <1>9, <1>13, <2>1, <2>2
<1>18. TreeInv(T2, A2, Q2)
  BY <1>10, <1>12, <1>14, <1>15, <1>16, <1>17 DEF TreeInv, Written
<1> QED
  BY <1>1, <1>18 DEF IInv

\* A row is replaced.
Put(T, t, d) == [T EXCEPT ![t] = d]

LEMMA PutRow ==
  ASSUME NEW T, TasksOK(T), Numbered(T), NEW t \in Task, NEW d \in TaskRecord,
         d.result = 0 => d.verdict = NoVerdict,
         NEW M, M = Put(T, t, d)
  PROVE  /\ TasksOK(M) /\ Numbered(M)
         /\ M[t] = d /\ \A u \in Task : u # t => M[u] = T[u]
<1>1. M = [u \in Task |-> IF u = t THEN d ELSE T[u]]
  BY DEF TasksOK, Put
<1>2. M[t] = d /\ \A u \in Task : u # t => M[u] = T[u]
  BY <1>1
<1>3. TasksOK(M)
  BY <1>1 DEF TasksOK
<1>4. Numbered(M)
  BY <1>2 DEF Numbered
<1> QED
  BY <1>2, <1>3, <1>4

\* The row of t is replaced by d, and the acceptances follow.
LEMMA RowCovered ==
  ASSUME IInv, NEW t \in Task, NEW d \in TaskRecord,
         d.result = 0 => d.verdict = NoVerdict,
         NEW x, d.tries = task[t].tries, d.state # "absent",
         d.state = "completed" => task[t].state = "completed" \/ ~Live(x),
         NEW M, M = Put(task, t, d)
  PROVE  Written(task, Covered(M), t, x)
<1>1. PICK T, C : T = task /\ C = Covered(M)
  OBVIOUS
<1>2. TasksOK(T) /\ Numbered(T) /\ M = Put(T, t, d)
  BY <1>1 DEF IInv, TreeInv
<1>3. /\ TasksOK(M) /\ Numbered(M)
      /\ M[t] = d /\ \A u \in Task : u # t => M[u] = T[u]
  BY <1>2, PutRow
<1>4. /\ TasksOK(C) /\ Numbered(C) /\ Honest(C)
      /\ \A u \in Task : C[u].state = M[u].state /\ C[u].tries = M[u].tries
  BY <1>1, <1>3, CoveredTyped, CoveredHonest
<1>5. Written(T, C, t, x)
  <2>1. ASSUME NEW u \in Task
        PROVE  /\ C[u].tries = T[u].tries
               /\ C[u].state = "absent" => T[u].state = "absent"
               /\ C[u].state = "completed" => T[u].state = "completed" \/ (u = t /\ ~Live(x))
    BY <1>1, <1>3, <1>4
  <2> QED
    BY <1>4, <2>1 DEF Written
<1> QED
  BY <1>1, <1>5

LEMMA SettledCompletedKeeps ==
  ASSUME IInv, NEW t \in Task, SettledCompleted(t)
  PROVE  IInv'
<1> DEFINE d == [task[t] EXCEPT !.state = "completed", !.made = @ + 1,
                                !.result = task[t].made + 1]
           done == [task EXCEPT ![t].state = "completed", ![t].made = @ + 1,
                                ![t].result = task[t].made + 1]
<1>1. task[t] \in TaskRecord
  BY TypedNow
<1>2. \A n \in Nat : n + 1 \in Nat /\ n + 1 # 0
  OBVIOUS
<1>3. /\ d \in TaskRecord /\ d.result # 0 /\ d.state = "completed"
      /\ d.tries = task[t].tries
  <2>1. task[t].made \in Nat
    BY <1>1 DEF TaskRecord
  <2> QED
    BY <1>1, <1>2, <2>1 DEF TaskRecord
<1>4. done = Put(task, t, d)
  BY <1>1 DEF IInv, TreeInv, TasksOK, TaskRecord, Put
<1>5. /\ Failed(d) \in TaskRecord /\ Failed(d).result # 0
      /\ Failed(d).state = "needs_review" /\ Failed(d).tries = task[t].tries
  BY <1>3, FailedRow
<1>6. /\ SetAttempt(t, NoAttempt) /\ question' = question
      /\ task' = Covered(done) \/ task' = FailAncestors([done EXCEPT ![t] = Failed(@)], {t})
  BY DEF SettledCompleted
<1>7. [done EXCEPT ![t] = Failed(@)] = Put(task, t, Failed(d))
  <2> HIDE DEF d, done
  <2>1. task = [u \in Task |-> task[u]] /\ done[t] = d
    BY <1>4 DEF IInv, TreeInv, TasksOK, Put
  <2> QED
    BY <1>4, <2>1 DEF Put
<1> HIDE DEF d, done
<1>8. CASE task' = Covered(done)
  <2>1. PICK M : M = done
    OBVIOUS
  <2>2. Written(task, Covered(M), t, NoAttempt)
    BY <1>3, <1>4, <2>1, NoAttemptCalm, RowCovered
  <2> QED
    BY <1>6, <1>8, <2>1, <2>2, OneAttempt, NoAttemptCalm
<1>9. CASE task' = FailAncestors([done EXCEPT ![t] = Failed(@)], {t})
  <2>1. PICK T, e, M, F : /\ T = task /\ e = Failed(d) /\ M = Put(T, t, e)
                          /\ F = FailAncestors(M, {t})
    OBVIOUS
  <2>2. task' = F
    BY <1>7, <1>9, <2>1
  <2>3. TasksOK(T) /\ Numbered(T) /\ e \in TaskRecord /\ e.result # 0
    BY <1>5, <2>1 DEF IInv, TreeInv
  <2>4. /\ TasksOK(M) /\ Numbered(M)
        /\ M[t] = e /\ \A u \in Task : u # t => M[u] = T[u]
    BY <2>1, <2>3, PutRow
  <2>5. TasksOK(F) /\ Numbered(F) /\ Honest(F) /\ \A u \in Task : Sinks(M[u], F[u])
    BY <2>1, <2>4, FailAncestorsRows
  <2>6. ASSUME NEW u \in Task
        PROVE  /\ F[u].tries = T[u].tries
               /\ F[u].state = "absent" => T[u].state = "absent"
               /\ F[u].state = "completed" => T[u].state = "completed"
    <3>1. e.tries = T[t].tries /\ e.state = "needs_review"
      BY <1>5, <2>1
    <3> QED
      BY <2>4, <2>5, <3>1 DEF Sinks
  <2>7. Written(T, F, t, NoAttempt)
    BY <2>5, <2>6 DEF Written
  <2> QED
    BY <1>6, <2>1, <2>2, <2>7, OneAttempt, NoAttemptCalm
<1> QED
  BY <1>6, <1>8, <1>9

-----------------------------------------------------------------------------
(* Operations.                                                               *)

\* The attempts, and the questions, stay.
LEMMA TableOnly ==
  ASSUME IInv, NEW t \in Task, ~Live(attempt[t]) \/ task[t].state = "completed",
         attempt' = attempt, question' = question, Written(task, task', t, attempt[t])
  PROVE  IInv'
<1>1. \A u \in Task : attempt'[u] = attempt[u] /\ Alike(question[u], question'[u])
  BY DEF Alike
<1>2. \A u \in Task : /\ task'[u].state \in {"absent", "completed"} => ~Live(attempt'[u])
                      /\ Calm(attempt[u], attempt'[u])
  BY <1>1, TypedNow DEF Written
<1>3. AttemptsOK(attempt') /\ QuestionsOK(question')
  BY DEF IInv, TreeInv
<1> QED
  BY <1>1, <1>2, <1>3, CalmStep DEF Written

LEMMA CreateTaskKeeps ==
  ASSUME IInv, NEW t \in Task, CreateTask(t)
  PROVE  IInv'
<1>1. PICK T, d, M : T = task /\ d = NewTask("queued") /\ M = Put(T, t, d)
  OBVIOUS
<1>2. /\ task' = M /\ attempt' = attempt /\ question' = question
      /\ T[t].state = "absent"
  BY <1>1 DEF CreateTask, Put
<1>3. /\ d \in TaskRecord /\ d.tries = 0 /\ d.state = "queued"
      /\ d.verdict = NoVerdict
  BY <1>1 DEF NewTask, TaskRecord, NoVerdict, Verdicts
<1>4. /\ TasksOK(M) /\ Numbered(M)
      /\ M[t] = d /\ \A u \in Task : u # t => M[u] = T[u]
  BY <1>1, <1>3, PutRow DEF IInv, TreeInv
<1>5. T[t].tries = 0 /\ ~Live(attempt[t])
  BY <1>1, <1>2 DEF IInv, TreeInv, AtRest
<1>6. \A u \in Task : Mild(T[u], M[u])
  BY <1>2, <1>3, <1>4 DEF Mild
<1>7. Honest(M)
  BY <1>1, <1>6, MildKeeps DEF IInv, TreeInv
<1>8. Written(T, M, t, attempt[t])
  BY <1>3, <1>4, <1>5, <1>7 DEF Written
<1> QED
  BY <1>1, <1>2, <1>5, <1>8, TableOnly

LEMMA TaskRetryKeeps ==
  ASSUME IInv, NEW t \in Task, TaskRetry(t)
  PROVE  IInv'
<1>1. PICK d, M : /\ d = [task[t] EXCEPT !.state = "queued", !.flag = FALSE, !.waits = {},
                                         !.result = 0, !.verdict = NoVerdict]
                  /\ M = Put(task, t, d)
  OBVIOUS
<1>2. /\ d \in TaskRecord /\ d.tries = task[t].tries /\ d.state = "queued"
      /\ d.verdict = NoVerdict
  <2>1. task[t] \in TaskRecord /\ NoVerdict \in Verdicts
    BY TypedNow DEF NoVerdict, Verdicts
  <2> QED
    BY <1>1, <2>1 DEF TaskRecord
<1>3. M = [task EXCEPT ![t] = [@ EXCEPT !.state = "queued", !.flag = FALSE, !.waits = {},
                                        !.result = 0, !.verdict = NoVerdict]]
  BY <1>1 DEF IInv, TreeInv, TasksOK, Put
<1>4. /\ task' = Covered(M) /\ attempt' = attempt /\ question' = question
      /\ ~Live(attempt[t])
  BY <1>3 DEF TaskRetry
<1>5. PICK x : x = attempt[t]
  OBVIOUS
<1>6. Written(task, Covered(M), t, x)
  BY <1>1, <1>2, RowCovered
<1> QED
  BY <1>4, <1>5, <1>6, TableOnly

LEMMA TaskRecoverKeeps ==
  ASSUME IInv, NEW t \in Task, TaskRecover(t)
  PROVE  IInv'
<1>1. PICK d, M : /\ d = [task[t] EXCEPT !.state = "completed", !.flag = FALSE, !.waits = {},
                                         !.made = task[t].made + 1,
                                         !.result = task[t].made + 1,
                                         !.verdict = NoVerdict]
                  /\ M = Put(task, t, d)
  OBVIOUS
<1>2. /\ d \in TaskRecord /\ d.tries = task[t].tries /\ d.state = "completed"
      /\ d.verdict = NoVerdict
  <2>1. task[t] \in TaskRecord
    BY TypedNow
  <2>2. task[t].made \in Nat /\ task[t].made + 1 \in Nat
    BY <2>1 DEF TaskRecord
  <2> QED
    BY <1>1, <2>1, <2>2 DEF TaskRecord, NoVerdict, Verdicts
<1>3. M = [task EXCEPT ![t] = [@ EXCEPT !.state = "completed", !.flag = FALSE, !.waits = {},
                                        !.made = task[t].made + 1, !.result = task[t].made + 1,
                                        !.verdict = NoVerdict]]
  BY <1>1 DEF IInv, TreeInv, TasksOK, Put
<1>4. /\ task' = Covered(M) /\ attempt' = attempt /\ question' = question
      /\ ~Live(attempt[t])
  BY <1>3 DEF TaskRecover
<1>5. PICK x : x = attempt[t]
  OBVIOUS
<1>6. Written(task, Covered(M), t, x)
  BY <1>1, <1>2, <1>4, <1>5, RowCovered
<1> QED
  BY <1>4, <1>5, <1>6, TableOnly

LEMMA JudgeKeeps ==
  ASSUME IInv, NEW t \in Task, NEW decision \in {"accepted", "rejected"}, Judge(t, decision)
  PROVE  IInv'
<1>1. PICK v : v = [decision |-> decision, result |-> task[t].result, by |-> 0]
  OBVIOUS
<1>2. PICK d, M : d = [task[t] EXCEPT !.verdict = v] /\ M = Put(task, t, d)
  OBVIOUS
<1>3. v \in Verdicts
  BY <1>1, TypedNow DEF Verdicts, TaskRecord
<1>4. task[t].state = "completed" /\ task[t].result # 0
  BY DEF Judge
<1>5. /\ d \in TaskRecord /\ d.tries = task[t].tries /\ d.state = task[t].state
      /\ d.result = task[t].result
  BY <1>2, <1>3, TypedNow DEF TaskRecord
<1>6. M = [task EXCEPT ![t].verdict = v]
  BY <1>2 DEF IInv, TreeInv, TasksOK, Put
<1>7. task' = Covered(M) /\ attempt' = attempt /\ question' = question
  BY <1>1, <1>6 DEF Judge
<1>8. PICK x : x = attempt[t]
  OBVIOUS
<1>9. Written(task, Covered(M), t, x)
  BY <1>2, <1>4, <1>5, RowCovered
<1> QED
  BY <1>4, <1>7, <1>8, <1>9, TableOnly

LEMMA InterruptKeeps ==
  ASSUME IInv, NEW a, Interrupt(a)
  PROVE  IInv'
<1>1. PICK T, G, L : T = task /\ G = {a} /\ L = {}
  OBVIOUS
<1>2. TreeInv(ExpiredTask(T, G, L), ExpiredAttempt(G, L), question)
  BY <1>1, ExpiredKeeps DEF IInv
<1> QED
  BY <1>1, <1>2 DEF Interrupt, IInv

LEMMA TaskCancelKeeps ==
  ASSUME IInv, NEW t \in Task, TaskCancel(t)
  PROVE  IInv'
<1>1. PICK T, K, A : T = task /\ K = Called(t) /\ A = attempt
  OBVIOUS
<1>2. PICK M, F, A2 :
        /\ M = [u \in Task |-> IF u \in K THEN [T[u] EXCEPT !.state = "cancelled",
                                                            !.flag = FALSE, !.waits = {}]
                               ELSE T[u]]
        /\ F = FailAncestors(M, {t})
        /\ A2 = [u \in Task |-> IF u \in K THEN CancelledAttempt(A[u]) ELSE A[u]]
  OBVIOUS
<1>3. task' = F /\ attempt' = A2 /\ question' = question
  BY <1>1, <1>2 DEF TaskCancel
<1>4. \A u \in Task : T[u] \in TaskRecord /\ A[u] \in AttemptRecord
  BY <1>1, TypedNow
<1>5. \A c \in TaskRecord : LET e == [c EXCEPT !.state = "cancelled", !.flag = FALSE,
                                               !.waits = {}] IN
        /\ e \in TaskRecord /\ e.state = "cancelled" /\ e.tries = c.tries
        /\ e.result = c.result /\ e.verdict = c.verdict
  BY DEF TaskRecord
<1>6. \A u \in Task : /\ M[u] \in TaskRecord /\ Interrupted(T[u], M[u])
                      /\ M[u].result = T[u].result /\ M[u].verdict = T[u].verdict
  <2> SUFFICES ASSUME NEW u \in Task
               PROVE  /\ M[u] \in TaskRecord /\ Interrupted(T[u], M[u])
                      /\ M[u].result = T[u].result /\ M[u].verdict = T[u].verdict
    OBVIOUS
  <2>1. CASE u \in K
    <3>1. M[u] = [T[u] EXCEPT !.state = "cancelled", !.flag = FALSE, !.waits = {}]
      BY <1>2, <2>1
    <3> QED
      BY <1>4, <1>5, <3>1 DEF Interrupted
  <2>2. CASE u \notin K
    <3>1. M[u] = T[u]
      BY <1>2, <2>2
    <3> QED
      BY <1>4, <3>1 DEF Interrupted
  <2> QED
    BY <2>1, <2>2
<1>7. M = [u \in Task |-> M[u]]
  BY <1>2
<1>8. TasksOK(M) /\ Numbered(M)
  BY <1>1, <1>6, <1>7 DEF TasksOK, Numbered, IInv, TreeInv
<1>9. TasksOK(F) /\ Numbered(F) /\ Honest(F) /\ \A u \in Task : Sinks(M[u], F[u])
  BY <1>2, <1>8, FailAncestorsRows
<1>10. ASSUME NEW y \in AttemptRecord
       PROVE  CancelledAttempt(y) \in AttemptRecord /\ Calm(y, CancelledAttempt(y))
  <2>1. CASE Live(y) /\ y.receipt # "fresh" /\ ~Suspended(y)
    <3>1. CancelledAttempt(y) = Quarantine(y, "cancelled")
      BY <2>1 DEF CancelledAttempt
    <3> QED
      BY <2>1, <3>1, QuarantineRow, QuarantineCalm
  <2>2. CASE ~(Live(y) /\ y.receipt # "fresh" /\ ~Suspended(y))
    BY <2>2, NoAttemptCalm DEF CancelledAttempt
  <2> QED
    BY <2>1, <2>2
<1>11. \A u \in Task : A2[u] \in AttemptRecord /\ Calm(A[u], A2[u])
  <2> SUFFICES ASSUME NEW u \in Task
               PROVE  A2[u] \in AttemptRecord /\ Calm(A[u], A2[u])
    OBVIOUS
  <2>1. CASE u \in K
    BY <1>2, <1>4, <1>10, <2>1
  <2>2. CASE u \notin K
    BY <1>1, <1>2, <1>4, <2>2, TypedNow
  <2> QED
    BY <2>1, <2>2
<1>12. AttemptsOK(A2)
  BY <1>2, <1>11 DEF AttemptsOK
<1>13. \A u \in Task : /\ F[u].tries = T[u].tries
                       /\ F[u].state = "absent" => T[u].state = "absent"
                       /\ F[u].state = "completed" => T[u].state = "completed"
  BY <1>6, <1>9 DEF Interrupted, Sinks
<1>14. \A u \in Task : F[u].state \in {"absent", "completed"} => ~Live(A2[u])
  BY <1>1, <1>11, <1>13, TypedNow DEF Calm
<1>15. \A u \in Task : Alike(question[u], question'[u])
  BY <1>3 DEF Alike
<1>16. QuestionsOK(question')
  BY <1>3 DEF IInv, TreeInv
<1> QED
  BY <1>1, <1>3, <1>9, <1>11, <1>12, <1>13, <1>14, <1>15, <1>16, CalmStep

LEMMA RestartKeeps ==
  ASSUME IInv, Restart
  PROVE  IInv'
<1>1. PICK T, A : T = task /\ A = attempt
  OBVIOUS
<1>2. PICK T2, A2 :
        /\ A2 = [t \in Task |-> IF Live(A[t]) THEN Quarantine(A[t], "needs_review") ELSE A[t]]
        /\ T2 = [t \in Task |->
                   IF Live(A[t]) THEN [T[t] EXCEPT !.state = "needs_review"]
                   ELSE IF Pending(T[t]) /\ T[t].tries = 0 THEN Failed(T[t])
                   ELSE T[t]]
  OBVIOUS
<1>3. task' = T2 /\ attempt' = A2 /\ question' = question
  BY <1>1, <1>2 DEF Restart
<1>4. \A t \in Task : T[t] \in TaskRecord /\ A[t] \in AttemptRecord
  BY <1>1, TypedNow
<1>5. \A c \in TaskRecord : LET e == [c EXCEPT !.state = "needs_review"] IN
        /\ e \in TaskRecord /\ e.state = "needs_review" /\ e.tries = c.tries
        /\ e.result = c.result /\ e.verdict = c.verdict
  BY DEF TaskRecord
<1>6. ASSUME NEW t \in Task
      PROVE  /\ T2[t] \in TaskRecord /\ Interrupted(T[t], T2[t]) /\ Mild(T[t], T2[t])
             /\ A2[t] \in AttemptRecord /\ Calm(A[t], A2[t])
             /\ Live(A2[t]) <=> Live(A[t])
  <2>1. CASE Live(A[t])
    <3>1. T2[t] = [T[t] EXCEPT !.state = "needs_review"]
      BY <1>2, <2>1
    <3>2. A2[t] = Quarantine(A[t], "needs_review")
      BY <1>2, <2>1
    <3>3. T[t].state # "completed"
      BY <1>1, <2>1, TypedNow
    <3>4. A2[t] \in AttemptRecord /\ Calm(A[t], A2[t]) /\ Live(A2[t])
      BY <1>4, <2>1, <3>2, QuarantineRow, QuarantineCalm
    <3> QED
      BY <1>4, <1>5, <2>1, <3>1, <3>3, <3>4 DEF Interrupted, Mild
  <2>2. CASE ~Live(A[t])
    <3>1. A2[t] = A[t]
      BY <1>2, <2>2
    <3>2. A2[t] \in AttemptRecord /\ Calm(A[t], A2[t])
      BY <1>1, <3>1, TypedNow
    <3>3. CASE Pending(T[t]) /\ T[t].tries = 0
      <4>1. T2[t] = Failed(T[t])
        BY <1>2, <2>2, <3>3
      <4> QED
        BY <1>4, <2>2, <3>1, <3>2, <3>3, <4>1, FailedRow DEF Interrupted, Mild, Pending
    <3>4. CASE ~(Pending(T[t]) /\ T[t].tries = 0)
      <4>1. T2[t] = T[t]
        BY <1>2, <2>2, <3>4
      <4> QED
        BY <1>4, <2>2, <3>1, <3>2, <4>1 DEF Interrupted, Mild
    <3> QED
      BY <3>3, <3>4
  <2> QED
    BY <2>1, <2>2
<1>7. TasksOK(T2) /\ AttemptsOK(A2)
  BY <1>2, <1>6 DEF TasksOK, AttemptsOK
<1>8. Numbered(T2) /\ Honest(T2)
  BY <1>1, <1>6, MildKeeps DEF IInv, TreeInv
<1>9. \A t \in Task : T2[t].state \in {"absent", "completed"} => ~Live(A2[t])
  BY <1>1, <1>6, TypedNow DEF Interrupted
<1>10. \A t \in Task : Alike(question[t], question'[t])
  BY <1>3 DEF Alike
<1>11. QuestionsOK(question')
  BY <1>3 DEF IInv, TreeInv
<1>12. \A t \in Task : /\ T2[t].tries = T[t].tries
                       /\ T2[t].state = "absent" => T[t].state = "absent"
                       /\ Calm(A[t], A2[t])
  BY <1>6 DEF Interrupted
<1> QED
  BY <1>1, <1>3, <1>7, <1>8, <1>9, <1>10, <1>11, <1>12, CalmStep

-----------------------------------------------------------------------------
(* The invariant, and what follows.                                          *)

LEMMA InitOK ==
  ASSUME Init
  PROVE  IInv
<1>1. PICK T, A, Q : T = task /\ A = attempt /\ Q = question
  OBVIOUS
<1>2. NewTask("absent") \in TaskRecord /\ NewTask("absent").verdict = NoVerdict
      /\ NewTask("absent").tries = 0 /\ NewTask("absent").state = "absent"
  BY DEF NewTask, TaskRecord, NoVerdict, Verdicts
<1>3. \A t \in Task : /\ T[t] = NewTask("absent") /\ A[t] = NoAttempt
                      /\ Q[t].state = "none"
  BY <1>1 DEF Init
<1>4. TasksOK(T) /\ AttemptsOK(A)
  BY <1>1, <1>2, NoAttemptCalm DEF Init, TasksOK, AttemptsOK
<1>5. QuestionsOK(Q)
  BY <1>1 DEF Init, QuestionsOK, QuestionRecord
<1>6. AtRest(T, A) /\ Alone(A)
  BY <1>2, <1>3, NoAttemptCalm DEF AtRest, Alone
<1>7. Askers(T, A, Q)
  BY <1>3 DEF Askers, Open
<1>8. Responses(T, A, Q)
  BY <1>3 DEF Responses, Executing, NoAttempt
<1>9. Numbered(T) /\ Honest(T)
  BY <1>2, <1>3 DEF Numbered, Honest, NoVerdict
<1> QED
  BY <1>1, <1>4, <1>5, <1>6, <1>7, <1>8, <1>9 DEF IInv, TreeInv

LEMMA NextKeeps ==
  ASSUME IInv, [Next]_vars
  PROVE  IInv'
<1>1. CASE Tick
  BY <1>1, TickKeeps
<1>2. CASE Restart
  BY <1>2, RestartKeeps
<1>3. ASSUME NEW t \in Task, CreateTask(t) \/ Event(t)
      PROVE  IInv'
  <2>1. CASE CreateTask(t)
    BY <2>1, CreateTaskKeeps
  <2>2. CASE Inject(t) \/ Observe(t) \/ Yield(t) \/ Clarify(t) \/ Answer(t) \/ ResultProposed(t)
    BY <2>2, InjectKeeps, ObserveKeeps, YieldKeeps, ClarifyKeeps, AnswerKeeps,
       ResultProposedKeeps
  <2>3. CASE \/ SettledFailed(t) \/ SettledResponse(t) \/ SettledSuspended(t)
             \/ SettledMissing(t) \/ SettledCompleted(t)
    BY <2>3, SettledFailedKeeps, SettledResponseKeeps, SettledSuspendedKeeps,
       SettledMissingKeeps, SettledCompletedKeeps
  <2>4. CASE Deferred(t) \/ Stopped(t)
    BY <2>4, DeferredKeeps, StoppedKeeps
  <2> QED
    BY <1>3, <2>1, <2>2, <2>3, <2>4 DEF Event
<1>4. ASSUME NEW t \in Steered, Operation(t)
      PROVE  IInv'
  <2>1. t \in Task
    BY TreeAssumption
  <2>2. CASE Reconcile(t)
    BY <2>1, <2>2, ReconcileKeeps
  <2>3. CASE TaskCancel(t)
    BY <2>1, <2>3, TaskCancelKeeps
  <2>4. CASE TaskRetry(t)
    BY <2>1, <2>4, TaskRetryKeeps
  <2>5. CASE TaskRecover(t)
    BY <2>1, <2>5, TaskRecoverKeeps
  <2>6. CASE Judge(t, "accepted") \/ Judge(t, "rejected")
    BY <2>1, <2>6, JudgeKeeps
  <2> QED
    BY <1>4, <2>2, <2>3, <2>4, <2>5, <2>6 DEF Operation
<1>5. ASSUME NEW t \in Failing, Interrupt(agentOf[t])
      PROVE  IInv'
  <2>1. PICK a : a = agentOf[t]
    OBVIOUS
  <2> QED
    BY <1>5, <2>1, InterruptKeeps
<1>6. CASE UNCHANGED vars
  BY <1>6 DEF vars, IInv, TreeInv, TasksOK, AttemptsOK, QuestionsOK, AtRest, Alone, Askers,
              Open, Asked, Responses, Numbered, Honest
<1> QED
  BY <1>1, <1>2, <1>3, <1>4, <1>5, <1>6 DEF Next

\* In every reachable state: what an asker remembers, what a response segment
\* answers and what an acceptance was given for agree across the three tables,
\* whatever the trees.
THEOREM TreesInvariant == Spec => []IInv
<1>1. Init => IInv
  BY InitOK
<1>2. IInv /\ [Next]_vars => IInv'
  BY NextKeeps
<1> QED
  BY <1>1, <1>2, PTL DEF Spec

\* The tables hold rows of their types.
THEOREM Typing == Spec => []TypeOK
<1>1. IInv => TypeOK
  BY DEF IInv, TreeInv, TasksOK, AttemptsOK, QuestionsOK, TypeOK
<1> QED
  BY <1>1, TreesInvariant, PTL

\* While a Task works, none of the Tasks it invoked has an Attempt: Tick starts a
\* child only while its parent is suspended, and continues the parent only when
\* its children have completed.
THEOREM ParentWorksAlone == Spec => []WorksAlone
<1>1. IInv => WorksAlone
  BY DEF IInv, TreeInv, Alone, WorksAlone
<1> QED
  BY <1>1, TreesInvariant, PTL

\* What coverChildren accepts is the result its accepted parent refers to, after
\* every transaction that could have changed either.
THEOREM Coverage == Spec => []CoverageHonest
<1>1. IInv => CoverageHonest
  BY DEF IInv, TreeInv, Honest, CoverageHonest
<1> QED
  BY <1>1, TreesInvariant, PTL

\* An asker that has not been asked itself yields until its answer is on record,
\* and a response segment has a question to answer.
THEOREM AnswersReach == Spec => []AnswerReachesAsker
<1>1. IInv => AnswerReachesAsker
  <2> SUFFICES ASSUME IInv, NEW t \in Task
               PROVE  /\ /\ question[t].state \in {"waiting_child_settled", "answering"}
                         /\ question[t].from = task[t].tries /\ Executing(attempt[t])
                         /\ ~HasBeenAsked(t)
                         => attempt[t].yield
                      /\ Executing(attempt[t]) /\ attempt[t].mode = "response_only" =>
                           question[attempt[t].about].state = "answering"
    BY DEF AnswerReachesAsker
  <2>1. HasBeenAsked(t) <=> Asked(task, question, t)
    BY DEF HasBeenAsked, Asked
  <2>2. /\ question[t].state \in {"waiting_child_settled", "answering"}
        /\ question[t].from = task[t].tries /\ Executing(attempt[t])
        /\ ~HasBeenAsked(t)
        => attempt[t].yield
    BY <2>1 DEF IInv, TreeInv, Askers, Open, Remembers
  <2>3. Executing(attempt[t]) /\ attempt[t].mode = "response_only" =>
          question[attempt[t].about].state = "answering"
    BY DEF IInv, TreeInv, Responses
  <2> QED
    BY <2>2, <2>3
<1> QED
  BY <1>1, TreesInvariant, PTL

\* reconcileWaitGraph, at the end of every Tick: when there are circles of waits
\* one of them has a Task that is left to the operator.
THEOREM CirclesNoticed == Spec => NoSilentCycle
<1>1. IInv /\ [Next]_vars => [~Noticed(task') => ~Tick]_vars
  BY TickKeeps
<1> QED
  BY <1>1, TreesInvariant, PTL DEF Spec, NoSilentCycle
=================================================================================
