--------------------------- MODULE MCRunAdmission ---------------------------
(* Instances of RunAdmission for TLC.                                      *)
EXTENDS RunAdmission

CONSTANTS r1, r2, r3, t1, t2, t3, teamA, teamB, w, v

\* One Run: a business Task t1, a review t2 of it, a LeaderStep t3 at a time.
OneTeamOf  == [r \in Run |-> teamA]
OneRoster  == [r \in Run |-> {w}]
OneRunOf   == [t \in Task |-> r1]
OneKind    == [t \in Task |-> IF t = t3 THEN "leader_step" ELSE "execute"]
ReviewKind == [t \in Task |-> CASE t = t1 -> "execute" [] t = t2 -> "review"
                                 [] OTHER -> "leader_step"]
OneRoleOf  == [t \in Task |-> w]

\* Three Runs: r1 and r2 belong to one Team, whose roster changed between them;
\* r3 of another Team shares a Role with r1 and may run beside r2.
QueueTeamOf == [r \in Run |-> IF r = r3 THEN teamB ELSE teamA]
QueueRoster == [r \in Run |-> IF r = r2 THEN {v} ELSE {w}]
QueueRunOf  == [t \in Task |-> r1]
QueueKind   == [t \in Task |-> "execute"]
QueueRoleOf == [t \in Task |-> w]
=============================================================================
