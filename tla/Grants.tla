--------------------------------- MODULE Grants --------------------------------
(***************************************************************************)
(* What the controller promises about permissions to execute, without the  *)
(* Attempts, identities and failures behind it: a client works for one     *)
(* piece of work at a time, a piece of work executes under one token until *)
(* the token is withdrawn, tokens grow and are never given twice, and the  *)
(* permissions in force never exceed a limit.                              *)
(***************************************************************************)
EXTENDS Integers, FiniteSets

CONSTANTS Client, Work, Nobody, Limit

VARIABLES
  holder,   \* [Client -> Work \cup {Nobody}]
  grant,    \* [Work -> Nat]: the token in force, or 0
  last      \* the newest token

vars == <<holder, grant, last>>

InForce(g) == {w \in Work : g[w] # 0}

Init ==
  /\ holder = [c \in Client |-> Nobody]
  /\ grant = [w \in Work |-> 0]
  /\ last = 0

\* A client is never passed from one piece of work to another: it is free in
\* between, and while it is, nothing of what it worked for is permitted.
Assignment ==
  /\ holder' \in [Client -> Work \cup {Nobody}]
  /\ \A c \in Client : holder'[c] # holder[c] => holder[c] = Nobody \/ holder'[c] = Nobody
  /\ \A c, d \in Client : holder'[c] = holder'[d] /\ holder'[c] # Nobody => c = d

Permission ==
  /\ grant' \in [Work -> Nat] /\ last' \in Nat
  /\ last' >= last
  /\ \A w \in Work : grant'[w] \in {0, grant[w]}
                     \/ (grant[w] = 0 /\ grant'[w] > last /\ grant'[w] <= last')
  /\ \A v, w \in Work : grant'[v] = grant'[w] /\ grant'[v] # 0 => v = w
  /\ \A w \in Work : grant'[w] # 0 => \E c \in Client : holder'[c] = w
  /\ Cardinality(InForce(grant')) <= Limit

\* One transaction may free some, assign some and permit some.
Next == Assignment /\ Permission

Spec == Init /\ [][Next]_vars
================================================================================
