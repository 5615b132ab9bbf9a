------------------------------ MODULE Reservations ------------------------------
(***************************************************************************)
(* What the controller promises about Teams and Roles, without the Runs,   *)
(* Leaders, Tasks and failures behind it: whoever comes gets a place at    *)
(* the end of one line; he is served with everything he needs at once, out *)
(* of what nobody uses, and never before somebody who stands earlier and   *)
(* needs any of it; he keeps all of it for as long as he works; and he     *)
(* comes once.                                                             *)
(***************************************************************************)
EXTENDS Integers

CONSTANTS
  Party, Thing, Nobody,
  needs         \* [Party -> SUBSET Thing]

VARIABLES
  stage,        \* [Party -> Stages]
  place,        \* [Party -> Nat]: the place in line that the party was given
  user,         \* [Thing -> Party \cup {Nobody}]
  working       \* the parties that do something with what they have

vars == <<stage, place, user, working>>

Stages == {"away", "inline", "served", "gone"}

Init ==
  /\ stage = [p \in Party |-> "away"]
  /\ place = [p \in Party |-> 0]
  /\ user = [x \in Thing |-> Nobody]
  /\ working = {}

\* Where a party may be after one transaction; it may be served as it comes.
Later == [away   |-> {"away", "inline", "served"},
          inline |-> {"inline", "served", "gone"},
          served |-> {"served", "gone"},
          gone   |-> {"gone"}]

Comes(p) == stage[p] = "away" /\ stage'[p] # "away"

\* Who comes stands behind all that came before; a place is never changed.
Line ==
  /\ stage' \in [Party -> Stages] /\ place' \in [Party -> Nat]
  /\ \A p \in Party : stage'[p] \in Later[stage[p]]
  /\ \A p \in Party : ~Comes(p) => place'[p] = place[p]
  /\ \A p, q \in Party : Comes(p) /\ stage[q] # "away" => place[q] < place'[p]
  /\ \A p, q \in Party : Comes(p) /\ Comes(q) /\ place'[p] = place'[q] => p = q

\* What is given back in one transaction is passed on in a later one.
Service ==
  \A p \in Party : stage[p] # "served" /\ stage'[p] = "served" =>
    /\ \A x \in needs[p] : user[x] = Nobody
    /\ \A q \in Party \ {p} :
         stage[q] = "inline" /\ needs[p] \cap needs[q] # {} => place'[p] < place[q]

Use ==
  /\ user' \in [Thing -> Party \cup {Nobody}]
  /\ \A x \in Thing, p \in Party : user'[x] = p <=> stage'[p] = "served" /\ x \in needs[p]
  /\ working' \in SUBSET Party
  /\ \A p \in working' : stage'[p] = "served"

Next == Line /\ Service /\ Use

Spec == Init /\ [][Next]_vars
=================================================================================
