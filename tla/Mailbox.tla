-------------------------------- MODULE Mailbox --------------------------------
(***************************************************************************)
(* What the controller promises about messages between agents, without the *)
(* requests, identities, polls, receipts and failures behind it: a letter  *)
(* is posted once and never altered; it is taken, kept and answered in     *)
(* this order or else given up, and whichever end it comes to is the last; *)
(* one reply answers it; it is put on the page of its receiver once, only  *)
(* if it was taken before anybody gave it up; and it is kept once it is    *)
(* there.                                                                  *)
(***************************************************************************)
EXTENDS Integers, Sequences

CONSTANTS
  Box,          \* where letters come from and go to
  Item, Single  \* what a letter says; what is said in one letter only

VARIABLES
  letter,       \* Seq(Letters), as they were posted
  standing,     \* [DOMAIN letter -> Standings]
  page          \* [Box -> Seq(DOMAIN letter)]: what its receiver has been shown

vars == <<letter, standing, page>>

Letters == [item : Item, from : Box, to : Box, re : Nat]

\* Lost letters were given up before they were taken, dropped ones after it.
Course == [waiting  |-> {"waiting", "taken", "lost"},
           taken    |-> {"taken", "kept", "answered", "dropped"},
           kept     |-> {"kept", "answered"},
           answered |-> {"answered"},
           lost     |-> {"lost"},
           dropped  |-> {"dropped"}]

Standings == DOMAIN Course

Init == letter = <<>> /\ standing = <<>> /\ page = [b \in Box |-> <<>>]

New == DOMAIN letter' \ DOMAIN letter

\* A reply goes back where its letter came from, while that may be answered.
Replies(m) ==
  /\ m.re \in DOMAIN letter /\ standing[m.re] \in {"taken", "kept"}
  /\ m.from = letter[m.re].to /\ m.to = letter[m.re].from

Post ==
  /\ letter' \in Seq(Letters)
  /\ \A i \in DOMAIN letter : i \in DOMAIN letter' /\ letter'[i] = letter[i]
  /\ \A i \in New, j \in DOMAIN letter' :
       letter'[i].item \in Single /\ letter'[j].item = letter'[i].item => i = j
  /\ \A i \in New : letter'[i].re # 0 => Replies(letter'[i])

OnPage(i) == \E k \in DOMAIN page[letter[i].to] : page[letter[i].to][k] = i

\* A letter may be lost as it is posted, and then it answers nothing.
Stand ==
  /\ standing' \in [DOMAIN letter' -> Standings]
  /\ \A i \in DOMAIN letter : standing'[i] \in Course[standing[i]]
  /\ \A i \in New : standing'[i] \in {"waiting", "lost"}
  /\ \A i \in DOMAIN letter : standing[i] # "kept" /\ standing'[i] = "kept" => OnPage(i)
  /\ \A i \in DOMAIN letter :
       standing[i] # "answered" /\ standing'[i] = "answered"
       <=> \E j \in New : letter'[j].re = i /\ standing'[j] = "waiting"

Puts(b, i) ==
  /\ letter[i].to = b /\ ~OnPage(i)
  /\ standing'[i] \in {"taken", "kept", "answered", "dropped"}
  /\ page'[b] = Append(page[b], i)

Show == /\ page' \in [Box -> Seq(Nat)]
        /\ \A b \in Box : page'[b] = page[b] \/ \E i \in DOMAIN letter : Puts(b, i)

Next == Post /\ Stand /\ Show

Spec == Init /\ [][Next]_vars
=================================================================================
