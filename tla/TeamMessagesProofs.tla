--------------------------- MODULE TeamMessagesProofs ---------------------------
(***************************************************************************)
(* For any agents, requests, questions and bounds: a request stores one    *)
(* message, a message has one reply that was not offline, nothing is shown *)
(* twice, in another session than it was sent to, or unreceipted, and the  *)
(* whole implements Mailbox.                                               *)
(*                                                                         *)
(* The rows of the table only grow in number and change in status, and two *)
(* statuses are final: Moved.  What the loops, the late receipts and the   *)
(* entries know of a row is its receiver, which does not change: Grown.    *)
(* For Mailbox every step either turns rows, each one step of its course   *)
(* on (Turns), or posts one (Posted).                                      *)
(***************************************************************************)
EXTENDS TeamMessages, TLAPS

\* Epochs are counted by the mishaps.
Bounded == \A a \in Agent : inst[a].epoch =< mishaps

Asked == \A k \in Ask : ask[k].state # "none" => ask[k].from \in Bindings /\ ask[k].to \in Bindings

\* The adapter takes itself for nobody else.
Itself == \A a \in Agent : mine[a].agent = a

Rows == Seq(Messages)

\* What the rows T, the remembered requests M and the receipts R say of each
\* other.  A request that stored a message is remembered with it.
Remembered(T, M) ==
  \A i \in DOMAIN T : T[i].req \in Request => M[T[i].req] = i

\* A reply that was not offline has marked its original.
AnswersMarked(T) ==
  \A i \in DOMAIN T : T[i].reply # 0 =>
    /\ T[i].reply \in DOMAIN T
    /\ T[i].status # "offline" => T[T[i].reply].status = "replied"

\* OneReply, of any rows.
AnsweredOnce(T) ==
  \A i, j \in DOMAIN T :
    i # j /\ T[i].reply = T[j].reply /\ T[i].reply # 0
    => "offline" \in {T[i].status, T[j].status}

Acked == {"received", "recorded", "replied"}
Acknowledged(T, R) == \A i \in DOMAIN T : T[i].status \in Acked => i \in R

RowsOK(T, M, R) ==
  /\ T \in Rows /\ R \subseteq DOMAIN T
  /\ Remembered(T, M) /\ AnswersMarked(T) /\ AnsweredOnce(T) /\ Acknowledged(T, R)

\* What the loop of an agent has before it was sent to its session, and what it
\* takes for received has a receipt.
Before(a) ==
  /\ inbox[a].at = "idle" => inbox[a].list = {}
  /\ \A s \in inbox[a].list :
       /\ s.id \in DOMAIN msgs
       /\ msgs[s.id].to.agent = a /\ msgs[s.id].to.session = mine[a].session
       /\ s.status = "received" => s.id \in receipted

Delivery ==
  /\ \A a \in Agent : Before(a)
  /\ \A q \in late : q.id \in DOMAIN msgs
  /\ ShownRightly

IInv == TypeOK /\ Bounded /\ Asked /\ Itself /\ RowsOK(msgs, memo, receipted) /\ Delivery

-----------------------------------------------------------------------------
(* The rows.                                                               *)

\* U is T with other statuses, of which the acknowledged ones are old or in R.
Moved(T, U, R) ==
  /\ U \in Rows /\ DOMAIN U = DOMAIN T
  /\ \A i \in DOMAIN T :
       /\ U[i].req = T[i].req /\ U[i].from = T[i].from /\ U[i].to = T[i].to
       /\ U[i].reply = T[i].reply
       /\ T[i].status = "offline" => U[i].status = "offline"
       /\ T[i].status = "replied" => U[i].status = "replied"
       /\ U[i].status \in Acked => T[i].status \in Acked \/ i \in R

LEMMA RowsAre ==
  ASSUME NEW n \in Nat, NEW U \in [1..n -> Messages]
  PROVE  U \in Rows
BY DEF Rows

LEMMA Restated ==
  ASSUME NEW s \in Statuses, NEW m \in Messages
  PROVE  /\ [m EXCEPT !.status = s] \in Messages
         /\ [m EXCEPT !.status = s].status = s
         /\ [m EXCEPT !.status = s].req = m.req
         /\ [m EXCEPT !.status = s].from = m.from
         /\ [m EXCEPT !.status = s].to = m.to
         /\ [m EXCEPT !.status = s].reply = m.reply
BY DEF Messages

\* A row may keep its status or change it, as the two final statuses allow.
May(m, u, acked) ==
  \/ u = m
  \/ \E s \in Statuses :
       /\ u = [m EXCEPT !.status = s]
       /\ m.status = "offline" => s = "offline"
       /\ m.status = "replied" => s = "replied"
       /\ s \in Acked => m.status \in Acked \/ acked

LEMMA MovedIf ==
  ASSUME NEW T \in Rows, NEW U, NEW R,
         U = [i \in DOMAIN T |-> U[i]],
         \A i \in DOMAIN T : May(T[i], U[i], i \in R)
  PROVE  Moved(T, U, R)
<1>1. PICK n \in Nat : T \in [1..n -> Messages]
  BY DEF Rows
<1>2. \A i \in DOMAIN T : U[i] \in Messages
  BY <1>1, Restated DEF May
<1>3. U \in Rows /\ DOMAIN U = DOMAIN T
  BY <1>1, <1>2, RowsAre
<1>4. ASSUME NEW i \in DOMAIN T
      PROVE  /\ U[i].req = T[i].req /\ U[i].from = T[i].from /\ U[i].to = T[i].to
             /\ U[i].reply = T[i].reply
             /\ T[i].status = "offline" => U[i].status = "offline"
             /\ T[i].status = "replied" => U[i].status = "replied"
             /\ U[i].status \in Acked => T[i].status \in Acked \/ i \in R
  <2>1. T[i] \in Messages
    BY <1>1
  <2>2. CASE U[i] = T[i]
    BY <2>2
  <2>3. CASE U[i] # T[i]
    <3>1. PICK s \in Statuses :
            /\ U[i] = [T[i] EXCEPT !.status = s]
            /\ T[i].status = "offline" => s = "offline"
            /\ T[i].status = "replied" => s = "replied"
            /\ s \in Acked => T[i].status \in Acked \/ i \in R
      BY <2>3 DEF May
    <3>2. /\ U[i].status = s /\ U[i].req = T[i].req /\ U[i].from = T[i].from
          /\ U[i].to = T[i].to /\ U[i].reply = T[i].reply
      BY <2>1, <3>1 DEF Messages
    <3> QED
      BY <3>1, <3>2
  <2> QED
    BY <2>2, <2>3
<1> QED
  BY <1>3, <1>4 DEF Moved

LEMMA InvalidatedMoves ==
  ASSUME NEW T \in Rows, NEW b, NEW status \in Dead, NEW R
  PROVE  Moved(T, Invalidated(T, b, status), R)
<1> DEFINE U == Invalidated(T, b, status)
<1>1. \A i \in DOMAIN T : May(T[i], U[i], i \in R)
  BY DEF May, Invalidated, Open, Dead, Statuses, Acked
<1> QED
  BY <1>1, MovedIf DEF Invalidated

LEMMA Still ==
  ASSUME NEW T \in Rows, NEW R
  PROVE  Moved(T, T, R)
BY DEF Moved

LEMMA MovedTwice ==
  ASSUME NEW T \in Rows, NEW U, NEW V, NEW R, Moved(T, U, R), Moved(U, V, R)
  PROVE  Moved(T, V, R)
BY DEF Moved

LEMMA WokenMoves ==
  ASSUME msgs \in Rows, NEW a, NEW R
  PROVE  Moved(msgs, Woken(a), R)
BY Still, InvalidatedMoves DEF Woken, Dead

LEMMA ExpireMoves ==
  ASSUME msgs \in Rows, NEW old, NEW R, Expire(old)
  PROVE  Moved(msgs, msgs', R)
<1>1. \A i \in DOMAIN msgs : May(msgs[i], msgs'[i], i \in R)
  BY DEF May, Expire, GivenUp, Open, Dead, Statuses, Acked
<1> QED
  BY <1>1, MovedIf DEF Expire

LEMMA MarkedMoves ==
  ASSUME msgs \in Rows, NEW id, NEW R,
         id # 0 => msgs[id].status \in {"received", "recorded"}
  PROVE  Moved(msgs, Marked(id), R)
<1> DEFINE U == Marked(id)
<1>1. \A i \in DOMAIN msgs : May(msgs[i], U[i], i \in R)
  BY DEF May, Marked, Statuses, Acked, Rows
<1>2. U = [i \in DOMAIN msgs |-> U[i]]
  BY DEF Marked, Rows
<1> QED
  BY <1>1, <1>2, MovedIf

LEMMA HandleMoves ==
  ASSUME msgs \in Rows, NEW q \in Receipts, Handle(q)
  PROVE  Moved(msgs, msgs', receipted')
<1>1. CASE Accepts(q)
  <2>1. \A i \in DOMAIN msgs : May(msgs[i], msgs'[i], i \in receipted')
    BY <1>1 DEF May, Handle, Accepts, Receipts, Statuses, Open, Acked, Rows
  <2>2. msgs' = [i \in DOMAIN msgs |-> msgs'[i]]
    BY <1>1 DEF Handle, Rows
  <2> QED
    BY <2>1, <2>2, MovedIf
<1>2. CASE ~Accepts(q)
  BY <1>2, Still DEF Handle
<1> QED
  BY <1>1, <1>2

-----------------------------------------------------------------------------
(* What the rows say of each other.                                        *)

LEMMA MovedOK ==
  ASSUME NEW T, NEW M, NEW R, RowsOK(T, M, R), NEW U, NEW S, Moved(T, U, S),
         R \subseteq S, S \subseteq DOMAIN T
  PROVE  RowsOK(U, M, S)
<1>1. U \in Rows /\ S \subseteq DOMAIN U /\ DOMAIN U = DOMAIN T
  BY DEF Moved
<1>2. Remembered(U, M)
  BY DEF Moved, RowsOK, Remembered
<1>3. AnswersMarked(U)
  BY DEF Moved, RowsOK, AnswersMarked
<1>4. AnsweredOnce(U)
  <2> SUFFICES ASSUME NEW i \in DOMAIN U, NEW j \in DOMAIN U,
                      i # j, U[i].reply = U[j].reply, U[i].reply # 0
               PROVE  U[i].status = "offline" \/ U[j].status = "offline"
    BY DEF AnsweredOnce
  <2>1. T[i].status = "offline" \/ T[j].status = "offline"
    BY <1>1 DEF Moved, RowsOK, AnsweredOnce
  <2> QED
    BY <1>1, <2>1 DEF Moved
<1>5. Acknowledged(U, S)
  BY DEF Moved, RowsOK, Acknowledged
<1> QED
  BY <1>1, <1>2, <1>3, <1>4, <1>5 DEF RowsOK

\* A new row: a reply that is not offline is the first such, and marked.
LEMMA AppendOK ==
  ASSUME NEW T, NEW M, NEW R, RowsOK(T, M, R), NEW m \in Messages, NEW N,
         m.status \notin Acked,
         m.req \in Request => N[m.req] = Len(T) + 1,
         \A i \in DOMAIN T : T[i].req \in Request => N[T[i].req] = M[T[i].req],
         m.reply # 0 => m.reply \in DOMAIN T,
         m.reply # 0 /\ m.status # "offline" =>
           /\ T[m.reply].status = "replied"
           /\ \A i \in DOMAIN T : T[i].reply = m.reply => T[i].status = "offline"
  PROVE  RowsOK(Append(T, m), N, R)
<1> DEFINE U == Append(T, m)
<1>1. PICK n \in Nat : T \in [1..n -> Messages] /\ n = Len(T)
  BY DEF RowsOK, Rows
<1>2. /\ U \in Rows /\ DOMAIN U = 1..(n + 1) /\ DOMAIN T = 1..n
      /\ U[n + 1] = m /\ \A i \in 1..n : U[i] = T[i]
  BY <1>1 DEF RowsOK, Rows
<1> HIDE DEF U
<1>3. Remembered(U, N)
  BY <1>1, <1>2 DEF RowsOK, Remembered
<1>4. AnswersMarked(U)
  BY <1>1, <1>2 DEF RowsOK, AnswersMarked
<1>5. AnsweredOnce(U)
  <2> SUFFICES ASSUME NEW i \in 1..(n + 1), NEW j \in 1..(n + 1),
                      i # j, U[i].reply = U[j].reply, U[i].reply # 0
               PROVE  U[i].status = "offline" \/ U[j].status = "offline"
    BY <1>2 DEF AnsweredOnce
  <2>1. CASE i \in 1..n /\ j \in 1..n
    BY <1>2, <2>1 DEF RowsOK, AnsweredOnce
  <2>2. CASE i = n + 1 /\ j \in 1..n
    BY <1>2, <2>2
  <2>3. CASE j = n + 1 /\ i \in 1..n
    BY <1>2, <2>3
  <2> QED
    BY <1>1, <2>1, <2>2, <2>3
<1>6. Acknowledged(U, R)
  BY <1>1, <1>2 DEF RowsOK, Acknowledged
<1>7. R \subseteq DOMAIN U
  BY <1>1, <1>2 DEF RowsOK
<1> QED
  BY <1>2, <1>3, <1>4, <1>5, <1>6, <1>7 DEF RowsOK, U

-----------------------------------------------------------------------------
(* What the actions do to the rows.                                        *)

\* What the adapters rely on.
Grown ==
  /\ DOMAIN msgs \subseteq DOMAIN msgs'
  /\ \A i \in DOMAIN msgs : msgs'[i].to = msgs[i].to
  /\ receipted \subseteq receipted'

RowsStep == RowsOK(msgs', memo', receipted') /\ Grown

LEMMA BindingIs ==
  ASSUME TypeOK, NEW a \in Agent
  PROVE  /\ Binding(a) \in Bindings /\ Binding(a).agent = a
         /\ Binding(a).session = inst[a].session
BY DEF TypeOK, Binding, Bindings

LEMMA MovedStep ==
  ASSUME RowsOK(msgs, memo, receipted), Moved(msgs, msgs', receipted'),
         receipted \subseteq receipted', receipted' \subseteq DOMAIN msgs, memo' = memo
  PROVE  RowsStep
<1>1. RowsOK(msgs', memo', receipted')
  BY MovedOK
<1>2. Grown
  BY DEF Grown, Moved
<1> QED
  BY <1>1, <1>2 DEF RowsStep

LEMMA SendStep ==
  ASSUME IInv, NEW r \in Request, Send(r)
  PROVE  RowsStep
<1> USE MessagesAssumption
<1>1. PICK id \in 0..Len(msgs) :
        /\ IF answers[r] = None THEN id = 0 ELSE id # 0 /\ Replies(r, id)
        /\ msgs' = Append(IF inst[to[r]].online THEN Marked(id) ELSE msgs,
                          [req |-> r, from |-> Binding(from[r]), to |-> Binding(to[r]),
                           reply |-> id,
                           status |-> IF inst[to[r]].online THEN "stored" ELSE "offline"])
  BY DEF Send, Stores
<1> DEFINE X == IF inst[to[r]].online THEN Marked(id) ELSE msgs
           m == [req |-> r, from |-> Binding(from[r]), to |-> Binding(to[r]), reply |-> id,
                 status |-> IF inst[to[r]].online THEN "stored" ELSE "offline"]
<1>2. RowsOK(msgs, memo, receipted) /\ msgs \in Rows
  BY DEF IInv, RowsOK
<1>3. Moved(msgs, X, receipted)
  BY <1>1, <1>2, Still, MarkedMoves DEF Replies
<1>4. RowsOK(X, memo, receipted)
  BY <1>2, <1>3, MovedOK DEF RowsOK
<1>5. PICK n \in Nat : msgs \in [1..n -> Messages] /\ n = Len(msgs)
  BY <1>2 DEF Rows
<1>6. X \in Rows /\ DOMAIN X = 1..n /\ Len(X) = n
  BY <1>3, <1>5 DEF Moved, Rows
<1>7. m \in Messages
  <2>1. from[r] \in Agent /\ to[r] \in Agent
    OBVIOUS
  <2>2. Binding(from[r]) \in Bindings /\ Binding(to[r]) \in Bindings
    BY <2>1, BindingIs DEF IInv
  <2> QED
    BY <1>1, <1>5, <2>2 DEF Messages, Statuses, Open, Dead
<1>8. id # 0 => id \in DOMAIN msgs /\ msgs[id].status \in {"received", "recorded"}
  BY <1>1, <1>5 DEF Replies
<1>9. \A i \in DOMAIN X : X[i].reply = id /\ id # 0 => X[i].status = "offline"
  BY <1>2, <1>3, <1>8 DEF RowsOK, AnswersMarked, Moved
<1>10. inst[to[r]].online /\ id # 0 => X[id].status = "replied"
  BY <1>2, <1>5, <1>8 DEF Marked
<1>11. \A i \in DOMAIN X : X[i].req # r
  BY <1>4, <1>6 DEF Send, RowsOK, Remembered
<1>12. memo' = [memo EXCEPT ![r] = n + 1] /\ msgs' = Append(X, m)
  <2>1. msgs' = Append(X, m)
    BY <1>1
  <2>2. Len(msgs') = n + 1
    BY <1>6, <1>7, <2>1 DEF Rows
  <2> QED
    BY <2>1, <2>2 DEF Send
<1>13. memo \in [Request -> Nat]
  BY DEF IInv, TypeOK
<1>14. m.req = r /\ m.reply = id /\ m.status \notin Acked
       /\ (m.status # "offline" => inst[to[r]].online)
  BY DEF Acked
<1> HIDE DEF X, m
<1>15. RowsOK(Append(X, m), memo', receipted)
  <2>1. m.req \in Request => memo'[m.req] = Len(X) + 1
    BY <1>6, <1>12, <1>13, <1>14
  <2>2. \A i \in DOMAIN X : X[i].req \in Request => memo'[X[i].req] = memo[X[i].req]
    BY <1>11, <1>12, <1>13
  <2>3. m.reply # 0 => m.reply \in DOMAIN X
    BY <1>5, <1>6, <1>8, <1>14
  <2>4. m.reply # 0 /\ m.status # "offline" =>
          /\ X[m.reply].status = "replied"
          /\ \A i \in DOMAIN X : X[i].reply = m.reply => X[i].status = "offline"
    BY <1>9, <1>10, <1>14
  <2> QED
    BY <1>4, <1>7, <1>14, <2>1, <2>2, <2>3, <2>4, AppendOK
<1>16. Grown
  <2>1. DOMAIN msgs' = 1..(n + 1) /\ \A i \in 1..n : msgs'[i] = X[i]
    BY <1>6, <1>7, <1>12 DEF Rows
  <2> QED
    BY <1>3, <1>5, <2>1 DEF Grown, Moved, Send, Stores
<1> QED
  BY <1>12, <1>15, <1>16 DEF RowsStep, Send, Stores

LEMMA PublishStep ==
  ASSUME IInv, NEW k \in Ask, PublishAskReply(k)
  PROVE  RowsStep
<1> USE MessagesAssumption
<1> DEFINE m == [req |-> k, from |-> ask[k].to, to |-> ask[k].from, reply |-> 0,
                 status |-> "stored"]
<1>1. PICK n \in Nat : msgs \in [1..n -> Messages] /\ n = Len(msgs)
  BY DEF IInv, RowsOK, Rows
<1>2. m \in Messages
  BY DEF IInv, Asked, PublishAskReply, Messages, Statuses, Open
<1>3. m.req \notin Request /\ m.reply = 0 /\ m.status \notin Acked
  BY DEF Acked
<1>4. msgs' = Append(msgs, m) /\ memo' = memo /\ receipted' = receipted
  BY DEF PublishAskReply
<1> HIDE DEF m
<1>5. RowsOK(msgs, memo, receipted)
  BY DEF IInv
<1>6. RowsOK(Append(msgs, m), memo, receipted)
  BY <1>2, <1>3, <1>5, AppendOK
<1>7. Grown
  BY <1>1, <1>2, <1>4 DEF Grown, Rows
<1> QED
  BY <1>4, <1>6, <1>7 DEF RowsStep

LEMMA HandleStep ==
  ASSUME IInv, NEW q \in Receipts, q.id \in DOMAIN msgs, Handle(q), memo' = memo
  PROVE  RowsStep
<1>1. RowsOK(msgs, memo, receipted)
  BY DEF IInv
<1>2. Moved(msgs, msgs', receipted')
  BY <1>1, HandleMoves DEF RowsOK
<1>3. receipted \subseteq receipted' /\ receipted' \subseteq DOMAIN msgs
  BY <1>1 DEF Handle, RowsOK
<1> QED
  BY <1>1, <1>2, <1>3, MovedStep

LEMMA InFlightIs ==
  ASSUME IInv, NEW a \in Agent, NEW q \in InFlight(a)
  PROVE  /\ q \in Receipts /\ q.id \in DOMAIN msgs
         /\ \E s \in Newest(inbox[a].list) : q.id = s.id
<1>1. PICK s \in Newest(inbox[a].list) :
        q = [id |-> s.id, by |-> mine[a],
             status |-> IF inbox[a].at = "receiving" THEN "received" ELSE "recorded"]
  BY DEF InFlight
<1>2. s \in inbox[a].list /\ s \in Seen
  BY <1>1 DEF Newest, IInv, TypeOK
<1>3. s.id \in DOMAIN msgs
  BY <1>2 DEF IInv, Delivery, Before
<1>4. mine[a] \in Bindings
  BY DEF IInv, TypeOK
<1> QED
  BY <1>1, <1>2, <1>3, <1>4 DEF Receipts, Seen

LEMMA ServedStep ==
  ASSUME IInv, NEW a \in Agent, Served(a), memo' = memo
  PROVE  RowsStep /\ \E s \in Newest(inbox[a].list) : s.id \in receipted'
BY InFlightIs, HandleStep DEF Served, Handle

\* Every step leaves the rows in order, and what the adapters know of them true.
LEMMA EveryRowsStep ==
  ASSUME IInv, [Next]_vars
  PROVE  RowsStep
<1> DEFINE Quiet == UNCHANGED <<msgs, memo, receipted>>
           Shift == Moved(msgs, msgs', receipted) /\ UNCHANGED <<memo, receipted>>
<1>1. RowsOK(msgs, memo, receipted) /\ msgs \in Rows
  BY DEF IInv, RowsOK
<1>2. Quiet => RowsStep
  BY <1>1 DEF RowsStep, Grown
<1>3. Shift => RowsStep
  BY <1>1, MovedStep DEF RowsOK
<1>4. CASE UNCHANGED vars
  BY <1>2, <1>4 DEF vars
<1>5. ASSUME NEW r \in Request, Send(r) PROVE RowsStep
  BY <1>5, SendStep
<1>6. ASSUME NEW k \in Ask, AskTask(k) \/ PublishAskReply(k) PROVE RowsStep
  BY <1>2, <1>6, PublishStep DEF AskTask
<1>7. ASSUME NEW a \in Agent, Reload(a) \/ Refresh(a) \/ Heartbeat(a) PROVE RowsStep
  BY <1>1, <1>3, <1>7, WokenMoves DEF Reload, Refresh, Heartbeat, sender, adapter
<1>8. ASSUME NEW a \in Agent, NEW x \in 1..Sessions, ChangeSession(a, x) PROVE RowsStep
  <2>1. Moved(msgs, Woken(a), receipted)
    BY <1>1, WokenMoves
  <2>2. Moved(Woken(a), msgs', receipted)
    BY <1>8, <2>1, InvalidatedMoves DEF ChangeSession, Moved, Dead
  <2>3. Moved(msgs, msgs', receipted)
    BY <1>1, <2>1, <2>2, MovedTwice
  <2> QED
    BY <1>3, <1>8, <2>3 DEF ChangeSession, sender
<1>9. ASSUME NEW a \in Agent, Rebind(a) \/ FallSilent(a) \/ PollReads(a) \/ PollUses(a)
                              \/ ReceiptFails(a)
      PROVE  RowsStep
  BY <1>2, <1>9 DEF Rebind, FallSilent, PollReads, PollUses, ReceiptFails, sender, adapter
<1>10. ASSUME NEW a \in Agent, ReceivedServed(a) \/ RecordedServed(a) PROVE RowsStep
  BY <1>10, ServedStep DEF ReceivedServed, RecordedServed, sender
<1>11. CASE Tick
  BY <1>1, <1>3, <1>11, ExpireMoves DEF Tick, Expire, sender
<1>12. CASE ServeLate
  <2>1. PICK q \in late : Handle(q) /\ memo' = memo
    BY <1>12 DEF ServeLate, sender
  <2>2. q \in Receipts /\ q.id \in DOMAIN msgs
    BY DEF IInv, TypeOK, Delivery
  <2> QED
    BY <2>1, <2>2, HandleStep
<1> QED
  BY <1>4, <1>5, <1>6, <1>7, <1>8, <1>9, <1>10, <1>11, <1>12 DEF Next, Poll

-----------------------------------------------------------------------------
(* The types.                                                              *)

Identities == [session : 1..Sessions, epoch : 0..MaxMishaps, online : BOOLEAN]
Questions == [state : {"none", "asked", "answered"}, from : Bindings \cup {None},
              to : Bindings \cup {None}]
Loops == [at : {"idle", "read", "receiving", "recording"}, list : SUBSET Seen]
Entries == [1..Sessions -> Seq(Nat)]

\* What RowsOK does not say of the types.
Others ==
  /\ inst \in [Agent -> Identities]
  /\ memo \in [Request -> Nat]
  /\ ask \in [Ask -> Questions]
  /\ mine \in [Agent -> Bindings]
  /\ inbox \in [Agent -> Loops]
  /\ known \in [Agent -> SUBSET Nat]
  /\ entries \in [Agent -> Entries]
  /\ late \in SUBSET Receipts
  /\ mishaps \in 0..MaxMishaps

Typed == Others /\ Bounded /\ Asked /\ Itself

LEMMA TypeOKIs ==
  ASSUME RowsOK(msgs, memo, receipted)
  PROVE  Others <=> TypeOK
BY DEF RowsOK, Rows, Others, TypeOK, Identities, Questions, Loops, Entries

LEMMA ReadTypes ==
  ASSUME IInv, NEW a \in Agent, NEW s, s \in Newest(inbox[a].list)
  PROVE  s \in Seen /\ s \in inbox[a].list /\ s.id \in Nat
BY DEF IInv, TypeOK, Newest, Seen

LEMMA InFlightTypes ==
  ASSUME IInv, NEW a \in Agent
  PROVE  InFlight(a) \subseteq Receipts
BY InFlightIs

LEMMA LoopTypes ==
  ASSUME NEW list \in SUBSET Seen, NEW p \in {"idle", "read", "receiving", "recording"}
  PROVE  [at |-> p, list |-> list] \in Loops
BY DEF Loops

LEMMA HeardTypes ==
  ASSUME Typed, NEW a \in Agent, NEW o \in BOOLEAN, inst' = [inst EXCEPT ![a].online = o]
  PROVE  inst' \in [Agent -> Identities] /\ \A b \in Agent : inst'[b].epoch = inst[b].epoch
<1>1. inst[a] \in Identities /\ inst \in [Agent -> Identities]
  BY DEF Typed, Others
<1>2. /\ [inst[a] EXCEPT !.online = o] \in Identities
      /\ [inst[a] EXCEPT !.online = o].epoch = inst[a].epoch
  BY <1>1 DEF Identities
<1> QED
  BY <1>1, <1>2

\* A binding is one mishap newer at most.
LEMMA EpochTypes ==
  ASSUME Typed, NEW a \in Agent, Mishap(a)
  PROVE  /\ inst[a].epoch + 1 \in 0..MaxMishaps /\ inst[a].epoch + 1 =< mishaps'
         /\ mishaps' \in 0..MaxMishaps
         /\ \A b \in Agent : inst[b].epoch =< mishaps'
         /\ \A x \in 1..Sessions, o \in BOOLEAN :
              [session |-> x, epoch |-> inst[a].epoch + 1, online |-> o] \in Identities
<1>1. inst[a] \in Identities /\ mishaps \in 0..MaxMishaps
  BY DEF Typed, Others
<1>2. \A b \in Agent : inst[b].epoch \in Nat /\ inst[b].epoch =< mishaps
  BY DEF Typed, Others, Identities, Bounded
<1>3. mishaps' = mishaps + 1 /\ mishaps' \in 0..MaxMishaps
  BY <1>1, MessagesAssumption DEF Mishap
<1>4. inst[a].epoch + 1 \in 0..MaxMishaps /\ inst[a].epoch + 1 =< mishaps'
  <2>1. inst[a].epoch \in Nat /\ inst[a].epoch =< mishaps /\ mishaps \in Nat
    BY <1>1, <1>2
  <2> QED
    BY <1>3, <2>1, MessagesAssumption
<1>5. ASSUME NEW b \in Agent PROVE inst[b].epoch =< mishaps'
  <2>1. inst[b].epoch \in Nat /\ inst[b].epoch =< mishaps /\ mishaps \in Nat
    BY <1>1, <1>2
  <2> QED
    BY <1>3, <2>1
<1> QED
  BY <1>3, <1>4, <1>5 DEF Identities

LEMMA ProceedTypes ==
  ASSUME IInv, NEW a \in Agent, NEW list \in SUBSET Seen, Proceed(a, list)
  PROVE  /\ inbox' \in [Agent -> Loops]
         /\ known' \in [Agent -> SUBSET Nat]
         /\ entries' \in [Agent -> Entries]
<1>1. Others
  BY TypeOKIs DEF IInv
<1>2. inbox' \in [Agent -> Loops]
  <2>1. PICK l \in Loops : inbox' = [inbox EXCEPT ![a] = l]
    BY LoopTypes DEF Proceed, Resting
  <2> QED
    BY <1>1, <2>1 DEF Others
<1>3. CASE UNCHANGED <<known, entries>>
  BY <1>1, <1>2, <1>3 DEF Others
<1>4. ASSUME NEW s \in Newest(list), Show(a, s.id)
      PROVE  /\ known' \in [Agent -> SUBSET Nat]
             /\ entries' \in [Agent -> Entries]
  <2>1. s.id \in Nat
    BY DEF Newest, Seen
  <2>2. mine[a].session \in 1..Sessions
    BY <1>1 DEF Others, Bindings
  <2>3. entries[a] \in [1..Sessions -> Seq(Nat)]
    BY <1>1 DEF Others, Entries
  <2>4. Append(entries[a][mine[a].session], s.id) \in Seq(Nat)
    <3>1. entries[a][mine[a].session] \in Seq(Nat)
      BY <2>2, <2>3
    <3> QED
      BY <2>1, <3>1
  <2>5. [entries[a] EXCEPT ![mine[a].session] = Append(@, s.id)] \in Entries
    BY <2>3, <2>4 DEF Entries
  <2>6. entries' \in [Agent -> Entries]
    BY <1>1, <1>4, <2>5 DEF Others, Show
  <2>7. known' \in [Agent -> SUBSET Nat]
    BY <1>1, <1>4, <2>1 DEF Others, Show
  <2> QED
    BY <2>6, <2>7
<1> QED
  BY <1>2, <1>3, <1>4 DEF Proceed

LEMMA TypesStep ==
  ASSUME IInv, [Next]_vars
  PROVE  Typed'
<1> USE MessagesAssumption
<1>1. Typed
  BY TypeOKIs DEF IInv, Typed
<1>2. CASE UNCHANGED vars
  BY <1>1, <1>2 DEF vars, Typed, Others, Bounded, Asked, Itself
<1>3. ASSUME NEW r \in Request, Send(r) PROVE Typed'
  <2>1. Len(msgs') \in Nat
    BY <1>3, SendStep DEF RowsStep, RowsOK, Rows
  <2> QED
    BY <1>1, <1>3, <2>1 DEF Send, Stores, adapter, Typed, Others, Bounded, Asked, Itself
<1>4. ASSUME NEW k \in Ask, AskTask(k) PROVE Typed'
  <2>1. Binding(from[k]) \in Bindings /\ Binding(to[k]) \in Bindings
    BY BindingIs DEF IInv
  <2>2. [state |-> "asked", from |-> Binding(from[k]), to |-> Binding(to[k])] \in Questions
    BY <2>1 DEF Questions
  <2>3. ask' \in [Ask -> Questions] /\ Asked'
    BY <1>1, <1>4, <2>1, <2>2 DEF AskTask, Typed, Others, Asked
  <2> QED
    BY <1>1, <1>4, <2>3 DEF AskTask, adapter, Typed, Others, Bounded, Itself
<1>5. ASSUME NEW k \in Ask, PublishAskReply(k) PROVE Typed'
  <2>1. ask[k] \in Questions /\ ask[k].state # "none"
    BY <1>1, <1>5 DEF Typed, Others, PublishAskReply
  <2>2. /\ [ask[k] EXCEPT !.state = "answered"] \in Questions
        /\ [ask[k] EXCEPT !.state = "answered"].from = ask[k].from
        /\ [ask[k] EXCEPT !.state = "answered"].to = ask[k].to
    BY <2>1 DEF Questions
  <2>3. ask' = [ask EXCEPT ![k] = [ask[k] EXCEPT !.state = "answered"]]
    BY <1>5 DEF PublishAskReply
  <2>4. ask' \in [Ask -> Questions] /\ Asked'
    BY <1>1, <2>1, <2>2, <2>3 DEF Typed, Others, Asked
  <2> QED
    BY <1>1, <1>5, <2>4 DEF PublishAskReply, adapter, Typed, Others, Bounded, Itself
<1>6. ASSUME NEW a \in Agent, Restarted(a), Mishap(a) PROVE
        /\ inbox' \in [Agent -> Loops] /\ known' \in [Agent -> SUBSET Nat]
        /\ late' \in SUBSET Receipts /\ mishaps' \in 0..MaxMishaps
        /\ \A b \in Agent : inst[b].epoch =< mishaps'
  <2>1. InFlight(a) \subseteq Receipts
    BY InFlightTypes
  <2>2. Resting \in Loops
    BY LoopTypes DEF Resting
  <2>3. mishaps' \in 0..MaxMishaps /\ \A b \in Agent : inst[b].epoch =< mishaps'
    BY <1>1, <1>6, EpochTypes
  <2> QED
    BY <1>1, <1>6, <2>1, <2>2, <2>3 DEF Restarted, Typed, Others
<1>7. ASSUME NEW a \in Agent, Reload(a) PROVE Typed'
  <2>1. Binding(a) \in Bindings /\ Binding(a).agent = a
    BY BindingIs DEF IInv
  <2>2. inst' \in [Agent -> Identities] /\ \A b \in Agent : inst'[b].epoch = inst[b].epoch
    BY <1>1, <1>7, HeardTypes DEF Reload
  <2>3. mine' \in [Agent -> Bindings] /\ Itself'
    BY <1>1, <1>7, <2>1 DEF Reload, Typed, Others, Itself
  <2> QED
    BY <1>1, <1>6, <1>7, <2>2, <2>3 DEF Reload, sender, Typed, Others, Bounded, Asked
<1>8. ASSUME NEW a \in Agent, NEW x \in 1..Sessions, ChangeSession(a, x) PROVE Typed'
  <2>1. /\ inst[a].epoch + 1 \in 0..MaxMishaps /\ inst[a].epoch + 1 =< mishaps'
        /\ [session |-> x, epoch |-> inst[a].epoch + 1, online |-> TRUE] \in Identities
    BY <1>1, <1>8, EpochTypes DEF ChangeSession
  <2>2. /\ [agent |-> a, session |-> x, epoch |-> inst[a].epoch + 1] \in Bindings
        /\ [agent |-> a, session |-> x, epoch |-> inst[a].epoch + 1].agent = a
    BY <2>1 DEF Bindings
  <2>3. mine' \in [Agent -> Bindings] /\ Itself'
    BY <1>1, <1>8, <2>2 DEF ChangeSession, Typed, Others, Itself
  <2>4. inst' = [inst EXCEPT ![a] = [session |-> x, epoch |-> inst[a].epoch + 1,
                                     online |-> TRUE]]
    BY <1>8 DEF ChangeSession
  <2>5. /\ inst' \in [Agent -> Identities]
        /\ \A b \in Agent : inst'[b].epoch = IF b = a THEN inst[a].epoch + 1
                                             ELSE inst[b].epoch
    BY <1>1, <2>1, <2>4 DEF Typed, Others
  <2>6. Bounded'
    BY <1>6, <1>8, <2>1, <2>5 DEF Bounded, ChangeSession
  <2> QED
    BY <1>1, <1>6, <1>8, <2>3, <2>5, <2>6 DEF ChangeSession, sender, Typed, Others, Asked
<1>9. ASSUME NEW a \in Agent, Rebind(a) PROVE Typed'
  <2>1. inst[a] \in Identities
    BY <1>1 DEF Typed, Others
  <2>2. [inst[a] EXCEPT !.epoch = @ + 1] =
          [session |-> inst[a].session, epoch |-> inst[a].epoch + 1,
           online |-> inst[a].online]
    BY <2>1 DEF Identities
  <2>3. /\ inst[a].epoch + 1 =< mishaps' /\ mishaps' \in 0..MaxMishaps
        /\ [inst[a] EXCEPT !.epoch = @ + 1] \in Identities
        /\ \A b \in Agent : inst[b].epoch =< mishaps'
    BY <1>1, <1>9, <2>1, <2>2, EpochTypes DEF Rebind, Identities
  <2>4. inst' = [inst EXCEPT ![a] = [inst[a] EXCEPT !.epoch = @ + 1]]
    BY <1>9 DEF Rebind
  <2>5. /\ inst' \in [Agent -> Identities]
        /\ \A b \in Agent : inst'[b].epoch = IF b = a THEN inst[a].epoch + 1
                                             ELSE inst[b].epoch
    BY <1>1, <2>2, <2>3, <2>4 DEF Typed, Others
  <2>6. Bounded'
    BY <2>3, <2>5 DEF Bounded
  <2> QED
    BY <1>1, <1>9, <2>3, <2>5, <2>6
    DEF Rebind, adapter, sender, Typed, Others, Asked, Itself
<1>10. ASSUME NEW a \in Agent, Refresh(a) PROVE Typed'
  <2>1. Binding(a) \in Bindings /\ Binding(a).agent = a
    BY BindingIs DEF IInv
  <2>2. inst' \in [Agent -> Identities] /\ \A b \in Agent : inst'[b].epoch = inst[b].epoch
    BY <1>1, <1>10, HeardTypes DEF Refresh
  <2>3. mine' \in [Agent -> Bindings] /\ Itself'
    BY <1>1, <1>10, <2>1 DEF Refresh, Typed, Others, Itself
  <2> QED
    BY <1>1, <1>10, <2>2, <2>3 DEF Refresh, sender, Typed, Others, Bounded, Asked
<1>11. ASSUME NEW a \in Agent, FallSilent(a) PROVE Typed'
  <2>1. inst' \in [Agent -> Identities] /\ \A b \in Agent : inst'[b].epoch = inst[b].epoch
    BY <1>1, <1>11, HeardTypes DEF FallSilent
  <2>2. mishaps' \in 0..MaxMishaps /\ \A b \in Agent : inst[b].epoch =< mishaps'
    BY <1>1, <1>11, EpochTypes DEF FallSilent
  <2> QED
    BY <1>1, <1>11, <2>1, <2>2
    DEF FallSilent, sender, adapter, Typed, Others, Bounded, Asked, Itself
<1>12. ASSUME NEW a \in Agent, Heartbeat(a) PROVE Typed'
  <2>1. inst' \in [Agent -> Identities] /\ \A b \in Agent : inst'[b].epoch = inst[b].epoch
    BY <1>1, <1>12, HeardTypes DEF Heartbeat
  <2> QED
    BY <1>1, <1>12, <2>1
    DEF Heartbeat, sender, adapter, Typed, Others, Bounded, Asked, Itself
<1>13. ASSUME NEW a \in Agent, PollReads(a) PROVE Typed'
  <2>1. \A i \in DOMAIN msgs : i \in Nat /\ msgs[i].status \in Statuses
    <3>1. PICK n \in Nat : msgs \in [1..n -> Messages]
      BY DEF IInv, RowsOK, Rows
    <3> QED
      BY <3>1 DEF Messages
  <2>2. Inbox(a) \in SUBSET Seen
    BY <2>1 DEF Inbox, Listed, Seen
  <2>3. [at |-> "read", list |-> Inbox(a)] \in Loops
    BY <2>2, LoopTypes
  <2> QED
    BY <1>1, <1>13, <2>3 DEF PollReads, sender, Typed, Others, Bounded, Asked, Itself
<1>14. ASSUME NEW a \in Agent
       PROVE  inbox[a].list \in SUBSET Seen
  BY <1>1 DEF Typed, Others, Loops
<1>15. ASSUME NEW a \in Agent, PollUses(a) PROVE Typed'
  BY <1>1, <1>14, <1>15, ProceedTypes
  DEF PollUses, sender, Typed, Others, Bounded, Asked, Itself
<1>16. ASSUME NEW a \in Agent, ReceivedServed(a) PROVE Typed'
  <2>1. \A s \in Newest(inbox[a].list) : [id |-> s.id, status |-> "received"] \in Seen
    BY ReadTypes DEF Seen, Statuses, Open
  <2>2. (inbox[a].list \ Newest(inbox[a].list)) \cup
          {[id |-> s.id, status |-> "received"] : s \in Newest(inbox[a].list)}
          \in SUBSET Seen
    BY <1>14, <2>1
  <2> QED
    BY <1>1, <1>16, <2>2, ProceedTypes
    DEF ReceivedServed, sender, Typed, Others, Bounded, Asked, Itself
<1>17. ASSUME NEW a \in Agent, RecordedServed(a) PROVE Typed'
  <2>1. inbox[a].list \ Newest(inbox[a].list) \in SUBSET Seen
    BY <1>14
  <2> QED
    BY <1>1, <1>17, <2>1, ProceedTypes
    DEF RecordedServed, sender, Typed, Others, Bounded, Asked, Itself
<1>18. ASSUME NEW a \in Agent, ReceiptFails(a) PROVE Typed'
  <2>1. InFlight(a) \subseteq Receipts
    BY InFlightTypes
  <2>2. Resting \in Loops
    BY LoopTypes DEF Resting
  <2>3. mishaps' \in 0..MaxMishaps /\ \A b \in Agent : inst[b].epoch =< mishaps'
    <3>1. CASE mishaps' = mishaps
      BY <1>1, <3>1 DEF Typed, Others, Bounded
    <3>2. CASE Mishap(a)
      BY <1>1, <3>2, EpochTypes
    <3> QED
      BY <1>18, <3>1, <3>2 DEF ReceiptFails
  <2> QED
    BY <1>1, <1>18, <2>1, <2>2, <2>3
    DEF ReceiptFails, sender, Typed, Others, Bounded, Asked, Itself
<1>19. CASE Tick
  BY <1>1, <1>19 DEF Tick, Expire, sender, adapter, Typed, Others, Bounded, Asked, Itself
<1>20. CASE ServeLate
  BY <1>1, <1>20 DEF ServeLate, sender, Typed, Others, Bounded, Asked, Itself
<1> QED
  BY <1>2, <1>3, <1>4, <1>5, <1>7, <1>8, <1>9, <1>10, <1>11, <1>12, <1>13, <1>15, <1>16,
     <1>17, <1>18, <1>19, <1>20 DEF Next, Poll

-----------------------------------------------------------------------------
(* What the adapters have of the rows.                                     *)

LEMMA ShownKept ==
  ASSUME IInv, Grown, UNCHANGED entries
  PROVE  ShownRightly'
BY DEF IInv, RowsOK, Delivery, ShownRightly, Grown

LEMMA BeforeKept ==
  ASSUME IInv, Grown, NEW b \in Agent, inbox'[b] = inbox[b], mine'[b] = mine[b]
  PROVE  Before(b)'
BY DEF IInv, Delivery, Before, Grown

LEMMA BeforeResting ==
  ASSUME NEW b \in Agent, inbox'[b] = Resting
  PROVE  Before(b)'
BY DEF Before, Resting

LEMMA LateKept ==
  ASSUME IInv, Grown, \A q \in late' : q \in late \/ \E a \in Agent : q \in InFlight(a)
  PROVE  \A q \in late' : q.id \in DOMAIN msgs'
BY InFlightIs DEF IInv, Delivery, Grown

\* The agent a may have list before it after the step.
Readable(a, list) ==
  \A s \in list :
    /\ s.id \in DOMAIN msgs'
    /\ msgs'[s.id].to.agent = a /\ msgs'[s.id].to.session = mine[a].session
    /\ s.status = "received" => s.id \in receipted'

LEMMA BeforeReadable ==
  ASSUME IInv, Grown, NEW a \in Agent
  PROVE  Readable(a, inbox[a].list)
BY DEF IInv, Delivery, Before, Grown, Readable

\* A list that has a receipt for its newest message goes on with that message received.
LEMMA ReceivedReadable ==
  ASSUME IInv, Grown, NEW a \in Agent, Served(a)
  PROVE  LET list == (inbox[a].list \ Newest(inbox[a].list)) \cup
                     {[id |-> s.id, status |-> "received"] : s \in Newest(inbox[a].list)}
         IN  list \in SUBSET Seen /\ Readable(a, list)
<1> DEFINE read == inbox[a].list
           newest == {[id |-> s.id, status |-> "received"] : s \in Newest(read)}
<1>1. Readable(a, read) /\ \A s \in Newest(read) : s \in Seen /\ s \in read
  BY BeforeReadable, ReadTypes
<1>2. newest \in SUBSET Seen
  BY <1>1 DEF Seen, Statuses, Open
<1>3. \A s \in Newest(read) : s.id \in receipted'
  <2>1. PICK q \in InFlight(a) : Accepts(q) /\ Handle(q)
    BY DEF Served
  <2>2. PICK s \in Newest(read) : q.id = s.id
    BY InFlightIs
  <2>3. q.id \in receipted'
    BY <2>1 DEF Handle
  <2>4. \A u \in Newest(read) : u.id = s.id
    BY <1>1, <2>2 DEF Newest, Seen
  <2> QED
    BY <2>2, <2>3, <2>4
<1>4. Readable(a, newest)
  BY <1>1, <1>3 DEF Readable
<1>5. Readable(a, (read \ Newest(read)) \cup newest)
  BY <1>1, <1>4 DEF Readable
<1>6. read \in SUBSET Seen
  BY TypeOKIs DEF IInv, Others, Loops
<1> QED
  BY <1>2, <1>5, <1>6

\* An entry that is appended is the last one.
LEMMA AppendOne ==
  ASSUME NEW s \in Seq(Nat), NEW i \in Nat, NEW n \in Nat, n = Len(s)
  PROVE  /\ DOMAIN Append(s, i) = 1..(n + 1)
         /\ Append(s, i)[n + 1] = i
         /\ \A k \in 1..n : Append(s, i)[k] = s[k]
<1>1. Append(s, i) \in Seq(Nat) /\ Len(Append(s, i)) = n + 1
  OBVIOUS
<1>2. DOMAIN Append(s, i) = 1..(n + 1)
  BY <1>1
<1>3. Append(s, i)[n + 1] = i
  OBVIOUS
<1>4. \A k \in 1..n : Append(s, i)[k] = s[k]
  OBVIOUS
<1> QED
  BY <1>2, <1>3, <1>4

\* An entry is written where it is not yet.
LEMMA ShowOK ==
  ASSUME IInv, Grown, NEW a \in Agent, NEW i \in Nat, i \in receipted',
         msgs'[i].to.agent = a, msgs'[i].to.session = mine[a].session, Show(a, i)
  PROVE  ShownRightly'
<1>1. CASE UNCHANGED entries
  BY <1>1, ShownKept
<1>2. CASE entries' # entries
  <2> DEFINE x0 == mine[a].session
             old == entries[a][x0]
  <2>1. ~Shown(a, x0, i) /\ entries' = [entries EXCEPT ![a][x0] = Append(@, i)]
    BY <1>2 DEF Show
  <2>2. entries \in [Agent -> [1..Sessions -> Seq(Nat)]] /\ x0 \in 1..Sessions
    BY DEF IInv, TypeOK, Bindings
  <2>3. old \in Seq(Nat)
    BY <2>2
  <2>4. PICK n \in Nat : n = Len(old) /\ DOMAIN old = 1..n
    BY <2>3
  <2>5. entries'[a][x0] = Append(old, i)
    BY <2>1, <2>2
  <2>6. /\ DOMAIN entries'[a][x0] = 1..(n + 1) /\ entries'[a][x0][n + 1] = i
        /\ \A k \in 1..n : entries'[a][x0][k] = old[k]
    <3> HIDE DEF x0, old
    <3> QED
      BY <2>3, <2>4, <2>5, AppendOne
  <2>7. \A k \in 1..n : old[k] # i
    BY <2>1, <2>4 DEF Shown
  <2> SUFFICES ASSUME NEW b \in Agent, NEW x \in 1..Sessions,
                      NEW k \in DOMAIN entries'[b][x]
               PROVE  /\ entries'[b][x][k] \in receipted'
                      /\ msgs'[entries'[b][x][k]].to.agent = b
                      /\ msgs'[entries'[b][x][k]].to.session = x
                      /\ \A l \in DOMAIN entries'[b][x] :
                           entries'[b][x][l] = entries'[b][x][k] => l = k
    BY DEF ShownRightly
  <2>8. CASE b = a /\ x = x0
    <3> HIDE DEF x0, old
    <3>1. \A j \in 1..n : /\ old[j] \in receipted' /\ msgs'[old[j]].to.agent = a
                          /\ msgs'[old[j]].to.session = x0
                          /\ \A l \in 1..n : old[l] = old[j] => l = j
      <4>1. \A j \in 1..n : /\ old[j] \in receipted /\ msgs[old[j]].to.agent = a
                            /\ msgs[old[j]].to.session = x0
                            /\ \A l \in 1..n : old[l] = old[j] => l = j
        BY <2>2, <2>4 DEF IInv, Delivery, ShownRightly, old
      <4> QED
        BY <4>1 DEF IInv, RowsOK, Grown
    <3>2. k \in 1..n \/ k = n + 1
      BY <2>4, <2>6, <2>8
    <3>3. CASE k \in 1..n
      <4>1. entries'[b][x][k] = old[k]
        BY <2>6, <2>8, <3>3
      <4>2. ASSUME NEW l \in 1..(n + 1), entries'[a][x0][l] = old[k] PROVE l = k
        BY <2>4, <2>6, <2>7, <3>1, <3>3, <4>2
      <4> QED
        BY <2>6, <2>8, <3>1, <3>3, <4>1, <4>2
    <3>4. CASE k = n + 1
      <4>1. entries'[b][x][k] = i
        BY <2>6, <2>8, <3>4
      <4>2. ASSUME NEW l \in 1..(n + 1), entries'[a][x0][l] = i PROVE l = n + 1
        BY <2>4, <2>6, <2>7, <4>2
      <4> QED
        BY <2>6, <2>8, <3>4, <4>1, <4>2 DEF x0
    <3> QED
      BY <3>2, <3>3, <3>4
  <2>9. CASE ~(b = a /\ x = x0)
    <3>1. entries'[b][x] = entries[b][x]
      BY <2>1, <2>2, <2>9
    <3> QED
      BY <3>1 DEF IInv, RowsOK, Delivery, ShownRightly, Grown
  <2> QED
    BY <2>8, <2>9
<1> QED
  BY <1>1, <1>2

LEMMA ProceedOK ==
  ASSUME IInv, Grown, NEW a \in Agent, NEW list \in SUBSET Seen, Readable(a, list),
         Proceed(a, list), mine' = mine, late' = late
  PROVE  Delivery'
<1>1. inbox \in [Agent -> Loops]
  BY TypeOKIs DEF IInv, Others
<1>2. Before(a)'
  BY <1>1 DEF Proceed, Resting, Before, Readable
<1>3. \A b \in Agent : b # a => inbox'[b] = inbox[b]
  BY <1>1 DEF Proceed
<1>4. \A b \in Agent : Before(b)'
  BY <1>2, <1>3, BeforeKept
<1>5. \A q \in late' : q.id \in DOMAIN msgs'
  BY LateKept
<1>6. ShownRightly'
  <2>1. CASE UNCHANGED entries
    BY <2>1, ShownKept
  <2>2. ASSUME NEW s \in Newest(list), s.status = "received", Show(a, s.id)
        PROVE  ShownRightly'
    <3>1. s \in list /\ s.id \in Nat
      BY DEF Newest, Seen
    <3> QED
      BY <2>2, <3>1, ShowOK DEF Readable
  <2> QED
    BY <2>1, <2>2 DEF Proceed
<1> QED
  BY <1>4, <1>5, <1>6 DEF Delivery

\* A step that reads and shows nothing.
LEMMA QuietOK ==
  ASSUME IInv, Grown, UNCHANGED entries,
         \A b \in Agent : inbox'[b] = Resting \/ (inbox'[b] = inbox[b] /\ mine'[b] = mine[b]),
         \A q \in late' : q \in late \/ \E a \in Agent : q \in InFlight(a)
  PROVE  Delivery'
BY ShownKept, BeforeKept, BeforeResting, LateKept DEF Delivery

LEMMA DeliveryStep ==
  ASSUME IInv, [Next]_vars, Grown
  PROVE  Delivery'
<1>1. /\ mine \in [Agent -> Bindings] /\ inbox \in [Agent -> Loops]
      /\ \A a \in Agent : inbox[a].list \in SUBSET Seen
  BY TypeOKIs DEF IInv, Others, Loops
<1>2. CASE UNCHANGED <<entries, inbox, mine>> /\ late' \subseteq late
  BY <1>2, QuietOK
<1>3. CASE UNCHANGED vars
  BY <1>2, <1>3 DEF vars
<1>4. ASSUME NEW r \in Request, Send(r) PROVE Delivery'
  BY <1>2, <1>4 DEF Send, Stores, adapter
<1>5. ASSUME NEW k \in Ask, AskTask(k) \/ PublishAskReply(k) PROVE Delivery'
  BY <1>2, <1>5 DEF AskTask, PublishAskReply, adapter
<1>6. ASSUME NEW a \in Agent, Restarted(a), UNCHANGED entries,
             \A b \in Agent : b # a => mine'[b] = mine[b]
      PROVE  Delivery'
  <2>1. inbox'[a] = Resting /\ \A b \in Agent : b # a => inbox'[b] = inbox[b]
    BY <1>1, <1>6 DEF Restarted
  <2>2. late' = late \cup InFlight(a)
    BY <1>6 DEF Restarted
  <2> QED
    <3>1. \A q \in late' : q \in late \/ \E b \in Agent : q \in InFlight(b)
      BY <2>2
    <3>2. ASSUME NEW b \in Agent
          PROVE  inbox'[b] = Resting \/ (inbox'[b] = inbox[b] /\ mine'[b] = mine[b])
      <4>1. CASE b = a
        BY <2>1, <4>1
      <4>2. CASE b # a
        BY <1>6, <2>1, <4>2
      <4> QED
        BY <4>1, <4>2
    <3> QED
      BY <1>6, <3>1, <3>2, QuietOK
<1>7. ASSUME NEW a \in Agent, Reload(a) PROVE Delivery'
  BY <1>1, <1>6, <1>7 DEF Reload
<1>8. ASSUME NEW a \in Agent, NEW x \in 1..Sessions, ChangeSession(a, x) PROVE Delivery'
  BY <1>1, <1>6, <1>8 DEF ChangeSession
<1>9. ASSUME NEW a \in Agent, Rebind(a) \/ FallSilent(a) \/ Heartbeat(a) PROVE Delivery'
  BY <1>2, <1>9 DEF Rebind, FallSilent, Heartbeat, adapter
<1>10. ASSUME NEW a \in Agent, Refresh(a) PROVE Delivery'
  <2>1. inbox' = inbox /\ inbox[a].at = "idle" /\ inbox[a].list = {}
    BY <1>10 DEF Refresh, IInv, Delivery, Before
  <2>2. Before(a)'
    BY <2>1 DEF Before
  <2>3. \A b \in Agent : b # a => mine'[b] = mine[b]
    BY <1>1, <1>10 DEF Refresh
  <2>4. \A b \in Agent : Before(b)'
    BY <2>1, <2>2, <2>3, BeforeKept
  <2> QED
    BY <1>10, <2>4, ShownKept, LateKept DEF Refresh, Delivery
<1>11. ASSUME NEW a \in Agent, PollReads(a) PROVE Delivery'
  <2>1. inbox' = [inbox EXCEPT ![a] = [at |-> "read", list |-> Inbox(a)]]
        /\ UNCHANGED <<msgs, receipted, mine, entries, late>>
    BY <1>11 DEF PollReads
  <2>2. Binding(a).agent = a /\ Binding(a).session = mine[a].session
    BY <1>11, BindingIs DEF PollReads, Principal, IInv
  <2>3. ASSUME NEW s \in Inbox(a)
        PROVE  /\ s.id \in DOMAIN msgs
               /\ msgs[s.id].to.agent = a /\ msgs[s.id].to.session = mine[a].session
               /\ s.status = "received" => s.id \in receipted
    <3>1. PICK i \in DOMAIN msgs :
            s = [id |-> i, status |-> msgs[i].status] /\ msgs[i].to = Binding(a)
      BY DEF Inbox, Listed
    <3> QED
      BY <2>2, <3>1 DEF IInv, RowsOK, Acknowledged, Acked
  <2>4. Before(a)'
    BY <1>1, <2>1, <2>3 DEF Before
  <2>5. \A b \in Agent : b # a => inbox'[b] = inbox[b]
    BY <1>1, <2>1
  <2>6. \A b \in Agent : Before(b)'
    BY <2>1, <2>4, <2>5, BeforeKept
  <2> QED
    BY <2>1, <2>6, ShownKept, LateKept DEF Delivery
<1>12. ASSUME NEW a \in Agent, PollUses(a) PROVE Delivery'
  BY <1>1, <1>12, BeforeReadable, ProceedOK DEF PollUses
<1>13. ASSUME NEW a \in Agent, ReceivedServed(a) PROVE Delivery'
  <2> DEFINE list == (inbox[a].list \ Newest(inbox[a].list)) \cup
                     {[id |-> s.id, status |-> "received"] : s \in Newest(inbox[a].list)}
  <2>1. Proceed(a, list) /\ Served(a) /\ UNCHANGED <<mine, late>>
    BY <1>13 DEF ReceivedServed
  <2>2. list \in SUBSET Seen /\ Readable(a, list)
    BY <2>1, ReceivedReadable
  <2> HIDE DEF list
  <2> QED
    BY <2>1, <2>2, ProceedOK
<1>14. ASSUME NEW a \in Agent, RecordedServed(a) PROVE Delivery'
  <2>1. Readable(a, inbox[a].list \ Newest(inbox[a].list))
    BY BeforeReadable DEF Readable
  <2>2. inbox[a].list \ Newest(inbox[a].list) \in SUBSET Seen
    BY <1>1
  <2> QED
    BY <1>14, <2>1, <2>2, ProceedOK DEF RecordedServed
<1>15. ASSUME NEW a \in Agent, ReceiptFails(a) PROVE Delivery'
  <2>1. inbox'[a] = Resting /\ \A b \in Agent : b # a => inbox'[b] = inbox[b]
    BY <1>1, <1>15 DEF ReceiptFails
  <2>2. \A q \in late' : q \in late \/ q \in InFlight(a)
    BY <1>15 DEF ReceiptFails
  <2>3. UNCHANGED <<mine, entries>>
    BY <1>15 DEF ReceiptFails
  <2> QED
    BY <2>1, <2>2, <2>3, QuietOK
<1>16. CASE Tick
  BY <1>2, <1>16 DEF Tick, Expire, adapter
<1>17. CASE ServeLate
  BY <1>2, <1>17 DEF ServeLate
<1> QED
  BY <1>3, <1>4, <1>5, <1>7, <1>8, <1>9, <1>10, <1>11, <1>12, <1>13, <1>14, <1>15, <1>16,
     <1>17 DEF Next, Poll

-----------------------------------------------------------------------------
(* The theorems.                                                           *)

LEMMA InitIInv ==
  ASSUME Init
  PROVE  IInv
<1> USE MessagesAssumption
<1>1. RowsOK(msgs, memo, receipted)
  BY DEF Init, RowsOK, Rows, Remembered, AnswersMarked, AnsweredOnce, Acknowledged
<1>2. \A a \in Agent :
        Binding(a) = [agent |-> a, session |-> 1, epoch |-> 0]
  BY DEF Init, Binding
<1>3. \A a \in Agent : Binding(a) \in Bindings /\ Binding(a).agent = a
  BY <1>2 DEF Bindings
<1>4. inst \in [Agent -> Identities] /\ Bounded
  BY DEF Init, Identities, Bounded
<1>5. ask \in [Ask -> Questions] /\ Asked
  BY DEF Init, Questions, Unasked, Asked
<1>6. mine \in [Agent -> Bindings] /\ Itself
  BY <1>3 DEF Init, Itself
<1>7. inbox \in [Agent -> Loops]
  BY LoopTypes DEF Init, Resting
<1>8. entries \in [Agent -> Entries]
  BY DEF Init, Entries
<1>9. Others
  BY <1>4, <1>5, <1>6, <1>7, <1>8 DEF Init, Others
<1>10. ShownRightly
  BY DEF Init, ShownRightly
<1>11. Delivery
  BY <1>10 DEF Init, Delivery, Before, Resting
<1> QED
  BY <1>1, <1>4, <1>5, <1>6, <1>9, <1>11, TypeOKIs DEF IInv

\* The invariant that the next four theorems follow from.
THEOREM InductiveInvariant == Spec => []IInv
<1>1. Init => IInv
  BY InitIInv
<1>2. IInv /\ [Next]_vars => IInv'
  <2> SUFFICES ASSUME IInv, [Next]_vars PROVE IInv'
    OBVIOUS
  <2>1. RowsOK(msgs, memo, receipted)' /\ Grown
    BY EveryRowsStep DEF RowsStep
  <2>2. Typed'
    BY TypesStep
  <2>3. TypeOK'
    BY <2>1, <2>2 DEF Typed, RowsOK, Rows, Others, TypeOK, Identities, Questions, Loops, Entries
  <2> QED
    BY <2>1, <2>2, <2>3, DeliveryStep DEF IInv, Typed
<1> QED
  BY <1>1, <1>2, PTL DEF Spec

\* The variables keep their types: no receipt of a row that is not there, and no
\* epoch beyond the changes of identity.
THEOREM Typing == Spec => []TypeOK
BY InductiveInvariant, PTL DEF IInv

\* A request that is repeated, in whatever session the repetition arrives, has
\* stored one message (the idempotency table and Send, messages.go).
THEOREM Once == Spec => []StoredOnce
<1>1. IInv => StoredOnce
  BY DEF IInv, RowsOK, Remembered, StoredOnce
<1> QED
  BY <1>1, InductiveInvariant, PTL

\* Of the replies to a message all but one were offline from the start: the one
\* that was not has marked the message in its transaction.
THEOREM Replied == Spec => []OneReply
<1>1. IInv => OneReply
  BY DEF IInv, RowsOK, AnsweredOnce, OneReply
<1> QED
  BY <1>1, InductiveInvariant, PTL

\* A message is shown in the session it was sent to and nowhere else, there once,
\* and after a receipt of it was accepted: reloads, lost receipts and changes of
\* session between the read of the inbox and its use included.
THEOREM ShownOnce == Spec => []ShownRightly
BY InductiveInvariant, PTL DEF IInv, Delivery

-----------------------------------------------------------------------------
(* Mailbox.  What it takes beyond IInv: no receipt was accepted of what is  *)
(* stored, and what an adapter remembers, or says it has recorded, is in    *)
(* the session.                                                             *)

Untaken == \A i \in receipted : msgs[i].status # "stored"

SameSession == \A a \in Agent : mine[a].session = inst[a].session

Remembers(a) == \A i \in known[a] : Shown(a, mine[a].session, i)

Recording(a) ==
  inbox[a].at = "recording" => \A s \in Newest(inbox[a].list) : Shown(a, mine[a].session, s.id)

LateShown == \A q \in late : q.status = "recorded" => Shown(q.by.agent, q.by.session, q.id)

PagesInv ==
  Untaken /\ SameSession /\ (\A a \in Agent : Remembers(a) /\ Recording(a)) /\ LateShown

\* Entries are never removed.
Added == \A a \in Agent, x \in 1..Sessions, i \in Nat : Shown(a, x, i) => Shown(a, x, i)'

LEMMA ShownTypes ==
  ASSUME IInv, NEW a \in Agent
  PROVE  /\ mine[a] \in Bindings /\ mine[a].agent = a /\ mine[a].session \in 1..Sessions
         /\ known[a] \subseteq Nat /\ \A s \in Newest(inbox[a].list) : s.id \in Nat
         /\ inbox[a] \in Loops /\ inst[a] \in Identities
BY ReadTypes, TypeOKIs DEF IInv, Others, Itself, Bindings

\* What a loop shows is in the session afterwards, and nothing else has left it.
LEMMA ShowAdds ==
  ASSUME IInv, NEW a \in Agent, NEW i \in Nat, Remembers(a), Show(a, i), mine' = mine
  PROVE  Added /\ Shown(a, mine[a].session, i)'
<1> DEFINE x0 == mine[a].session
           old == entries[a][x0]
<1>1. entries \in [Agent -> [1..Sessions -> Seq(Nat)]] /\ x0 \in 1..Sessions
  BY DEF IInv, TypeOK, Bindings
<1>2. CASE i \in known[a] \/ Shown(a, x0, i)
  <2>1. Shown(a, x0, i) /\ entries' = entries
    BY <1>2 DEF Show, Remembers
  <2>2. Added
    BY <2>1 DEF Shown, Added
  <2>3. Shown(a, mine[a].session, i)'
    <3>1. \E k \in DOMAIN entries'[a][mine'[a].session] :
            entries'[a][mine'[a].session][k] = i
      BY <2>1 DEF Shown
    <3> QED
      BY <3>1 DEF Shown
  <2> QED
    BY <2>2, <2>3
<1>3. CASE ~(i \in known[a] \/ Shown(a, x0, i))
  <2>1. entries' = [entries EXCEPT ![a][x0] = Append(@, i)]
    BY <1>3 DEF Show
  <2>0. old \in Seq(Nat)
    BY <1>1
  <2>2. PICK n \in Nat : n = Len(old) /\ DOMAIN old = 1..n
    <3> HIDE DEF old
    <3> QED
      BY <2>0
  <2>3. entries'[a][x0] = Append(old, i)
    BY <1>1, <2>1
  <2>4. /\ DOMAIN entries'[a][x0] = 1..(n + 1) /\ entries'[a][x0][n + 1] = i
        /\ \A k \in 1..n : entries'[a][x0][k] = old[k]
    <3> HIDE DEF x0, old
    <3> QED
      BY <2>0, <2>2, <2>3, AppendOne
  <2>5. \A b \in Agent, x \in 1..Sessions :
          b # a \/ x # x0 => entries'[b][x] = entries[b][x]
    BY <1>1, <2>1
  <2>6. Added
    <3> SUFFICES ASSUME NEW b \in Agent, NEW x \in 1..Sessions, NEW j \in Nat, Shown(b, x, j)
                 PROVE  Shown(b, x, j)'
      BY DEF Added
    <3>1. CASE b = a /\ x = x0
      <4>1. PICK k \in 1..n : old[k] = j
        BY <2>2, <3>1 DEF Shown
      <4> HIDE DEF x0, old
      <4>2. k \in 1..(n + 1) /\ entries'[a][x0][k] = j
        BY <2>4, <4>1
      <4> QED
        BY <2>4, <3>1, <4>2 DEF Shown
    <3>2. CASE b # a \/ x # x0
      BY <2>5, <3>2 DEF Shown
    <3> QED
      BY <3>1, <3>2
  <2>7. n + 1 \in DOMAIN entries'[a][x0]
    BY <2>2, <2>4
  <2>8. \E k \in DOMAIN entries'[a][x0] : entries'[a][x0][k] = i
    BY <2>4, <2>7
  <2> QED
    BY <2>6, <2>8 DEF Shown
<1> QED
  BY <1>2, <1>3

\* The status of a row goes one step on, or is given up for good.
Turn(i) ==
  /\ i \in receipted => i \in receipted'
  /\ \/ /\ msgs'[i].status = msgs[i].status
        /\ i \in receipted' => i \in receipted \/ msgs[i].status \in {"received", "recorded"}
     \/ /\ msgs[i].status \in Open /\ msgs'[i].status \in Dead
        /\ i \in receipted' => i \in receipted
     \/ msgs[i].status = "stored" /\ msgs'[i].status = "received"
     \/ /\ msgs[i].status = "received" /\ msgs'[i].status = "recorded"
        /\ Shown(msgs[i].to.agent, msgs[i].to.session, i)

Same(m, u) == u.req = m.req /\ u.from = m.from /\ u.to = m.to /\ u.reply = m.reply

\* No row is added, and none answered.
Turns ==
  /\ DOMAIN msgs' = DOMAIN msgs
  /\ \A i \in DOMAIN msgs : Same(msgs[i], msgs'[i]) /\ Turn(i)

GivesUp(T, U) ==
  /\ DOMAIN U = DOMAIN T
  /\ \A i \in DOMAIN T :
       /\ Same(T[i], U[i])
       /\ U[i].status = T[i].status \/ (T[i].status \in Open /\ U[i].status \in Dead)

LEMMA InvalidatedGivesUp ==
  ASSUME NEW T \in Rows, NEW b, NEW status \in Dead
  PROVE  GivesUp(T, Invalidated(T, b, status))
<1>1. PICK n \in Nat : T \in [1..n -> Messages]
  BY DEF Rows
<1>2. ASSUME NEW i \in DOMAIN T
      PROVE  /\ Same(T[i], [T[i] EXCEPT !.status = status])
             /\ [T[i] EXCEPT !.status = status].status = status
  BY <1>1, Restated DEF Same, Statuses
<1> QED
  BY <1>2 DEF GivesUp, Invalidated, Same

LEMMA WokenGivesUp ==
  ASSUME msgs \in Rows, NEW a
  PROVE  GivesUp(msgs, Woken(a))
BY InvalidatedGivesUp DEF Woken, GivesUp, Same, Dead

LEMMA GivesUpTwice ==
  ASSUME NEW T, NEW U, NEW V, GivesUp(T, U), GivesUp(U, V)
  PROVE  GivesUp(T, V)
BY DEF GivesUp, Same, Open, Dead

LEMMA ExpireGivesUp ==
  ASSUME msgs \in Rows, NEW old, Expire(old)
  PROVE  GivesUp(msgs, msgs')
<1>1. PICK n \in Nat : msgs \in [1..n -> Messages]
  BY DEF Rows
<1>2. ASSUME NEW i \in DOMAIN msgs, msgs[i].status \in Open
      PROVE  GivenUp(msgs[i], i \in old) \in Dead \cup {msgs[i].status}
  BY DEF GivenUp, Dead
<1>3. ASSUME NEW i \in DOMAIN msgs, NEW st \in Statuses
      PROVE  /\ Same(msgs[i], [msgs[i] EXCEPT !.status = st])
             /\ [msgs[i] EXCEPT !.status = st].status = st
  BY <1>1, Restated DEF Same
<1>4. Dead \subseteq Statuses /\ Open \subseteq Statuses
  BY DEF Statuses
<1> QED
  BY <1>2, <1>3, <1>4 DEF GivesUp, Expire, Same

LEMMA GivesUpTurns ==
  ASSUME GivesUp(msgs, msgs'), receipted' = receipted
  PROVE  Turns
BY DEF GivesUp, Turns, Turn

LEMMA HandleTurns ==
  ASSUME IInv, NEW q \in Receipts, q.id \in DOMAIN msgs, Handle(q),
         q.status = "recorded" => Shown(q.by.agent, q.by.session, q.id)
  PROVE  Turns
<1>1. PICK n \in Nat : msgs \in [1..n -> Messages]
  BY DEF IInv, RowsOK, Rows
<1>2. CASE ~Accepts(q)
  BY <1>2 DEF Handle, Turns, Turn, Same
<1>3. CASE Accepts(q)
  <2> DEFINE m == msgs[q.id]
             u == [m EXCEPT !.status = q.status]
  <2>1. msgs' = [msgs EXCEPT ![q.id] = u] /\ receipted' = receipted \cup {q.id}
    BY <1>3 DEF Handle
  <2>2. m \in Messages /\ q.status \in {"received", "recorded"}
    BY <1>1 DEF Receipts
  <2>3. u.status = q.status /\ Same(m, u)
    BY <2>2, Restated DEF Statuses, Open, Same
  <2>4. /\ m.to = q.by
        /\ \/ m.status = "stored" /\ q.status = "received"
           \/ m.status = "received" /\ q.status = "recorded"
           \/ m.status = q.status
    BY <1>3 DEF Accepts
  <2>5. msgs'[q.id] = u /\ DOMAIN msgs' = DOMAIN msgs
        /\ \A i \in DOMAIN msgs : i # q.id => msgs'[i] = msgs[i]
    BY <1>1, <2>1
  <2>6. Same(msgs[q.id], msgs'[q.id])
    BY <2>3, <2>5
  <2>7. Turn(q.id)
    <3>1. msgs'[q.id].status = q.status
      BY <2>3, <2>5
    <3> QED
      BY <2>1, <2>2, <2>4, <3>1 DEF Turn
  <2>8. ASSUME NEW i \in DOMAIN msgs, i # q.id PROVE Same(msgs[i], msgs'[i]) /\ Turn(i)
    BY <2>1, <2>5, <2>8 DEF Same, Turn
  <2> QED
    BY <2>5, <2>6, <2>7, <2>8 DEF Turns
<1> QED
  BY <1>2, <1>3

LEMMA ServedTurns ==
  ASSUME IInv, NEW a \in Agent, Recording(a), Served(a)
  PROVE  Turns
<1>1. PICK q \in InFlight(a) : Handle(q)
  BY DEF Served
<1>2. PICK s \in Newest(inbox[a].list) :
        q = [id |-> s.id, by |-> mine[a],
             status |-> IF inbox[a].at = "receiving" THEN "received" ELSE "recorded"]
  BY DEF InFlight
<1>3. mine[a].agent = a
  BY ShownTypes
<1>4. q.status = "recorded" => inbox[a].at = "recording"
  BY <1>2 DEF InFlight
<1>5. q.status = "recorded" => Shown(q.by.agent, q.by.session, q.id)
  BY <1>2, <1>3, <1>4 DEF Recording
<1> QED
  BY <1>1, <1>5, InFlightIs, HandleTurns

\* A step turns some rows, or adds one.
LEMMA StepTurns ==
  ASSUME IInv, PagesInv, [Next]_vars
  PROVE  \/ Turns
         \/ \E r \in Request : Send(r)
         \/ \E k \in Ask : PublishAskReply(k)
<1> USE DEF sender, adapter
<1>1. msgs \in Rows
  BY DEF IInv, RowsOK
<1>2. UNCHANGED <<msgs, receipted>> => Turns
  BY DEF Turns, Turn, Same
<1>3. CASE UNCHANGED vars
  BY <1>2, <1>3 DEF vars
<1>4. ASSUME NEW k \in Ask, AskTask(k) PROVE Turns
  BY <1>2, <1>4 DEF AskTask
<1>5. ASSUME NEW a \in Agent, Reload(a) \/ Refresh(a) \/ Heartbeat(a) PROVE Turns
  BY <1>1, <1>5, WokenGivesUp, GivesUpTurns DEF Reload, Refresh, Heartbeat
<1>6. ASSUME NEW a \in Agent, NEW x \in 1..Sessions, ChangeSession(a, x) PROVE Turns
  <2>1. GivesUp(msgs, Woken(a)) /\ Woken(a) \in Rows
    BY <1>1, WokenGivesUp, WokenMoves DEF Moved
  <2>2. GivesUp(Woken(a), msgs') /\ receipted' = receipted
    BY <1>6, <2>1, InvalidatedGivesUp DEF ChangeSession, Dead
  <2> QED
    BY <2>1, <2>2, GivesUpTwice, GivesUpTurns
<1>7. ASSUME NEW a \in Agent, Rebind(a) \/ FallSilent(a) \/ PollReads(a) \/ PollUses(a)
                              \/ ReceiptFails(a)
      PROVE  Turns
  BY <1>2, <1>7 DEF Rebind, FallSilent, PollReads, PollUses, ReceiptFails
<1>8. ASSUME NEW a \in Agent, ReceivedServed(a) \/ RecordedServed(a) PROVE Turns
  BY <1>8, ServedTurns DEF ReceivedServed, RecordedServed, PagesInv
<1>9. CASE Tick
  BY <1>1, <1>9, ExpireGivesUp, GivesUpTurns DEF Tick, Expire
<1>10. CASE ServeLate
  <2>1. PICK q \in late : Handle(q)
    BY <1>10 DEF ServeLate
  <2>2. q \in Receipts /\ q.id \in DOMAIN msgs
        /\ (q.status = "recorded" => Shown(q.by.agent, q.by.session, q.id))
    BY DEF IInv, TypeOK, Delivery, PagesInv, LateShown
  <2> QED
    BY <2>1, <2>2, HandleTurns
<1> QED
  BY <1>3, <1>4, <1>5, <1>6, <1>7, <1>8, <1>9, <1>10 DEF Next, Poll

\* A step that adds m as row n + 1, and marks what it replies to unless it is offline.
Posted(n, m) ==
  /\ DOMAIN msgs = 1..n /\ DOMAIN msgs' = 1..(n + 1) /\ msgs'[n + 1] = m
  /\ m.status \in {"stored", "offline"}
  /\ m.req \in Request => \A i \in 1..n : msgs[i].req # m.req
  /\ m.reply # 0 => /\ m.reply \in 1..n
                    /\ msgs[m.reply].status \in {"received", "recorded"}
                    /\ m.from = msgs[m.reply].to /\ m.to = msgs[m.reply].from
  /\ \A i \in 1..n :
       /\ Same(msgs[i], msgs'[i])
       /\ msgs'[i].status = IF i = m.reply /\ m.status = "stored" THEN "replied"
                            ELSE msgs[i].status
  /\ receipted' = receipted

LEMMA AppendRow ==
  ASSUME NEW T \in Rows, NEW m \in Messages, NEW n \in Nat, n = Len(T)
  PROVE  /\ DOMAIN Append(T, m) = 1..(n + 1) /\ Append(T, m)[n + 1] = m
         /\ \A i \in 1..n : Append(T, m)[i] = T[i]
BY DEF Rows

LEMMA SendPosts ==
  ASSUME IInv, NEW r \in Request, Send(r)
  PROVE  \E n \in Nat, m \in Messages : Posted(n, m)
<1> USE MessagesAssumption
<1>1. PICK id \in 0..Len(msgs) :
        /\ IF answers[r] = None THEN id = 0 ELSE id # 0 /\ Replies(r, id)
        /\ msgs' = Append(IF inst[to[r]].online THEN Marked(id) ELSE msgs,
                          [req |-> r, from |-> Binding(from[r]), to |-> Binding(to[r]),
                           reply |-> id,
                           status |-> IF inst[to[r]].online THEN "stored" ELSE "offline"])
  BY DEF Send, Stores
<1> DEFINE X == IF inst[to[r]].online THEN Marked(id) ELSE msgs
           m == [req |-> r, from |-> Binding(from[r]), to |-> Binding(to[r]), reply |-> id,
                 status |-> IF inst[to[r]].online THEN "stored" ELSE "offline"]
<1>2. PICK n \in Nat : msgs \in [1..n -> Messages] /\ n = Len(msgs)
  BY DEF IInv, RowsOK, Rows
<1>3. id # 0 => /\ id \in 1..n /\ msgs[id].status \in {"received", "recorded"}
                /\ Binding(from[r]) = msgs[id].to /\ Binding(to[r]) = msgs[id].from
  BY <1>1, <1>2 DEF Replies
<1>4. Moved(msgs, X, receipted)
  BY <1>3, Still, MarkedMoves DEF IInv, RowsOK
<1>5. X \in Rows /\ DOMAIN X = 1..n /\ Len(X) = n
  BY <1>2, <1>4 DEF Moved, Rows
<1>6. ASSUME NEW i \in 1..n
      PROVE  /\ Same(msgs[i], X[i])
             /\ X[i].status = IF i = id /\ inst[to[r]].online THEN "replied"
                              ELSE msgs[i].status
  <2>1. Same(msgs[i], X[i])
    BY <1>2, <1>4 DEF Moved, Same
  <2>2. X[i].status = IF i = id /\ inst[to[r]].online THEN "replied" ELSE msgs[i].status
    <3>1. msgs[i] \in Messages
      BY <1>2
    <3>2. [msgs[i] EXCEPT !.status = "replied"].status = "replied"
      BY <3>1, Restated DEF Statuses
    <3> QED
      BY <1>2, <3>2 DEF Marked
  <2> QED
    BY <2>1, <2>2
<1>7. m \in Messages
  <2>1. from[r] \in Agent /\ to[r] \in Agent
    OBVIOUS
  <2>2. Binding(from[r]) \in Bindings /\ Binding(to[r]) \in Bindings
    BY <2>1, BindingIs DEF IInv
  <2> QED
    BY <1>1, <1>2, <2>2 DEF Messages, Statuses, Open, Dead
<1>8. \A i \in 1..n : msgs[i].req # r
  BY <1>2 DEF IInv, Send, RowsOK, Remembered
<1>9. /\ m.req = r /\ m.reply = id /\ m.from = Binding(from[r]) /\ m.to = Binding(to[r])
      /\ m.status \in {"stored", "offline"} /\ (m.status = "stored" <=> inst[to[r]].online)
  OBVIOUS
<1>10. msgs' = Append(X, m) /\ receipted' = receipted
  BY <1>1 DEF Send, Stores
<1> HIDE DEF X, m
<1>11. /\ DOMAIN msgs' = 1..(n + 1) /\ msgs'[n + 1] = m
       /\ \A i \in 1..n : msgs'[i] = X[i]
  BY <1>5, <1>7, <1>10, AppendRow
<1>12. Posted(n, m)
  BY <1>2, <1>3, <1>6, <1>8, <1>9, <1>10, <1>11 DEF Posted
<1> QED
  BY <1>7, <1>12

LEMMA PublishPosts ==
  ASSUME IInv, NEW k \in Ask, PublishAskReply(k)
  PROVE  \E n \in Nat, m \in Messages : Posted(n, m)
<1> USE MessagesAssumption
<1> DEFINE m == [req |-> k, from |-> ask[k].to, to |-> ask[k].from, reply |-> 0,
                 status |-> "stored"]
<1>1. PICK n \in Nat : msgs \in [1..n -> Messages] /\ n = Len(msgs)
  BY DEF IInv, RowsOK, Rows
<1>2. m \in Messages
  BY DEF IInv, Asked, PublishAskReply, Messages, Statuses, Open
<1>3. m.req \notin Request /\ m.reply = 0 /\ m.status = "stored"
  OBVIOUS
<1>4. msgs' = Append(msgs, m) /\ receipted' = receipted
  BY DEF PublishAskReply
<1> HIDE DEF m
<1>5. /\ DOMAIN msgs' = 1..(n + 1) /\ msgs'[n + 1] = m
      /\ \A i \in 1..n : msgs'[i] = msgs[i]
  BY <1>1, <1>2, <1>4, AppendRow DEF Rows
<1>6. Posted(n, m)
  BY <1>1, <1>3, <1>4, <1>5 DEF Posted, Same
<1> QED
  BY <1>2, <1>6

LEMMA StepRows ==
  ASSUME IInv, PagesInv, [Next]_vars
  PROVE  Turns \/ \E n \in Nat, m \in Messages : Posted(n, m)
BY StepTurns, SendPosts, PublishPosts

LEMMA UntakenStep ==
  ASSUME IInv, PagesInv, [Next]_vars
  PROVE  Untaken'
<1>1. receipted \subseteq DOMAIN msgs /\ receipted' \subseteq DOMAIN msgs'
  BY EveryRowsStep DEF IInv, RowsOK, RowsStep
<1>2. CASE Turns
  BY <1>1, <1>2 DEF Turns, Turn, PagesInv, Untaken, Dead
<1>3. ASSUME NEW n \in Nat, NEW m \in Messages, Posted(n, m) PROVE Untaken'
  BY <1>1, <1>3 DEF Posted, PagesInv, Untaken
<1> QED
  BY <1>2, <1>3, StepRows

\* A step that shows nothing.
LEMMA QuietPages ==
  ASSUME IInv, PagesInv, UNCHANGED entries, Untaken', SameSession',
         \A b \in Agent :
           /\ known'[b] = {} \/ (known'[b] = known[b] /\ mine'[b].session = mine[b].session)
           /\ \/ inbox'[b].at # "recording"
              \/ inbox'[b] = inbox[b] /\ mine'[b].session = mine[b].session,
         \A q \in late' : q \in late \/ \E a \in Agent : q \in InFlight(a)
  PROVE  PagesInv'
<1>1. ASSUME NEW b \in Agent PROVE Remembers(b)'
  BY DEF PagesInv, Remembers, Shown
<1>2. ASSUME NEW b \in Agent PROVE Recording(b)'
  BY DEF PagesInv, Recording, Newest, Shown
<1>3. LateShown'
  <2> SUFFICES ASSUME NEW q \in late', q.status = "recorded"
               PROVE  Shown(q.by.agent, q.by.session, q.id)
    BY DEF LateShown, Shown
  <2>1. CASE q \in late
    BY <2>1 DEF PagesInv, LateShown
  <2>2. ASSUME NEW a \in Agent, q \in InFlight(a) PROVE Shown(q.by.agent, q.by.session, q.id)
    <3>1. PICK s \in Newest(inbox[a].list) :
            q = [id |-> s.id, by |-> mine[a],
                 status |-> IF inbox[a].at = "receiving" THEN "received" ELSE "recorded"]
      BY <2>2 DEF InFlight
    <3>2. inbox[a].at = "recording" /\ mine[a].agent = a
      BY <2>2, <3>1, ShownTypes DEF InFlight
    <3> QED
      BY <3>1, <3>2 DEF PagesInv, Recording
  <2> QED
    BY <2>1, <2>2
<1> QED
  BY <1>1, <1>2, <1>3 DEF PagesInv

LEMMA ProceedPages ==
  ASSUME IInv, PagesInv, NEW a \in Agent, NEW list \in SUBSET Seen, Proceed(a, list),
         mine' = mine, late' = late, Untaken', SameSession'
  PROVE  PagesInv'
<1>1. inbox \in [Agent -> Loops] /\ known \in [Agent -> SUBSET Nat]
  BY TypeOKIs DEF IInv, Others
<1>2. ASSUME UNCHANGED <<known, entries>>, inbox'[a].at # "recording",
             \A b \in Agent : b # a => inbox'[b] = inbox[b]
      PROVE  PagesInv'
  BY <1>2, QuietPages
<1>3. CASE list = {} /\ inbox' = [inbox EXCEPT ![a] = Resting] /\ UNCHANGED <<known, entries>>
  BY <1>1, <1>2, <1>3 DEF Resting
<1>4. CASE inbox' = [inbox EXCEPT ![a] = [at |-> "receiving", list |-> list]]
           /\ UNCHANGED <<known, entries>>
  BY <1>1, <1>2, <1>4
<1>5. ASSUME NEW s \in Newest(list), Show(a, s.id),
             inbox' = [inbox EXCEPT ![a] = [at |-> "recording", list |-> list]]
      PROVE  PagesInv'
  <2>1. s.id \in Nat /\ \A u \in Newest(list) : u.id = s.id
    BY DEF Newest, Seen
  <2>2. Added /\ Shown(a, mine[a].session, s.id)'
    BY <1>5, <2>1, ShowAdds DEF PagesInv
  <2>3. ASSUME NEW b \in Agent, NEW x \in 1..Sessions, NEW j \in Nat, Shown(b, x, j)
        PROVE  Shown(b, x, j)'
    BY <2>2, <2>3 DEF Added
  <2>4. /\ known'[a] = known[a] \cup {s.id}
        /\ \A b \in Agent : b # a => known'[b] = known[b]
    BY <1>1, <1>5 DEF Show
  <2>5. /\ inbox'[a].at = "recording" /\ inbox'[a].list = list
        /\ \A b \in Agent : b # a => inbox'[b] = inbox[b]
    BY <1>1, <1>5
  <2>6. ASSUME NEW b \in Agent PROVE Remembers(b)'
    <3> SUFFICES ASSUME NEW j \in known'[b]
                 PROVE  Shown(b, mine[b].session, j)'
      BY DEF Remembers
    <3>1. CASE j \in known[b]
      <4>1. j \in Nat /\ mine[b].session \in 1..Sessions /\ Shown(b, mine[b].session, j)
        BY <3>1, ShownTypes DEF PagesInv, Remembers
      <4> QED
        BY <2>3, <4>1 DEF Shown
    <3>2. CASE j \notin known[b]
      <4>1. b = a /\ j = s.id
        BY <2>4, <3>2
      <4> QED
        BY <2>2, <4>1
    <3> QED
      BY <3>1, <3>2
  <2>7. ASSUME NEW b \in Agent PROVE Recording(b)'
    <3>1. CASE b = a
      <4>1. Newest(inbox'[a].list) = Newest(list)
        BY <2>5
      <4>2. \A u \in Newest(inbox'[a].list) : Shown(a, mine[a].session, u.id)'
        BY <2>1, <2>2, <4>1
      <4> QED
        BY <3>1, <4>2 DEF Recording, Newest
    <3>2. CASE b # a
      <4>1. inbox'[b] = inbox[b]
        BY <2>5, <3>2
      <4>2. ASSUME inbox[b].at = "recording", NEW u \in Newest(inbox[b].list)
            PROVE  Shown(b, mine[b].session, u.id)'
        <5>1. u.id \in Nat /\ mine[b].session \in 1..Sessions
              /\ Shown(b, mine[b].session, u.id)
          BY <4>2, ShownTypes DEF PagesInv, Recording
        <5> QED
          BY <2>3, <5>1 DEF Shown
      <4> QED
        BY <4>1, <4>2 DEF Recording, Newest
    <3> QED
      BY <3>1, <3>2
  <2>8. LateShown'
    <3> SUFFICES ASSUME NEW q \in late, q.status = "recorded"
                 PROVE  Shown(q.by.agent, q.by.session, q.id)'
      BY DEF LateShown
    <3>1. q.id \in Nat /\ q.by.agent \in Agent /\ q.by.session \in 1..Sessions
      BY DEF IInv, TypeOK, Receipts, Bindings
    <3>2. Shown(q.by.agent, q.by.session, q.id)
      BY DEF PagesInv, LateShown
    <3> QED
      BY <2>3, <3>1, <3>2
  <2> QED
    BY <2>6, <2>7, <2>8 DEF PagesInv
<1> QED
  BY <1>3, <1>4, <1>5 DEF Proceed

LEMMA SessionsStep ==
  ASSUME IInv, PagesInv, [Next]_vars
  PROVE  SameSession'
<1> USE DEF sender, adapter
<1>1. /\ mine \in [Agent -> Bindings] /\ inst \in [Agent -> Identities]
      /\ \A b \in Agent : mine[b].session = inst[b].session
  BY TypeOKIs DEF IInv, Others, PagesInv, SameSession
<1>2. UNCHANGED <<mine, inst>> => SameSession'
  BY <1>1 DEF SameSession
<1>3. ASSUME NEW a \in Agent, NEW o \in BOOLEAN, inst' = [inst EXCEPT ![a].online = o]
      PROVE  \A b \in Agent : inst'[b].session = inst[b].session
  BY <1>1, <1>3 DEF Identities
<1>4. ASSUME NEW a \in Agent, mine' = [mine EXCEPT ![a] = Binding(a)]
      PROVE  \A b \in Agent : mine'[b].session = inst[b].session
  <2>1. Binding(a).session = inst[a].session
    BY BindingIs DEF IInv
  <2> QED
    BY <1>1, <1>4, <2>1
<1>5. CASE UNCHANGED vars
  BY <1>2, <1>5 DEF vars
<1>6. ASSUME NEW r \in Request, Send(r) PROVE SameSession'
  BY <1>2, <1>6 DEF Send, Stores
<1>7. ASSUME NEW k \in Ask, AskTask(k) \/ PublishAskReply(k) PROVE SameSession'
  BY <1>2, <1>7 DEF AskTask, PublishAskReply
<1>8. ASSUME NEW a \in Agent, Reload(a) \/ Refresh(a) PROVE SameSession'
  BY <1>3, <1>4, <1>8 DEF Reload, Refresh, SameSession
<1>9. ASSUME NEW a \in Agent, FallSilent(a) \/ Heartbeat(a) PROVE SameSession'
  BY <1>1, <1>3, <1>9 DEF FallSilent, Heartbeat, SameSession
<1>10. ASSUME NEW a \in Agent, NEW x \in 1..Sessions, ChangeSession(a, x) PROVE SameSession'
  BY <1>1, <1>10 DEF ChangeSession, SameSession
<1>11. ASSUME NEW a \in Agent, Rebind(a) PROVE SameSession'
  <2>1. \A b \in Agent : inst'[b].session = inst[b].session
    BY <1>1, <1>11 DEF Rebind, Identities
  <2> QED
    BY <1>1, <1>11, <2>1 DEF Rebind, SameSession
<1>12. ASSUME NEW a \in Agent, PollReads(a) \/ PollUses(a) \/ ReceivedServed(a)
                               \/ RecordedServed(a) \/ ReceiptFails(a)
       PROVE  SameSession'
  BY <1>2, <1>12 DEF PollReads, PollUses, ReceivedServed, RecordedServed, ReceiptFails
<1>13. CASE Tick \/ ServeLate
  BY <1>2, <1>13 DEF Tick, Expire, ServeLate
<1> QED
  BY <1>5, <1>6, <1>7, <1>8, <1>9, <1>10, <1>11, <1>12, <1>13 DEF Next, Poll

LEMMA PagesStep ==
  ASSUME IInv, PagesInv, [Next]_vars
  PROVE  PagesInv'
<1> USE DEF sender, adapter
<1>1. Untaken' /\ SameSession'
  BY UntakenStep, SessionsStep
<1>2. /\ mine \in [Agent -> Bindings] /\ inbox \in [Agent -> Loops]
      /\ known \in [Agent -> SUBSET Nat]
      /\ \A b \in Agent : inbox[b].list \in SUBSET Seen
  BY TypeOKIs DEF IInv, Others, Loops
<1>3. UNCHANGED <<mine, inbox, known, entries>> /\ late' \subseteq late => PagesInv'
  BY <1>1, QuietPages
<1>4. ASSUME NEW a \in Agent, Restarted(a), UNCHANGED entries,
             \A b \in Agent : b # a => mine'[b] = mine[b]
      PROVE  PagesInv'
  <2>1. /\ inbox'[a].at = "idle" /\ known'[a] = {}
        /\ \A b \in Agent : b # a => inbox'[b] = inbox[b] /\ known'[b] = known[b]
    BY <1>2, <1>4 DEF Restarted, Resting
  <2>2. \A q \in late' : q \in late \/ q \in InFlight(a)
    BY <1>4 DEF Restarted
  <2> QED
    BY <1>1, <1>4, <2>1, <2>2, QuietPages
<1>5. CASE UNCHANGED vars
  BY <1>3, <1>5 DEF vars
<1>6. ASSUME NEW r \in Request, Send(r) PROVE PagesInv'
  BY <1>3, <1>6 DEF Send, Stores
<1>7. ASSUME NEW k \in Ask, AskTask(k) \/ PublishAskReply(k) PROVE PagesInv'
  BY <1>3, <1>7 DEF AskTask, PublishAskReply
<1>8. ASSUME NEW a \in Agent, Reload(a) PROVE PagesInv'
  BY <1>2, <1>4, <1>8 DEF Reload
<1>9. ASSUME NEW a \in Agent, NEW x \in 1..Sessions, ChangeSession(a, x) PROVE PagesInv'
  BY <1>2, <1>4, <1>9 DEF ChangeSession
<1>10. ASSUME NEW a \in Agent, Rebind(a) \/ FallSilent(a) \/ Heartbeat(a) PROVE PagesInv'
  BY <1>3, <1>10 DEF Rebind, FallSilent, Heartbeat
<1>11. ASSUME NEW a \in Agent, Refresh(a) PROVE PagesInv'
  <2>1. mine'[a].session = mine[a].session
    <3>1. Binding(a).session = inst[a].session
      BY BindingIs DEF IInv
    <3> QED
      BY <1>2, <1>11, <3>1 DEF Refresh, PagesInv, SameSession
  <2>2. \A b \in Agent : mine'[b].session = mine[b].session
    BY <1>2, <1>11, <2>1 DEF Refresh
  <2> QED
    BY <1>1, <1>11, <2>2, QuietPages DEF Refresh
<1>12. ASSUME NEW a \in Agent, PollReads(a) PROVE PagesInv'
  <2>1. inbox'[a].at = "read" /\ \A b \in Agent : b # a => inbox'[b] = inbox[b]
    BY <1>2, <1>12 DEF PollReads
  <2> QED
    BY <1>1, <1>12, <2>1, QuietPages DEF PollReads
<1>13. ASSUME NEW a \in Agent, PollUses(a) PROVE PagesInv'
  BY <1>1, <1>2, <1>13, ProceedPages DEF PollUses
<1>14. ASSUME NEW a \in Agent, ReceivedServed(a) PROVE PagesInv'
  <2> DEFINE list == (inbox[a].list \ Newest(inbox[a].list)) \cup
                     {[id |-> s.id, status |-> "received"] : s \in Newest(inbox[a].list)}
  <2>1. Proceed(a, list) /\ Served(a) /\ UNCHANGED <<mine, late>>
    BY <1>14 DEF ReceivedServed
  <2>2. Grown /\ list \in SUBSET Seen
    BY <2>1, EveryRowsStep, ReceivedReadable DEF RowsStep
  <2> HIDE DEF list
  <2> QED
    BY <1>1, <2>1, <2>2, ProceedPages
<1>15. ASSUME NEW a \in Agent, RecordedServed(a) PROVE PagesInv'
  <2>1. inbox[a].list \ Newest(inbox[a].list) \in SUBSET Seen
    BY <1>2
  <2> QED
    BY <1>1, <1>15, <2>1, ProceedPages DEF RecordedServed
<1>16. ASSUME NEW a \in Agent, ReceiptFails(a) PROVE PagesInv'
  <2>1. inbox'[a].at = "idle" /\ \A b \in Agent : b # a => inbox'[b] = inbox[b]
    BY <1>2, <1>16 DEF ReceiptFails, Resting
  <2>2. \A q \in late' : q \in late \/ q \in InFlight(a)
    BY <1>16 DEF ReceiptFails
  <2> QED
    BY <1>1, <1>16, <2>1, <2>2, QuietPages DEF ReceiptFails
<1>17. CASE Tick \/ ServeLate
  BY <1>3, <1>17 DEF Tick, Expire, ServeLate
<1> QED
  BY <1>5, <1>6, <1>7, <1>8, <1>9, <1>10, <1>11, <1>12, <1>13, <1>14, <1>15, <1>16, <1>17
  DEF Next, Poll

-----------------------------------------------------------------------------
(* TeamMessages implements Mailbox.                                        *)

LEMMA Standings ==
  ASSUME NEW T \in Rows, NEW R, NEW i \in DOMAIN T
  PROVE  /\ StandingOf(T[i], i \in R) = "waiting" <=> T[i].status = "stored"
         /\ StandingOf(T[i], i \in R) = "taken" <=> T[i].status = "received"
         /\ StandingOf(T[i], i \in R) = "kept" <=> T[i].status = "recorded"
         /\ StandingOf(T[i], i \in R) = "answered" <=> T[i].status = "replied"
         /\ StandingOf(T[i], i \in R) = "dropped" <=> T[i].status \in Dead /\ i \in R
         /\ StandingOf(T[i], i \in R) = "lost" <=> T[i].status \in Dead /\ i \notin R
         /\ StandingOf(T[i], i \in R) \in Mailbox!Standings
<1>1. PICK n \in Nat : T \in [1..n -> Messages]
  BY DEF Rows
<1>2. T[i].status \in {"stored", "received", "recorded", "replied"} \cup Dead
  BY <1>1 DEF Messages, Statuses, Open
<1>3. /\ T[i].status = "stored" => StandingOf(T[i], i \in R) = "waiting"
      /\ T[i].status = "received" => StandingOf(T[i], i \in R) = "taken"
      /\ T[i].status = "recorded" => StandingOf(T[i], i \in R) = "kept"
      /\ T[i].status = "replied" => StandingOf(T[i], i \in R) = "answered"
      /\ T[i].status \in Dead /\ i \in R => StandingOf(T[i], i \in R) = "dropped"
      /\ T[i].status \in Dead /\ i \notin R => StandingOf(T[i], i \in R) = "lost"
  BY DEF StandingOf, Dead
<1>4. Mailbox!Standings = {"waiting", "taken", "kept", "answered", "lost", "dropped"}
  BY DEF Mailbox!Standings, Mailbox!Course
<1> QED
  BY <1>2, <1>3, <1>4 DEF Dead

LEMMA LettersAre ==
  ASSUME NEW T \in Rows
  PROVE  [i \in DOMAIN T |-> LetterOf(T[i])] \in Seq(Mailbox!Letters)
<1>1. PICK n \in Nat : T \in [1..n -> Messages]
  BY DEF Rows
<1>2. ASSUME NEW m \in Messages PROVE LetterOf(m) \in Mailbox!Letters
  BY DEF LetterOf, Messages, Mailbox!Letters, BoxOf, Boxes, Bindings
<1>3. [i \in DOMAIN T |-> LetterOf(T[i])] \in [1..n -> Mailbox!Letters]
  BY <1>1, <1>2
<1> QED
  BY <1>3

LEMMA PagesInit ==
  ASSUME Init
  PROVE  PagesInv
BY DEF Init, PagesInv, Untaken, SameSession, Remembers, Recording, LateShown, Resting, Binding

LEMMA MailboxInit ==
  ASSUME Init
  PROVE  Mailbox!Init
<1>1. DOMAIN msgs = {}
  BY DEF Init
<1>2. [i \in DOMAIN msgs |-> LetterOf(msgs[i])] = <<>>
  BY <1>1
<1>3. [i \in DOMAIN msgs |-> StandingOf(msgs[i], i \in receipted)] = <<>>
  BY <1>1
<1>4. ASSUME NEW b \in Boxes PROVE entries[b.agent][b.session] = <<>>
  BY DEF Init, Boxes
<1> QED
  BY <1>2, <1>3, <1>4 DEF Mailbox!Init

\* A row that turns is the letter it was, and stands where it may.
LEMMA TurnStands ==
  ASSUME IInv, IInv', PagesInv, Turns, NEW i \in DOMAIN msgs
  PROVE  LET old == StandingOf(msgs[i], i \in receipted)
             new == StandingOf(msgs'[i], i \in receipted')
         IN  /\ LetterOf(msgs'[i]) = LetterOf(msgs[i])
             /\ new \in Mailbox!Course[old]
             /\ new = "answered" => old = "answered"
             /\ old # "kept" /\ new = "kept" => Shown(msgs[i].to.agent, msgs[i].to.session, i)
<1> DEFINE old == StandingOf(msgs[i], i \in receipted)
           new == StandingOf(msgs'[i], i \in receipted')
<1>1. msgs \in Rows /\ msgs' \in Rows /\ i \in DOMAIN msgs' /\ Turn(i) /\ Same(msgs[i], msgs'[i])
  BY DEF IInv, RowsOK, Turns
<1>2. msgs[i].status = "received" => i \in receipted
  BY DEF IInv, RowsOK, Acknowledged, Acked
<1>3. msgs[i].status = "stored" => i \notin receipted
  BY DEF PagesInv, Untaken
<1>4. /\ old = "waiting" <=> msgs[i].status = "stored"
      /\ old = "taken" <=> msgs[i].status = "received"
      /\ old = "kept" <=> msgs[i].status = "recorded"
      /\ old = "answered" <=> msgs[i].status = "replied"
      /\ old = "dropped" <=> msgs[i].status \in Dead /\ i \in receipted
      /\ old = "lost" <=> msgs[i].status \in Dead /\ i \notin receipted
      /\ old \in Mailbox!Standings
  BY <1>1, Standings
<1>5. /\ new = "waiting" <=> msgs'[i].status = "stored"
      /\ new = "taken" <=> msgs'[i].status = "received"
      /\ new = "kept" <=> msgs'[i].status = "recorded"
      /\ new = "answered" <=> msgs'[i].status = "replied"
      /\ new = "dropped" <=> msgs'[i].status \in Dead /\ i \in receipted'
      /\ new = "lost" <=> msgs'[i].status \in Dead /\ i \notin receipted'
      /\ new \in Mailbox!Standings
  BY <1>1, Standings
<1>6. LetterOf(msgs'[i]) = LetterOf(msgs[i])
  BY <1>1 DEF Same, LetterOf
<1> HIDE DEF old, new
<1>7. new = old \/ (old = "waiting" /\ new \in {"taken", "lost"})
      \/ (old = "taken" /\ new = "dropped")
      \/ (old = "taken" /\ new = "kept" /\ Shown(msgs[i].to.agent, msgs[i].to.session, i))
  <2>1. CASE msgs'[i].status = msgs[i].status
             /\ (i \in receipted' => i \in receipted \/ msgs[i].status \in {"received", "recorded"})
    <3>1. msgs[i].status \in Dead => (i \in receipted' <=> i \in receipted)
      BY <1>1, <2>1 DEF Turn, Dead
    <3>2. old \in {"waiting", "taken", "kept", "answered", "lost", "dropped"}
      BY <1>4 DEF Mailbox!Standings, Mailbox!Course
    <3> QED
      BY <1>4, <1>5, <2>1, <3>1, <3>2
  <2>2. CASE msgs[i].status \in Open /\ msgs'[i].status \in Dead
             /\ (i \in receipted' => i \in receipted)
    BY <1>1, <1>2, <1>3, <1>4, <1>5, <2>2 DEF Turn, Open
  <2>3. CASE msgs[i].status = "stored" /\ msgs'[i].status = "received"
    BY <1>4, <1>5, <2>3
  <2>4. CASE msgs[i].status = "received" /\ msgs'[i].status = "recorded"
             /\ Shown(msgs[i].to.agent, msgs[i].to.session, i)
    BY <1>4, <1>5, <2>4
  <2> QED
    BY <1>1, <2>1, <2>2, <2>3, <2>4 DEF Turn
<1>8. new \in Mailbox!Course[old]
  BY <1>4, <1>7 DEF Mailbox!Standings, Mailbox!Course
<1> QED
  BY <1>6, <1>7, <1>8 DEF old, new

LEMMA OnPageIs ==
  ASSUME IInv, NEW i \in DOMAIN msgs
  PROVE  Mailbox!OnPage(i) <=> Shown(msgs[i].to.agent, msgs[i].to.session, i)
<1>1. PICK n \in Nat : msgs \in [1..n -> Messages]
  BY DEF IInv, RowsOK, Rows
<1>2. msgs[i].to \in Bindings
  BY <1>1 DEF Messages
<1>3. /\ BoxOf(msgs[i].to) \in Boxes /\ BoxOf(msgs[i].to).agent = msgs[i].to.agent
      /\ BoxOf(msgs[i].to).session = msgs[i].to.session
  BY <1>2 DEF BoxOf, Boxes, Bindings
<1> DEFINE pages == [b \in Boxes |-> entries[b.agent][b.session]]
           letters == [j \in DOMAIN msgs |-> LetterOf(msgs[j])]
<1>4. letters[i].to = BoxOf(msgs[i].to)
  BY DEF LetterOf
<1>5. pages[letters[i].to] = entries[msgs[i].to.agent][msgs[i].to.session]
  BY <1>3, <1>4
<1> HIDE DEF pages, letters
<1>6. (\E k \in DOMAIN pages[letters[i].to] : pages[letters[i].to][k] = i)
      <=> Shown(msgs[i].to.agent, msgs[i].to.session, i)
  BY <1>5 DEF Shown
<1> QED
  BY <1>6 DEF pages, letters, Mailbox!OnPage

LEMMA TurnsPost ==
  ASSUME IInv, IInv', PagesInv, Turns
  PROVE  Mailbox!Post /\ Mailbox!Stand
<1>1. msgs \in Rows /\ msgs' \in Rows /\ DOMAIN msgs' = DOMAIN msgs
  BY DEF IInv, RowsOK, Turns
<1> DEFINE letters == [i \in DOMAIN msgs |-> LetterOf(msgs[i])]
           letters2 == [i \in DOMAIN msgs' |-> LetterOf(msgs'[i])]
           stands == [i \in DOMAIN msgs |-> StandingOf(msgs[i], i \in receipted)]
           stands2 == [i \in DOMAIN msgs' |-> StandingOf(msgs'[i], i \in receipted')]
<1>2. Mailbox!New = {}
  BY <1>1 DEF Mailbox!New
<1>3. letters2 \in Seq(Mailbox!Letters)
  BY <1>1, LettersAre
<1>4. DOMAIN letters = DOMAIN msgs /\ DOMAIN letters2 = DOMAIN msgs
      /\ DOMAIN stands = DOMAIN msgs /\ DOMAIN stands2 = DOMAIN msgs
  BY <1>1
<1>5. ASSUME NEW i \in DOMAIN msgs
      PROVE  /\ letters2[i] = letters[i]
             /\ stands2[i] \in Mailbox!Course[stands[i]]
             /\ stands2[i] = "answered" => stands[i] = "answered"
             /\ stands[i] # "kept" /\ stands2[i] = "kept" => Mailbox!OnPage(i)
             /\ stands2[i] \in Mailbox!Standings
  <2>1. stands2[i] \in Mailbox!Standings
    BY <1>1, Standings
  <2> QED
    BY <1>1, <2>1, TurnStands, OnPageIs
<1>6. stands2 \in [DOMAIN letters2 -> Mailbox!Standings]
  <2>1. stands2 = [i \in DOMAIN stands2 |-> stands2[i]]
    OBVIOUS
  <2> HIDE DEF stands2, letters2
  <2> QED
    BY <1>4, <1>5, <2>1
<1> HIDE DEF letters, letters2, stands, stands2
<1>7. Mailbox!Post
  BY <1>2, <1>3, <1>4, <1>5 DEF Mailbox!Post, letters, letters2
<1>8. Mailbox!Stand
  <2>1. \A i \in DOMAIN letters : stands2[i] \in Mailbox!Course[stands[i]]
    BY <1>4, <1>5
  <2>2. \A i \in DOMAIN letters : stands[i] # "kept" /\ stands2[i] = "kept" => Mailbox!OnPage(i)
    BY <1>4, <1>5
  <2>3. \A i \in DOMAIN letters : ~(stands[i] # "answered" /\ stands2[i] = "answered")
    BY <1>4, <1>5
  <2> QED
    BY <1>2, <1>6, <2>1, <2>2, <2>3 DEF Mailbox!Stand, letters, letters2, stands, stands2
<1> QED
  BY <1>7, <1>8

LEMMA PostedPost ==
  ASSUME IInv, IInv', NEW n \in Nat, NEW m \in Messages, Posted(n, m)
  PROVE  Mailbox!Post /\ Mailbox!Stand
<1>1. /\ msgs \in Rows /\ msgs' \in Rows /\ DOMAIN msgs = 1..n /\ DOMAIN msgs' = 1..(n + 1)
      /\ msgs'[n + 1] = m /\ receipted' = receipted /\ receipted \subseteq 1..n
      /\ n + 1 \notin 1..n /\ n + 1 \in 1..(n + 1) /\ 1..(n + 1) = 1..n \cup {n + 1}
  BY DEF IInv, RowsOK, Posted
<1> DEFINE letters == [i \in DOMAIN msgs |-> LetterOf(msgs[i])]
           letters2 == [i \in DOMAIN msgs' |-> LetterOf(msgs'[i])]
           stands == [i \in DOMAIN msgs |-> StandingOf(msgs[i], i \in receipted)]
           stands2 == [i \in DOMAIN msgs' |-> StandingOf(msgs'[i], i \in receipted')]
<1>2. Mailbox!New = {n + 1}
  BY <1>1 DEF Mailbox!New
<1>3. letters2 \in Seq(Mailbox!Letters)
  BY <1>1, LettersAre
<1>4. DOMAIN letters = 1..n /\ DOMAIN letters2 = 1..(n + 1)
      /\ DOMAIN stands = 1..n /\ DOMAIN stands2 = 1..(n + 1)
  BY <1>1
<1>5. ASSUME NEW i \in 1..n
      PROVE  /\ letters2[i] = letters[i] /\ letters[i].item = msgs[i].req
             /\ letters[i].from = BoxOf(msgs[i].from) /\ letters[i].to = BoxOf(msgs[i].to)
             /\ stands2[i] = IF i = m.reply /\ m.status = "stored" THEN "answered" ELSE stands[i]
             /\ stands[i] = "taken" <=> msgs[i].status = "received"
             /\ stands[i] = "kept" <=> msgs[i].status = "recorded"
             /\ stands[i] \in Mailbox!Standings /\ stands2[i] \in Mailbox!Standings
  <2>1. Same(msgs[i], msgs'[i])
        /\ msgs'[i].status = IF i = m.reply /\ m.status = "stored" THEN "replied"
                             ELSE msgs[i].status
    BY DEF Posted
  <2>2. i \in DOMAIN msgs /\ i \in DOMAIN msgs'
    BY <1>1
  <2>3. letters2[i] = LetterOf(msgs'[i]) /\ letters[i] = LetterOf(msgs[i])
    BY <2>2
  <2>4. LetterOf(msgs'[i]) = LetterOf(msgs[i])
    BY <2>1 DEF Same, LetterOf
  <2>5. /\ stands[i] = StandingOf(msgs[i], i \in receipted)
        /\ stands2[i] = StandingOf(msgs'[i], i \in receipted')
    BY <2>2
  <2>6. stands2[i] = IF i = m.reply /\ m.status = "stored" THEN "answered" ELSE stands[i]
    BY <1>1, <2>1, <2>5 DEF StandingOf
  <2>7. /\ stands[i] = "taken" <=> msgs[i].status = "received"
        /\ stands[i] = "kept" <=> msgs[i].status = "recorded"
        /\ stands[i] \in Mailbox!Standings /\ stands2[i] \in Mailbox!Standings
    BY <1>1, <2>2, <2>5, Standings
  <2> QED
    BY <2>3, <2>4, <2>6, <2>7 DEF LetterOf
<1>6. /\ letters2[n + 1].item = m.req /\ letters2[n + 1].re = m.reply
      /\ letters2[n + 1].from = BoxOf(m.from) /\ letters2[n + 1].to = BoxOf(m.to)
      /\ stands2[n + 1] \in {"waiting", "lost"}
      /\ stands2[n + 1] = "waiting" <=> m.status = "stored"
      /\ stands2[n + 1] \in Mailbox!Standings
  <2>1. letters2[n + 1] = LetterOf(m)
    BY <1>1
  <2>2. n + 1 \in DOMAIN msgs' /\ stands2[n + 1] = StandingOf(msgs'[n + 1], n + 1 \in receipted')
    BY <1>1
  <2>3. m.status \in {"stored", "offline"} /\ n + 1 \notin receipted'
    BY <1>1 DEF Posted
  <2>4. /\ stands2[n + 1] \in {"waiting", "lost"}
        /\ stands2[n + 1] = "waiting" <=> m.status = "stored"
        /\ stands2[n + 1] \in Mailbox!Standings
    BY <1>1, <2>2, <2>3, Standings DEF Dead
  <2> QED
    BY <2>1, <2>4 DEF LetterOf
<1>7. m.reply # 0 => /\ m.reply \in 1..n
                     /\ msgs[m.reply].status \in {"received", "recorded"}
                     /\ m.from = msgs[m.reply].to /\ m.to = msgs[m.reply].from
  BY DEF Posted
<1>8. m.req \in Request => \A i \in 1..n : msgs[i].req # m.req
  BY DEF Posted
<1>9. stands2 \in [DOMAIN letters2 -> Mailbox!Standings]
  <2>1. stands2 = [i \in DOMAIN stands2 |-> stands2[i]]
    OBVIOUS
  <2> HIDE DEF stands2, letters2
  <2> QED
    BY <1>1, <1>4, <1>5, <1>6, <2>1
<1> HIDE DEF letters, letters2, stands, stands2
<1>10. Mailbox!Post
  <2>1. \A i \in DOMAIN letters : i \in DOMAIN letters2 /\ letters2[i] = letters[i]
    BY <1>1, <1>4, <1>5
  <2>2. \A i \in Mailbox!New, j \in DOMAIN letters2 :
          letters2[i].item \in Request /\ letters2[j].item = letters2[i].item => i = j
    BY <1>1, <1>2, <1>4, <1>5, <1>6, <1>8
  <2>3. letters2[n + 1].re # 0 => Mailbox!Replies(letters2[n + 1])
    BY <1>4, <1>5, <1>6, <1>7 DEF Mailbox!Replies, letters, stands
  <2>4. \A i \in Mailbox!New : letters2[i].re # 0 => Mailbox!Replies(letters2[i])
    BY <1>2, <2>3
  <2> QED
    BY <1>3, <2>1, <2>2, <2>4 DEF Mailbox!Post, letters, letters2
<1>11. Mailbox!Stand
  <2>1. \A i \in DOMAIN letters : stands2[i] \in Mailbox!Course[stands[i]]
    BY <1>4, <1>5, <1>7 DEF Mailbox!Standings, Mailbox!Course
  <2>2. \A i \in Mailbox!New : stands2[i] \in {"waiting", "lost"}
    BY <1>2, <1>6
  <2>3. \A i \in DOMAIN letters : stands[i] # "kept" /\ stands2[i] = "kept" => Mailbox!OnPage(i)
    BY <1>4, <1>5
  <2>4. \A i \in DOMAIN letters :
          stands[i] # "answered" /\ stands2[i] = "answered"
          <=> \E j \in Mailbox!New : letters2[j].re = i /\ stands2[j] = "waiting"
    <3> SUFFICES ASSUME NEW i \in 1..n
                 PROVE  stands[i] # "answered" /\ stands2[i] = "answered"
                        <=> m.reply = i /\ m.status = "stored"
      BY <1>2, <1>4, <1>6
    <3>1. CASE m.reply = i /\ m.status = "stored"
      BY <1>5, <1>7, <3>1
    <3>2. CASE ~(m.reply = i /\ m.status = "stored")
      BY <1>5, <3>2
    <3> QED
      BY <3>1, <3>2
  <2> QED
    BY <1>9, <2>1, <2>2, <2>3, <2>4 DEF Mailbox!Stand, letters, letters2, stands, stands2
<1> QED
  BY <1>10, <1>11

LEMMA PagesAre ==
  ASSUME TypeOK'
  PROVE  [b \in Boxes |-> entries'[b.agent][b.session]] \in [Boxes -> Seq(Nat)]
<1>1. entries' \in [Agent -> [1..Sessions -> Seq(Nat)]]
  BY DEF TypeOK
<1>2. ASSUME NEW b \in Boxes PROVE entries'[b.agent][b.session] \in Seq(Nat)
  <2>1. b.agent \in Agent /\ b.session \in 1..Sessions
    BY DEF Boxes
  <2>2. entries'[b.agent] \in [1..Sessions -> Seq(Nat)]
    BY <1>1, <2>1
  <2> QED
    BY <2>1, <2>2
<1> QED
  BY <1>2

LEMMA NothingShown ==
  ASSUME TypeOK', UNCHANGED entries
  PROVE  Mailbox!Show
BY PagesAre DEF Mailbox!Show

\* What a loop shows is put on the page of the session it was sent to.
LEMMA ShowPuts ==
  ASSUME IInv, IInv', PagesInv', NEW a \in Agent, NEW i \in DOMAIN msgs, i \in receipted',
         DOMAIN msgs' = DOMAIN msgs, \A j \in DOMAIN msgs : msgs'[j].to = msgs[j].to,
         msgs[i].to.agent = a, msgs[i].to.session = mine[a].session, Show(a, i)
  PROVE  Mailbox!Show
<1> DEFINE x0 == mine[a].session
           pages == [b \in Boxes |-> entries[b.agent][b.session]]
           pages2 == [b \in Boxes |-> entries'[b.agent][b.session]]
           letters == [j \in DOMAIN msgs |-> LetterOf(msgs[j])]
           stands2 == [j \in DOMAIN msgs' |-> StandingOf(msgs'[j], j \in receipted')]
<1>0. pages2 \in [Boxes -> Seq(Nat)]
  BY PagesAre DEF IInv
<1>1. CASE entries' = entries
  BY <1>1, NothingShown DEF IInv
<1>2. CASE entries' # entries
  <2>1. ~Shown(a, x0, i) /\ entries' = [entries EXCEPT ![a][x0] = Append(@, i)]
    BY <1>2 DEF Show
  <2>2. entries \in [Agent -> [1..Sessions -> Seq(Nat)]] /\ x0 \in 1..Sessions
    BY DEF IInv, TypeOK, Bindings
  <2>3. ~Mailbox!OnPage(i)
    BY <2>1, OnPageIs
  <2>4. stands2[i] \in {"taken", "kept", "answered", "dropped"}
    <3>1. msgs' \in Rows /\ i \in DOMAIN msgs' /\ msgs'[i].status # "stored"
      BY DEF IInv, RowsOK, PagesInv, Untaken
    <3>2. stands2[i] \in Mailbox!Standings /\ stands2[i] # "waiting" /\ stands2[i] # "lost"
      BY <3>1, Standings
    <3> QED
      BY <3>2 DEF Mailbox!Standings, Mailbox!Course
  <2>5. ASSUME NEW b \in Boxes
        PROVE  pages2[b] = pages[b]
               \/ (pages2[b] = Append(pages[b], i) /\ letters[i].to = b)
    <3>1. b.agent \in Agent /\ b.session \in 1..Sessions
          /\ b = [agent |-> b.agent, session |-> b.session]
      BY DEF Boxes
    <3>2. CASE b.agent = a /\ b.session = x0
      <4>1. letters[i].to = b
        BY <3>1, <3>2 DEF LetterOf, BoxOf
      <4>2. pages2[b] = Append(pages[b], i)
        BY <2>1, <2>2, <3>1, <3>2
      <4> QED
        BY <4>1, <4>2
    <3>3. CASE ~(b.agent = a /\ b.session = x0)
      BY <2>1, <2>2, <3>1, <3>3
    <3> QED
      BY <3>2, <3>3
  <2> HIDE DEF pages, pages2, letters, stands2
  <2>6. \A b \in Boxes : pages2[b] = pages[b] \/ Mailbox!Puts(b, i)
    BY <2>3, <2>4, <2>5 DEF Mailbox!Puts, pages, pages2, letters, stands2
  <2>7. i \in DOMAIN letters
    BY DEF letters
  <2> QED
    BY <1>0, <2>6, <2>7 DEF Mailbox!Show, pages, pages2, letters
<1> QED
  BY <1>1, <1>2

LEMMA ProceedPuts ==
  ASSUME IInv, IInv', PagesInv', NEW a \in Agent, NEW list \in SUBSET Seen, Proceed(a, list),
         Turns, Readable(a, list)
  PROVE  Mailbox!Show
<1>1. CASE UNCHANGED entries
  BY <1>1, NothingShown DEF IInv
<1>2. ASSUME NEW s \in Newest(list), s.status = "received", Show(a, s.id)
      PROVE  Mailbox!Show
  <2>1. s \in list
    BY DEF Newest
  <2>2. DOMAIN msgs' = DOMAIN msgs /\ \A j \in DOMAIN msgs : msgs'[j].to = msgs[j].to
    BY DEF Turns, Same
  <2>3. /\ s.id \in DOMAIN msgs /\ s.id \in receipted'
        /\ msgs[s.id].to.agent = a /\ msgs[s.id].to.session = mine[a].session
    BY <1>2, <2>1, <2>2 DEF Readable
  <2> QED
    BY <1>2, <2>2, <2>3, ShowPuts
<1> QED
  BY <1>1, <1>2 DEF Proceed

LEMMA MailboxShows ==
  ASSUME IInv, IInv', PagesInv, PagesInv', [Next]_vars
  PROVE  Mailbox!Show
<1> USE DEF sender, adapter
<1>1. UNCHANGED entries => Mailbox!Show
  BY NothingShown DEF IInv
<1>2. CASE UNCHANGED vars
  BY <1>1, <1>2 DEF vars
<1>3. ASSUME NEW r \in Request, Send(r) PROVE Mailbox!Show
  BY <1>1, <1>3 DEF Send, Stores
<1>4. ASSUME NEW k \in Ask, AskTask(k) \/ PublishAskReply(k) PROVE Mailbox!Show
  BY <1>1, <1>4 DEF AskTask, PublishAskReply
<1>5. ASSUME NEW a \in Agent, Reload(a) \/ Rebind(a) \/ FallSilent(a) \/ Refresh(a)
                              \/ Heartbeat(a) \/ PollReads(a) \/ ReceiptFails(a)
      PROVE  Mailbox!Show
  BY <1>1, <1>5 DEF Reload, Rebind, FallSilent, Refresh, Heartbeat, PollReads, ReceiptFails
<1>6. ASSUME NEW a \in Agent, NEW x \in 1..Sessions, ChangeSession(a, x) PROVE Mailbox!Show
  BY <1>1, <1>6 DEF ChangeSession
<1>7. Grown
  BY EveryRowsStep DEF RowsStep
<1>8. ASSUME NEW a \in Agent
      PROVE  Readable(a, inbox[a].list) /\ inbox[a].list \in SUBSET Seen
  BY <1>7, BeforeReadable, ShownTypes DEF Loops
<1>9. ASSUME NEW a \in Agent, PollUses(a) PROVE Mailbox!Show
  <2>1. Turns
    BY <1>9 DEF PollUses, Turns, Turn, Same
  <2> QED
    BY <1>8, <1>9, <2>1, ProceedPuts DEF PollUses
<1>10. ASSUME NEW a \in Agent, Served(a) PROVE Turns
  BY <1>10, ServedTurns DEF PagesInv
<1>11. ASSUME NEW a \in Agent, ReceivedServed(a) PROVE Mailbox!Show
  <2> DEFINE list == (inbox[a].list \ Newest(inbox[a].list)) \cup
                     {[id |-> s.id, status |-> "received"] : s \in Newest(inbox[a].list)}
  <2>1. Proceed(a, list) /\ Served(a)
    BY <1>11 DEF ReceivedServed
  <2>2. list \in SUBSET Seen /\ Readable(a, list)
    BY <1>7, <2>1, ReceivedReadable
  <2> HIDE DEF list
  <2> QED
    BY <1>10, <2>1, <2>2, ProceedPuts
<1>12. ASSUME NEW a \in Agent, RecordedServed(a) PROVE Mailbox!Show
  <2>1. Readable(a, inbox[a].list \ Newest(inbox[a].list))
        /\ inbox[a].list \ Newest(inbox[a].list) \in SUBSET Seen
    BY <1>8 DEF Readable
  <2> QED
    BY <1>10, <1>12, <2>1, ProceedPuts DEF RecordedServed
<1>13. CASE Tick \/ ServeLate
  BY <1>1, <1>13 DEF Tick, Expire, ServeLate
<1> QED
  BY <1>2, <1>3, <1>4, <1>5, <1>6, <1>9, <1>11, <1>12, <1>13 DEF Next, Poll

LEMMA MailboxStep ==
  ASSUME IInv, IInv', PagesInv, PagesInv', [Next]_vars
  PROVE  Mailbox!Next
<1>1. Mailbox!Post /\ Mailbox!Stand
  BY StepRows, TurnsPost, PostedPost
<1>2. Mailbox!Show
  BY MailboxShows
<1> QED
  BY <1>1, <1>2 DEF Mailbox!Next

\* What an adapter remembers to have shown is in its session, across reloads, lost
\* receipts and changes of session, and no row goes back to stored.
THEOREM PagesInvariant == Spec => [](IInv /\ PagesInv)
<1>1. Init => IInv /\ PagesInv
  BY InitIInv, PagesInit
<1>2. IInv /\ IInv' /\ PagesInv /\ [Next]_vars => (IInv /\ PagesInv)'
  BY PagesStep
<1> QED
  BY <1>1, <1>2, InductiveInvariant, PTL DEF Spec

\* Messages are letters as Mailbox has them, whatever happens to requests, identities,
\* polls and receipts: scheduler/messages.go and the inbox loop of invocation.ts
\* together keep what a mailbox promises.
THEOREM Letters == Spec => ImplementsMailbox
<1>1. Init => Mailbox!Init
  BY MailboxInit
<1>2. IInv /\ IInv' /\ PagesInv /\ PagesInv' /\ [Next]_vars => [Mailbox!Next]_(Mailbox!vars)
  BY MailboxStep
<1>3. Spec => Mailbox!Spec
  BY <1>1, <1>2, PagesInvariant, PTL DEF Spec, Mailbox!Spec
<1> QED
  BY <1>3 DEF ImplementsMailbox
=================================================================================
