------------------------------ MODULE TeamMessages ------------------------------
(***************************************************************************)
(* Notices, replies and the answers of managed questions between agents:   *)
(* the messages of the controller (scheduler/messages.go) with the         *)
(* identities they are frozen to, and the inbox loop of every receiver     *)
(* (extension/invocation.ts).                                              *)
(*                                                                         *)
(* The question the module answers: requests are repeated, receipts are    *)
(* lost or late, sessions change and agents fall silent between a read of  *)
(* the inbox and its use.  Is a message stored once, shown once, in the    *)
(* session it was sent to, and never after it was given up?  Does every    *)
(* message that waits come to an end?                                      *)
(*                                                                         *)
(* Abstractions.  A binding is an agent with its session and epoch; the    *)
(* runtime does not change.  A session starts and registers in one step:   *)
(* until it has registered the adapter has no binding and reads nothing.   *)
(* The inbox shows all messages, not the newest hundred.  A managed        *)
(* question is its two bindings and whether it was answered; its Task is   *)
(* in TaskTree.  A sender reads its target and sends in one step: send     *)
(* refuses any binding but the current one, which no later one equals.     *)
(* A receipt is answered as it is served, or never.  Time is the choice,   *)
(* at every Tick, of what has expired.                                     *)
(***************************************************************************)
EXTENDS Integers, Sequences, FiniteSets

CONSTANTS
  Agent,
  Request,      \* the requests to send, each with the id it is repeated with
  Ask,          \* the managed questions
  from, to,     \* the agents of a request, asker and asked of a question
  answers,      \* [Request -> Request \cup {None}]: what a reply replies to
  None,
  QueueLimit,   \* open messages to one agent; 32 in the code
  Sessions,     \* bound of the model: the sessions an agent can be in, 1..Sessions
  Restless,     \* bound of the model: the agents that reload, change or lose receipts
  MaxMessages,  \* bound of the model: messages
  MaxMishaps    \* bound of the model: changes of identity, reloads, silences and
                \* lost receipts, of all agents together

ASSUME MessagesAssumption ==
  /\ Request \cap Ask = {} /\ None \notin Request
  /\ from \in [Request \cup Ask -> Agent] /\ to \in [Request \cup Ask -> Agent]
  /\ answers \in [Request -> Request \cup {None}]
  /\ Restless \subseteq Agent /\ QueueLimit \in Nat /\ Sessions \in Nat \ {0}
  /\ MaxMessages \in Nat /\ MaxMishaps \in Nat

VARIABLES
  inst,       \* [Agent -> record]: session, epoch and presence, instances
  msgs,       \* the messages table, in the order of rowid
  memo,       \* the idempotency table: [Request -> message, 0 if none]
  receipted,  \* the message_receipt events: messages with an accepted receipt
  ask,        \* [Ask -> record]: the bindings of a question, and its state
  mine,       \* [Agent -> binding]: what the adapter takes for its own
  inbox,      \* [Agent -> record]: where the inbox loop is
  known,      \* [Agent -> set]: recordedNotices, lost with the extension
  entries,    \* [Agent -> [session -> Seq(message)]]: pi-squad-notice entries
  late,       \* receipts that were given up but may still be served
  mishaps     \* how many there have been

sender == <<memo, ask>>
adapter == <<mine, inbox, known, entries, late>>
vars == <<inst, msgs, memo, receipted, ask, mine, inbox, known, entries, late, mishaps>>

-----------------------------------------------------------------------------
Open == {"stored", "received"}
Dead == {"offline", "session_changed", "expired"}
Statuses == Open \cup Dead \cup {"recorded", "replied"}

Bindings == [agent : Agent, session : 1..Sessions, epoch : 0..MaxMishaps]
Messages == [req : Request \cup Ask, from : Bindings, to : Bindings, reply : Nat,
             status : Statuses]
Seen == [id : Nat, status : Statuses]
Receipts == [id : Nat, status : {"received", "recorded"}, by : Bindings]

Binding(a) == [agent |-> a, session |-> inst[a].session, epoch |-> inst[a].epoch]
Unasked == [state |-> "none", from |-> None, to |-> None]
Resting == [at |-> "idle", list |-> {}]

\* The loop takes the newest message first: the one in this set, or none.
Newest(list) == {s \in list : \A u \in list : u.id =< s.id}

TypeOK ==
  /\ inst \in [Agent -> [session : 1..Sessions, epoch : 0..MaxMishaps, online : BOOLEAN]]
  /\ msgs \in Seq(Messages)
  /\ memo \in [Request -> Nat]
  /\ receipted \subseteq DOMAIN msgs
  /\ ask \in [Ask -> [state : {"none", "asked", "answered"}, from : Bindings \cup {None},
                      to : Bindings \cup {None}]]
  /\ mine \in [Agent -> Bindings]
  /\ inbox \in [Agent -> [at : {"idle", "read", "receiving", "recording"}, list : SUBSET Seen]]
  /\ known \in [Agent -> SUBSET Nat]
  /\ entries \in [Agent -> [1..Sessions -> Seq(Nat)]]
  /\ late \in SUBSET Receipts
  /\ mishaps \in 0..MaxMishaps

Init ==
  /\ inst = [a \in Agent |-> [session |-> 1, epoch |-> 0, online |-> TRUE]]
  /\ msgs = <<>>
  /\ memo = [r \in Request |-> 0]
  /\ receipted = {}
  /\ ask = [k \in Ask |-> Unasked]
  /\ mine = [a \in Agent |-> Binding(a)]
  /\ inbox = [a \in Agent |-> Resting]
  /\ known = [a \in Agent |-> {}]
  /\ entries = [a \in Agent |-> [x \in 1..Sessions |-> <<>>]]
  /\ late = {} /\ mishaps = 0

\* The header of every call of a runtime must be its current binding.
Principal(a) == mine[a] = Binding(a)

-----------------------------------------------------------------------------
(* Sending.                                                                *)

\* A reply goes from and to the participants of a message that has been received.
Replies(r, id) ==
  /\ msgs[id].req = answers[r] /\ msgs[id].reply = 0
  /\ msgs[id].to = Binding(from[r]) /\ msgs[id].from = Binding(to[r])
  /\ msgs[id].status \in {"received", "recorded"}

QueuedFor(a) == {i \in DOMAIN msgs : msgs[i].to.agent = a /\ msgs[i].status \in Open}

MarkedNot(id) == msgs

\* The original is marked in the transaction of a reply that is not offline.
Marked(id) == IF id = 0 THEN msgs ELSE [msgs EXCEPT ![id].status = "replied"]

\* A message to an agent that is not heard of is stored all the same.
Stores(r) ==
  /\ Principal(from[r]) /\ Len(msgs) < MaxMessages
  /\ \E id \in 0..Len(msgs) :
       /\ IF answers[r] = None THEN id = 0 ELSE id # 0 /\ Replies(r, id)
       /\ LET online == inst[to[r]].online IN
          /\ online => Cardinality(QueuedFor(to[r])) < QueueLimit
          /\ msgs' = Append(IF online THEN Marked(id) ELSE msgs,
                            [req |-> r, from |-> Binding(from[r]), to |-> Binding(to[r]),
                             reply |-> id,
                             status |-> IF online THEN "stored" ELSE "offline"])
  /\ UNCHANGED <<inst, receipted, ask, adapter, mishaps>>

SendUnremembered(r) == Stores(r) /\ UNCHANGED memo

\* Repeating a request that was remembered changes nothing.
Send(r) == memo[r] = 0 /\ Stores(r) /\ memo' = [memo EXCEPT ![r] = Len(msgs')]

\* A managed question is a Task between two bindings.
AskTask(k) ==
  /\ ask[k].state = "none" /\ Principal(from[k])
  /\ ask' = [ask EXCEPT ![k] = [state |-> "asked", from |-> Binding(from[k]),
                                to |-> Binding(to[k])]]
  /\ UNCHANGED <<inst, msgs, memo, receipted, adapter, mishaps>>

\* publishAskReply, when the Task is completed by the binding it was given to.
\* It asks neither whether the asker is online nor whether its queue is full.
PublishAskReply(k) ==
  /\ ask[k].state = "asked" /\ ask[k].to = Binding(to[k])
  /\ Len(msgs) < MaxMessages
  /\ msgs' = Append(msgs, [req |-> k, from |-> ask[k].to, to |-> ask[k].from, reply |-> 0,
                           status |-> "stored"])
  /\ ask' = [ask EXCEPT ![k].state = "answered"]
  /\ UNCHANGED <<inst, memo, receipted, adapter, mishaps>>

-----------------------------------------------------------------------------
(* Identity and presence.                                                  *)

Mishap(a) == a \in Restless /\ mishaps < MaxMishaps /\ mishaps' = mishaps + 1

\* invalidateMessages: what is open to or from the session of b.
Touches(m, b) ==
  \/ m.to.agent = b.agent /\ m.to.session = b.session
  \/ m.from.agent = b.agent /\ m.from.session = b.session
Invalidated(table, b, status) ==
  [i \in DOMAIN table |-> IF table[i].status \in Open /\ Touches(table[i], b)
                          THEN [table[i] EXCEPT !.status = status] ELSE table[i]]

\* What an agent that has been silent finds when it is heard of again.
Woken(a) == IF inst[a].online THEN msgs ELSE Invalidated(msgs, Binding(a), "offline")

\* A call the adapter waits for may still be served.
InFlight(a) ==
  IF inbox[a].at \in {"receiving", "recording"}
  THEN {[id |-> s.id, by |-> mine[a],
         status |-> IF inbox[a].at = "receiving" THEN "received" ELSE "recorded"] :
          s \in Newest(inbox[a].list)}
  ELSE {}

\* The extension starts anew: what it remembered is gone, the session is not.
Restarted(a) ==
  /\ inbox' = [inbox EXCEPT ![a] = Resting]
  /\ known' = [known EXCEPT ![a] = {}]
  /\ late' = late \cup InFlight(a)

\* Register, from the session the agent is in: nothing but presence changes.
Reload(a) ==
  /\ Mishap(a)
  /\ msgs' = Woken(a)
  /\ inst' = [inst EXCEPT ![a].online = TRUE]
  /\ mine' = [mine EXCEPT ![a] = Binding(a)]
  /\ Restarted(a)
  /\ UNCHANGED <<receipted, sender, entries>>

\* Register, from another session, new or resumed.
ChangeSession(a, x) ==
  /\ x # inst[a].session /\ Mishap(a)
  /\ msgs' = Invalidated(Woken(a), Binding(a), "session_changed")
  /\ inst' = [inst EXCEPT ![a] = [session |-> x, epoch |-> @.epoch + 1, online |-> TRUE]]
  /\ mine' = [mine EXCEPT ![a] = [agent |-> a, session |-> x, epoch |-> inst[a].epoch + 1]]
  /\ Restarted(a)
  /\ UNCHANGED <<receipted, sender, entries>>

\* Promotion and release of a Primary: the adapter still has the old binding.
Rebind(a) ==
  /\ Mishap(a)
  /\ inst' = [inst EXCEPT ![a].epoch = @ + 1]
  /\ UNCHANGED <<msgs, receipted, sender, adapter>>

\* A heartbeat that is refused makes the poll look up its binding.
Refresh(a) ==
  /\ ~Principal(a) /\ inbox[a].at = "idle"
  /\ mine' = [mine EXCEPT ![a] = Binding(a)]
  /\ msgs' = Woken(a)
  /\ inst' = [inst EXCEPT ![a].online = TRUE]
  /\ UNCHANGED <<receipted, sender, inbox, known, entries, late, mishaps>>

\* Heartbeats fail to arrive for longer than the timeout.
FallSilent(a) ==
  /\ inst[a].online /\ Mishap(a)
  /\ inst' = [inst EXCEPT ![a].online = FALSE]
  /\ UNCHANGED <<msgs, receipted, sender, adapter>>

Heartbeat(a) ==
  /\ ~inst[a].online /\ Principal(a) /\ inbox[a].at = "idle"
  /\ msgs' = Woken(a)
  /\ inst' = [inst EXCEPT ![a].online = TRUE]
  /\ UNCHANGED <<receipted, sender, adapter, mishaps>>

\* expireMessages: what of the open messages is given up, those in old because
\* their time is over.
GivenUp(m, isOld) ==
  CASE m.to # Binding(m.to.agent)   -> "session_changed"
    [] ~inst[m.to.agent].online     -> "offline"
    [] isOld                        -> "expired"
    [] OTHER                        -> m.status

Expire(old) ==
  /\ msgs' = [i \in DOMAIN msgs |-> IF msgs[i].status \in Open
                THEN [msgs[i] EXCEPT !.status = GivenUp(msgs[i], i \in old)] ELSE msgs[i]]
  /\ UNCHANGED <<inst, receipted, sender, adapter, mishaps>>

Tick == \E old \in SUBSET {i \in DOMAIN msgs : msgs[i].status \in Open} : Expire(old)

-----------------------------------------------------------------------------
(* Receipts.                                                               *)

AcceptsGivenUp(q) == q.by = Binding(q.by.agent) /\ msgs[q.id].to = q.by

\* Receipt: only the exact target, and one step at a time.
Accepts(q) ==
  /\ q.by = Binding(q.by.agent) /\ msgs[q.id].to = q.by
  /\ \/ msgs[q.id].status = "stored" /\ q.status = "received"
     \/ msgs[q.id].status = "received" /\ q.status = "recorded"
     \/ msgs[q.id].status = q.status

Handle(q) ==
  IF Accepts(q)
  THEN /\ msgs' = [msgs EXCEPT ![q.id].status = q.status]
       /\ receipted' = receipted \cup {q.id}
  ELSE UNCHANGED <<msgs, receipted>>

ServeLate ==
  \E q \in late :
    /\ Handle(q) /\ late' = late \ {q}
    /\ UNCHANGED <<inst, sender, mine, inbox, known, entries, mishaps>>

-----------------------------------------------------------------------------
(* The inbox loop of a receiver.                                           *)

Listed(a, statuses) ==
  {[id |-> i, status |-> msgs[i].status] :
     i \in {j \in DOMAIN msgs : msgs[j].status \in statuses /\ msgs[j].to = Binding(a)}}

InboxUnread(a) == Listed(a, {"stored"})

\* Inbox, and what the loop passes over in it.
Inbox(a) == Listed(a, Open)

PollReads(a) ==
  /\ inbox[a].at = "idle" /\ Principal(a) /\ Inbox(a) # {}
  /\ inbox' = [inbox EXCEPT ![a] = [at |-> "read", list |-> Inbox(a)]]
  /\ UNCHANGED <<inst, msgs, receipted, sender, mine, known, entries, late, mishaps>>

\* The entry is written unless this extension has, or the session has it.
Shown(a, x, i) == \E k \in DOMAIN entries[a][x] : entries[a][x][k] = i
ShowAsRemembered(a, i) ==
  /\ known' = [known EXCEPT ![a] = @ \cup {i}]
  /\ entries' = IF i \in known[a] THEN entries
                ELSE [entries EXCEPT ![a][mine[a].session] = Append(@, i)]

Show(a, i) ==
  /\ known' = [known EXCEPT ![a] = @ \cup {i}]
  /\ entries' = IF i \in known[a] \/ Shown(a, mine[a].session, i) THEN entries
                ELSE [entries EXCEPT ![a][mine[a].session] = Append(@, i)]

\* The loop has list before it: it ends, or shows what has been received, or asks
\* for a receipt first.
Proceed(a, list) ==
  \/ /\ list = {}
     /\ inbox' = [inbox EXCEPT ![a] = Resting] /\ UNCHANGED <<known, entries>>
  \/ \E s \in Newest(list) :
       /\ s.status = "received" /\ Show(a, s.id)
       /\ inbox' = [inbox EXCEPT ![a] = [at |-> "recording", list |-> list]]
  \/ \E s \in Newest(list) :
       /\ s.status # "received"
       /\ inbox' = [inbox EXCEPT ![a] = [at |-> "receiving", list |-> list]]
       /\ UNCHANGED <<known, entries>>

PollUses(a) ==
  /\ inbox[a].at = "read" /\ Proceed(a, inbox[a].list)
  /\ UNCHANGED <<inst, msgs, receipted, sender, mine, late, mishaps>>

\* The receipt is served, and its answer lets the loop go on.
Served(a) == \E q \in InFlight(a) : Accepts(q) /\ Handle(q)

ReceivedServed(a) ==
  /\ inbox[a].at = "receiving" /\ Served(a)
  /\ LET list == inbox[a].list IN
     Proceed(a, (list \ Newest(list)) \cup
                {[id |-> s.id, status |-> "received"] : s \in Newest(list)})
  /\ UNCHANGED <<inst, sender, mine, late, mishaps>>

RecordedServed(a) ==
  /\ inbox[a].at = "recording" /\ Served(a)
  /\ Proceed(a, inbox[a].list \ Newest(inbox[a].list))
  /\ UNCHANGED <<inst, sender, mine, late, mishaps>>

\* A receipt that is refused, or that nothing answers in five seconds, ends the loop
\* of this poll; nothing answers when the call or the answer is lost.
ReceiptFails(a) ==
  /\ inbox[a].at \in {"receiving", "recording"}
  /\ \/ (\A q \in InFlight(a) : ~Accepts(q)) /\ UNCHANGED <<late, mishaps>>
     \/ Mishap(a) /\ late' = late \cup InFlight(a)
  /\ inbox' = [inbox EXCEPT ![a] = Resting]
  /\ UNCHANGED <<inst, msgs, receipted, sender, mine, known, entries>>

-----------------------------------------------------------------------------
Poll(a) ==
  \/ PollReads(a) \/ PollUses(a) \/ ReceivedServed(a) \/ RecordedServed(a)
  \/ ReceiptFails(a) \/ Refresh(a) \/ Heartbeat(a)

Next ==
  \/ \E r \in Request : Send(r)
  \/ \E k \in Ask : AskTask(k) \/ PublishAskReply(k)
  \/ \E a \in Agent :
       \/ Reload(a) \/ Rebind(a) \/ FallSilent(a) \/ Poll(a)
       \/ \E x \in 1..Sessions : ChangeSession(a, x)
  \/ Tick \/ ServeLate

Spec == Init /\ [][Next]_vars

\* The controller ticks, the timer of every adapter polls.  No message is helped by
\* its expiry: the ten minutes need not pass.
Fairness == WF_vars(Expire({})) /\ \A a \in Agent : WF_vars(Poll(a))

FairSpec == Spec /\ Fairness

-----------------------------------------------------------------------------
(* Properties.                                                             *)

\* A request, however often it is repeated, and from whatever session, stores one
\* message.
StoredOnce ==
  \A i, j \in DOMAIN msgs : msgs[i].req \in Request /\ msgs[i].req = msgs[j].req => i = j

\* A message is shown in no session but the one it was sent to, there at most once
\* although the extension forgets and receipts are lost, and only after the
\* controller has accepted a receipt for it: what was offline or given up before
\* is never shown.
ShownRightly ==
  \A a \in Agent, x \in 1..Sessions : \A k \in DOMAIN entries[a][x] :
    LET i == entries[a][x][k] IN
    /\ i \in receipted
    /\ msgs[i].to.agent = a /\ msgs[i].to.session = x
    /\ \A l \in DOMAIN entries[a][x] : entries[a][x][l] = i => l = k

\* Of the replies to one message at most one was not offline from the start, and
\* only such a reply can be shown.
OneReply ==
  \A i, j \in DOMAIN msgs :
    /\ i # j /\ msgs[i].reply = msgs[j].reply /\ msgs[i].reply # 0
    => "offline" \in {msgs[i].status, msgs[j].status}

\* A message that waits does not wait for the ten minutes to pass: either the polls
\* of its receiver bring it to an end, whatever else is in the inbox and whichever
\* receipts were lost, or the controller finds that the receiver is gone.
Waits(i) == i \in DOMAIN msgs /\ msgs[i].status \in Open
NoneWaits == \A i \in 1..MaxMessages : Waits(i) ~> ~Waits(i)

-----------------------------------------------------------------------------
(* Mailbox: a box is an agent in a session.  What became of a message that *)
(* was given up depends on whether a receipt had been accepted before.     *)

Boxes == [agent : Agent, session : 1..Sessions]
BoxOf(b) == [agent |-> b.agent, session |-> b.session]

LetterOf(m) == [item |-> m.req, from |-> BoxOf(m.from), to |-> BoxOf(m.to), re |-> m.reply]

StandingOf(m, accepted) ==
  CASE m.status = "stored"   -> "waiting"
    [] m.status = "received" -> "taken"
    [] m.status = "recorded" -> "kept"
    [] m.status = "replied"  -> "answered"
    [] OTHER                 -> IF accepted THEN "dropped" ELSE "lost"

Mailbox == INSTANCE Mailbox WITH
  Box <- Boxes, Item <- Request \cup Ask, Single <- Request,
  letter <- [i \in DOMAIN msgs |-> LetterOf(msgs[i])],
  standing <- [i \in DOMAIN msgs |-> StandingOf(msgs[i], i \in receipted)],
  page <- [b \in Boxes |-> entries[b.agent][b.session]]

\* Whatever is lost, repeated, late or forgotten on the way, messages are letters as
\* Mailbox has them: of every end there is no return, a reply marks its original as it
\* is stored, nothing comes to a session that was given up before it was received, and
\* what the controller calls recorded is in the session.
ImplementsMailbox == Mailbox!Spec
=================================================================================
