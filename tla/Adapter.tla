--------------------------------- MODULE Adapter ---------------------------------
(***************************************************************************)
(* The Pi adapter of one agent (pi_squad/extension: invocation,            *)
(* execution-gate, team-client) against the Attempts the controller gives  *)
(* it, over HTTP calls that are slow, lost, or served after the adapter    *)
(* has given them up.                                                      *)
(*                                                                         *)
(* The question the module answers: adapter and controller never share a   *)
(* state, only stale copies of it.  Is an input run only after it was      *)
(* announced, a tool allowed only while the agent is still reserved for    *)
(* the Attempt, a release given only when nothing runs, and does an        *)
(* Attempt that was stopped get released at all?                           *)
(*                                                                         *)
(* Abstractions.  One runtime with one session; what happens when either   *)
(* changes is in Execution, and why the controller quarantines is too.     *)
(* JavaScript runs from one await to the next without interruption: such a *)
(* stretch is one action.  A heartbeat matters when no Attempt is retained *)
(* and a GET when one is: both fail alike, so a poll has one of the two.   *)
(* Reads are answered as they are asked and used when they return.  The    *)
(* adapter's own look at its lease only closes the gate earlier, and is    *)
(* left out; so is what an input that escaped the gate does when it ends.  *)
(* Revisions count within a segment.  The model tells completed or asks to *)
(* wait at most once in a turn, and the next input waits until the hook of *)
(* the earlier one has returned.                                           *)
(***************************************************************************)
EXTENDS Integers, Sequences

CONSTANTS
  segments,     \* bound of the model: the segments of each Attempt of the agent
  Troubled,     \* bound of the model: the Attempts that meet with any of the following
  MaxMishaps    \* bound of the model: calls given up and dialogs, together

ASSUME AdapterAssumption ==
  segments \in Seq(Nat \ {0}) /\ MaxMishaps \in Nat

VARIABLES
  ctl,      \* the newest Attempt of the agent, and what is reserved for it
  gate,     \* ExecutionGate: current (a copy of an Attempt), frozen, injected
  pi,       \* the session: whose turn it is, and of which segment
  poll,     \* the poll: where it is, and whether its fence holds
  work,     \* the input hook, tools and settled callback of the turn
  call,     \* [Proc -> record]: the call each of the three waits for
  late,     \* calls that were given up but may still be served
  mishaps   \* how many calls were given up and dialogs begun

vars == <<ctl, gate, pi, poll, work, call, late, mishaps>>

-----------------------------------------------------------------------------
Proc == {"poll", "work", "user"}
States == {"none", "admitted", "running", "result_proposed", "suspended", "quarantined",
           "settled"}
Receipts == {"dispatch_intent", "adapter_received", "injection_requested", "input_observed"}
Events == {"adapter_received", "injection_requested", "input_observed", "deferred",
           "result_proposed", "yield", "completed", "aborted"}
Reads == {"attempt", "dispatches", "briefing", "confirm"}

\* end is why the Attempt is released.
Attempts ==
  [id : Nat, seg : Nat, rev : Nat, state : States, receipt : Receipts, yield : BOOLEAN,
   end : {"none", "released", "attested"}]

Copies == [id : Nat, seg : Nat, rev : Nat, state : States, ended : BOOLEAN]
NoCopy == [id |-> 0, seg |-> 0, rev |-> 0, state |-> "none", ended |-> FALSE]

Requests == [kind : Events \cup Reads \cup {"interruption", "stopped", "none"},
             id : Nat, seg : Nat, rev : Nat]
NoRequest == [kind |-> "none", id |-> 0, seg |-> 0, rev |-> 0]

\* at is the segment the fence of an event was taken for, from is that fence.
Calls == [stage : {"none", "queued", "sent", "served"}, request : Requests,
          ok : BOOLEAN, reply : Copies]
NoCall == [stage |-> "none", request |-> NoRequest, ok |-> FALSE, reply |-> NoCopy]

TypeOK ==
  /\ ctl \in Attempts
  /\ gate \in [current : Copies, frozen : BOOLEAN, injected : SUBSET (Nat \X Nat)]
  /\ pi \in [turn : {"none", "input", "formal"}, id : Nat, seg : Nat,
             aborted : BOOLEAN, told : BOOLEAN,
             dialog : BOOLEAN]
  /\ poll \in [at : {"idle", "attempt", "dispatches", "received", "gate",
                     "injection", "deferring", "confirm", "stop"}, ok : BOOLEAN]
  /\ work \in [at : {"none", "observe", "tool", "settling", "settle"}, ok : BOOLEAN, id : Nat, seg : Nat]
  /\ call \in [Proc -> Calls]
  /\ late \in SUBSET Requests
  /\ mishaps \in 0..MaxMishaps

NoAttempt == [id |-> 0, seg |-> 0, rev |-> 0, state |-> "none", receipt |-> "dispatch_intent",
              yield |-> FALSE, end |-> "released"]
NoWork == [at |-> "none", ok |-> FALSE, id |-> 0, seg |-> 0]
NoTurn == [turn |-> "none", id |-> 0, seg |-> 0, aborted |-> FALSE, told |-> FALSE,
           dialog |-> FALSE]
Resting == [at |-> "idle", ok |-> FALSE]

Init ==
  /\ ctl = NoAttempt
  /\ gate = [current |-> NoCopy, frozen |-> FALSE, injected |-> {}]
  /\ pi = NoTurn
  /\ poll = Resting
  /\ work = NoWork
  /\ call = [p \in Proc |-> NoCall]
  /\ late = {} /\ mishaps = 0

Retained == gate.current.id # 0
Reserved == ctl.end = "none"

\* ctx.isIdle(): no turn has begun.  The hook of an input runs before it.
Idle == pi.turn \in {"none", "input"}
\* Mutant: a turn that runs is not looked at.
LocalIdleBlind == ~pi.dialog

LocalIdle == Idle /\ ~pi.dialog

-----------------------------------------------------------------------------
(* The controller.                                                         *)

\* startAttempt.
Admit ==
  /\ ~Reserved /\ ctl.id < Len(segments)
  /\ ctl' = [NoAttempt EXCEPT !.id = ctl.id + 1, !.seg = 1, !.rev = 1,
                              !.state = "admitted", !.end = "none"]

\* resumeReady.
Continue ==
  /\ Reserved /\ ctl.state = "suspended" /\ ctl.seg < segments[ctl.id]
  /\ ctl' = [ctl EXCEPT !.seg = @ + 1, !.rev = 1, !.state = "admitted",
                        !.receipt = "dispatch_intent", !.yield = FALSE]

\* Mutant: the reservation is given up with the quarantine.
QuarantineReleasing ==
  /\ Reserved /\ ctl.state # "quarantined" /\ ctl.id \in Troubled
  /\ ctl' = [ctl EXCEPT !.state = "quarantined", !.rev = 0, !.end = "released"]

\* A deadline, a lease that has passed, a restart, a cancellation after the
\* input was announced.
Quarantine ==
  /\ Reserved /\ ctl.state # "quarantined" /\ ctl.id \in Troubled
  /\ ctl' = [ctl EXCEPT !.state = "quarantined", !.rev = @ + 1]

\* cancelTask, before the input was announced or between two segments.
CancelAtOnce ==
  /\ Reserved /\ ctl.id \in Troubled
  /\ ctl.receipt \in {"dispatch_intent", "adapter_received"} \/ ctl.state = "suspended"
  /\ ctl' = [ctl EXCEPT !.state = "quarantined", !.rev = 0, !.end = "released"]

\* The operator attests that the execution has stopped.
Attest ==
  /\ Reserved /\ ctl.id \in Troubled
  /\ ctl' = [ctl EXCEPT !.state = "quarantined", !.rev = 0, !.end = "attested"]

\* AttemptEvent: what is refused, and what an event does.
Accepted(r) ==
  /\ r.id = ctl.id /\ r.seg = ctl.seg /\ r.rev = ctl.rev
  /\ Reserved /\ ctl.state # "quarantined"
  /\ r.kind = "adapter_received" => ctl.receipt = "dispatch_intent"
  /\ r.kind = "injection_requested" => ctl.receipt = "adapter_received"
  /\ r.kind = "input_observed" => ctl.receipt = "injection_requested"
  /\ r.kind = "deferred" => ctl.receipt # "input_observed"
  /\ r.kind \in {"result_proposed", "yield"} => ctl.state = "running"

Settled ==
  IF ctl.yield THEN [ctl EXCEPT !.state = "suspended"]
  ELSE IF ctl.state = "result_proposed" THEN [ctl EXCEPT !.state = "settled", !.end = "released"]
  ELSE [ctl EXCEPT !.state = "quarantined"]

\* Mutant: the request to inject is not recorded.
EffectUnrecorded(kind) ==
  CASE kind = "adapter_received" -> [ctl EXCEPT !.receipt = kind]
    [] kind = "injection_requested" -> ctl
    [] kind = "input_observed"  -> [ctl EXCEPT !.receipt = kind, !.state = "running"]
    [] kind = "deferred"        -> [ctl EXCEPT !.state = "suspended"]
    [] kind = "result_proposed" -> [ctl EXCEPT !.state = kind]
    [] kind = "yield"           -> [ctl EXCEPT !.yield = TRUE]
    [] kind = "completed"       -> Settled
    [] kind = "aborted"         -> [ctl EXCEPT !.state = "quarantined", !.end = "released"]

Effect(kind) ==
  CASE kind \in {"adapter_received", "injection_requested"} -> [ctl EXCEPT !.receipt = kind]
    [] kind = "input_observed"  -> [ctl EXCEPT !.receipt = kind, !.state = "running"]
    [] kind = "deferred"        -> [ctl EXCEPT !.state = "suspended"]
    [] kind = "result_proposed" -> [ctl EXCEPT !.state = kind]
    [] kind = "yield"           -> [ctl EXCEPT !.yield = TRUE]
    [] kind = "completed"       -> Settled
    [] kind = "aborted"         -> [ctl EXCEPT !.state = "quarantined", !.end = "released"]

\* Stopped: the evidence must be for the segment the controller knows.
StopAccepted(r) ==
  /\ r.id = ctl.id /\ r.seg = ctl.seg /\ r.rev = ctl.rev
  /\ Reserved /\ ctl.state = "quarantined"

\* Mutant: the revision goes back.
RevisedBack(x) == [x EXCEPT !.rev = IF x.end = "none" THEN @ - 1 ELSE 0]

\* Nothing is accepted for an Attempt that is released.
Revised(x) == [x EXCEPT !.rev = IF x.end = "none" THEN @ + 1 ELSE 0]

\* One transaction: the Attempt after the request r, and whether r was accepted.
Handled(r) ==
  CASE r.kind \in Events /\ Accepted(r) ->
         [ok |-> TRUE, ctl |-> Revised(Effect(r.kind))]
    [] r.kind = "stopped" /\ StopAccepted(r) ->
         [ok |-> TRUE, ctl |-> Revised([ctl EXCEPT !.end = "released"])]
    [] r.kind = "interruption" ->
         [ok |-> TRUE, ctl |-> IF Reserved THEN [ctl EXCEPT !.state = "quarantined", !.rev = @ + 1]
                                           ELSE ctl]
    [] OTHER -> [ok |-> FALSE, ctl |-> ctl]

\* What an answer tells of the Attempt i.
Copy(x, i) ==
  IF x.id = i
  THEN [id |-> i, seg |-> x.seg, rev |-> x.rev, state |-> x.state, ended |-> x.end # "none"]
  ELSE [NoCopy EXCEPT !.id = i, !.ended = TRUE]

Answer(x, r) ==
  IF r.kind = "dispatches" THEN IF Reserved THEN Copy(x, x.id) ELSE NoCopy
  ELSE Copy(x, r.id)

-----------------------------------------------------------------------------
(* Calls.  Events go through the queue of the adapter, one at a time.      *)

\* captureExecutionFence: nothing was invalidated, the segment is the same.
Fence(p) ==
  LET r == call[p].request IN
  /\ CASE p = "poll" -> poll.ok [] p = "work" -> work.ok [] OTHER -> TRUE
  /\ gate.current.id = r.id /\ gate.current.seg = r.seg

\* A read is answered as it is asked: its answer may then be late.  An event is
\* sent at once unless another is under way (serial); its revision is that of the
\* copy, read when it is sent.
InFlight(p) ==
  \E q \in Proc \ {p} :
    call[q].stage \in {"sent", "served"} /\ call[q].request.kind \in Events

Asked(p, kind, c, rev) ==
  LET r == [kind |-> kind, id |-> c.id, seg |-> c.seg, rev |-> rev] IN
  IF kind \in Reads
  THEN [stage |-> "served", request |-> r, ok |-> TRUE, reply |-> Answer(ctl, r)]
  ELSE [NoCall EXCEPT !.stage = IF kind \in Events /\ InFlight(p) THEN "queued" ELSE "sent",
                      !.request = r]

\* p asks for an event or anything else about the Attempt c.
Ask(p, kind, c, rev) == call' = [call EXCEPT ![p] = Asked(p, kind, c, rev)]
Done(p) == call' = [call EXCEPT ![p] = NoCall]

\* The turn of an event in the queue has come.
Send(p) ==
  /\ call[p].stage = "queued" /\ Fence(p)
  /\ ~InFlight(p)
  /\ call' = [call EXCEPT ![p].stage = "sent", ![p].request.rev = gate.current.rev]
  /\ UNCHANGED <<ctl, gate, pi, poll, work, late, mishaps>>

Serve(p) ==
  /\ call[p].stage = "sent"
  /\ LET r == call[p].request
         done == Handled(r) IN
     /\ ctl' = done.ctl
     /\ call' = [call EXCEPT ![p] = [@ EXCEPT !.stage = "served", !.ok = done.ok,
                                              !.request.rev = 0,
                                              !.reply = IF done.ok THEN Answer(done.ctl, r)
                                                        ELSE NoCopy]]
  /\ UNCHANGED <<gate, pi, poll, work, late, mishaps>>

\* A call that was given up may still be served.
ServeLate ==
  \E r \in late :
    /\ late' = late \ {r}
    /\ ctl' = Handled(r).ctl
    /\ UNCHANGED <<gate, pi, poll, work, call, mishaps>>

\* How a call comes back: its answer, a refusal, an unknown outcome after five
\* seconds, or a fence that no longer holds.
Answered(p) == call[p].stage = "served" /\ call[p].ok /\ UNCHANGED <<late, mishaps>>
Refused(p)  == call[p].stage = "served" /\ ~call[p].ok /\ UNCHANGED <<late, mishaps>>
GivenUp(p) ==
  /\ call[p].stage = "sent" \/ call[p].request.kind \in Reads
  /\ mishaps < MaxMishaps /\ ctl.id \in Troubled
  /\ mishaps' = mishaps + 1
  /\ late' = IF call[p].stage = "sent" /\ call[p].request.kind \notin Reads
             THEN late \cup {call[p].request} ELSE late
Failed(p) == Refused(p) \/ GivenUp(p)

\* An event whose fence broke, in the queue or before its answer.
Stale(p) ==
  /\ call[p].request.kind \in Events /\ ~Fence(p)
  /\ call[p].stage = "queued" \/ (call[p].stage = "served" /\ call[p].ok)
  /\ UNCHANGED <<late, mishaps>>
Confirmed(p) == Answered(p) /\ Fence(p)

-----------------------------------------------------------------------------
(* The gate and the session.                                               *)

CanInject(g, d) ==
  /\ ~g.frozen /\ LocalIdle
  /\ <<d.id, d.seg>> \notin g.injected
  /\ g.current.id \in {0, d.id}
  /\ d.state = "admitted"

Rest == [NoTurn EXCEPT !.dialog = pi.dialog]

\* checkTool, for a turn of a formal segment.
Permitted ==
  ~gate.frozen /\ gate.current.state \in {"running", "result_proposed"}

\* context.abort(): the turn will end.
Aborted == IF Idle THEN pi ELSE [pi EXCEPT !.aborted = TRUE]

\* fail(): the gate is closed, what runs for the retained Attempt is aborted.
Fail ==
  /\ gate' = [gate EXCEPT !.frozen = TRUE]
  /\ pi' = IF Retained THEN Aborted ELSE pi

\* invalidate(): closes the gate and breaks every fence.
Frozen(g) == [g EXCEPT !.frozen = TRUE]
Broken(f) == [f EXCEPT !.ok = FALSE]

PollDone == poll' = Resting
PollTo(at) == poll' = [poll EXCEPT !.at = at]

-----------------------------------------------------------------------------
(* The poll.                                                               *)

\* Without a retained Attempt, the heartbeat opens the gate.
PollStarts ==
  /\ poll.at = "idle"
  /\ poll' = [at |-> IF Retained THEN "attempt" ELSE "dispatches", ok |-> TRUE]
  /\ gate' = [gate EXCEPT !.frozen = @ /\ Retained]
  /\ Ask("poll", poll'.at, gate.current, 0)
  /\ UNCHANGED <<ctl, pi, work, late, mishaps>>

\* Mutant: a released Attempt is kept.
AttemptReturnsKeeping ==
  /\ poll.at = "attempt" /\ Answered("poll")
  /\ LET seen == call["poll"].reply
         same == poll.ok /\ gate.current.id = seen.id
                         /\ gate.current.seg = call["poll"].request.seg IN
     IF same /\ ~seen.ended
     THEN /\ PollTo("dispatches") /\ Ask("poll", "dispatches", NoCopy, 0)
          /\ UNCHANGED <<gate, work>>
     ELSE /\ gate' = IF same THEN Frozen(gate) ELSE gate
          /\ work' = IF same /\ ~gate.frozen THEN Broken(work) ELSE work
          /\ PollDone /\ Done("poll")
  /\ UNCHANGED <<ctl, pi>>

\* A released Attempt is let go of, unless something runs.
AttemptReturns ==
  /\ poll.at = "attempt" /\ Answered("poll")
  /\ LET seen == call["poll"].reply
         same == poll.ok /\ gate.current.id = seen.id
                         /\ gate.current.seg = call["poll"].request.seg IN
     IF same /\ ~(seen.ended /\ ~LocalIdle)
     THEN /\ gate' = IF seen.ended THEN [gate EXCEPT !.current = NoCopy, !.frozen = FALSE]
                                   ELSE gate
          /\ PollTo("dispatches") /\ Ask("poll", "dispatches", NoCopy, 0)
          /\ UNCHANGED work
     ELSE /\ gate' = IF same THEN Frozen(gate) ELSE gate
          /\ work' = IF same /\ ~gate.frozen THEN Broken(work) ELSE work
          /\ PollDone /\ Done("poll")
  /\ UNCHANGED <<ctl, pi>>

\* The dispatch is taken: it is current from here on.
TakeDispatch(d) ==
  /\ CanInject(gate, d)
  /\ gate' = [gate EXCEPT !.current = d, !.injected = {k \in @ : k[1] = d.id}]
  /\ PollTo("received") /\ Ask("poll", "adapter_received", d, d.rev)
  /\ UNCHANGED <<pi, work>>

\* Mutant: what runs is not aborted.
StopDispatchUnaborted(d) ==
  /\ d.state = "quarantined" /\ gate.current.id = d.id
  /\ gate' = Frozen(gate) /\ work' = Broken(work)
  /\ UNCHANGED pi
  /\ IF LocalIdle THEN poll' = [at |-> "confirm", ok |-> TRUE] /\ Ask("poll", "confirm", gate.current, 0)
             ELSE PollDone /\ Done("poll")

\* The retained Attempt has been quarantined: close the gate, then abort what
\* runs or confirm that nothing does.
StopDispatch(d) ==
  /\ d.state = "quarantined" /\ gate.current.id = d.id
  /\ gate' = Frozen(gate) /\ work' = Broken(work)
  /\ pi' = Aborted
  /\ IF LocalIdle THEN poll' = [at |-> "confirm", ok |-> TRUE] /\ Ask("poll", "confirm", gate.current, 0)
             ELSE PollDone /\ Done("poll")

LeaveDispatch(d) ==
  /\ ~CanInject(gate, d) /\ ~(d.state = "quarantined" /\ gate.current.id = d.id)
  /\ PollDone /\ Done("poll")
  /\ UNCHANGED <<gate, pi, work>>

DispatchesReturn ==
  /\ poll.at = "dispatches" /\ Answered("poll")
  /\ LET d == call["poll"].reply IN
     IF poll.ok /\ d.id # 0
     THEN TakeDispatch(d) \/ StopDispatch(d) \/ LeaveDispatch(d)
     ELSE PollDone /\ Done("poll") /\ UNCHANGED <<gate, pi, work>>
  /\ UNCHANGED ctl

\* Then the briefing is read, before the gate is looked at again.
ReceivedReturns ==
  /\ poll.at = "received" /\ Confirmed("poll")
  /\ gate' = [gate EXCEPT !.current = call["poll"].reply]
  /\ PollTo("gate") /\ Ask("poll", "briefing", gate.current, 0)
  /\ UNCHANGED <<ctl, pi, work>>

\* What the gate refuses is deferred, unless the gate is closed.
DeferOr(g, Go) ==
  \/ Go
  \/ /\ ~(poll.ok /\ CanInject(g, g.current))
     /\ gate' = g
     /\ IF g.frozen THEN PollDone /\ Done("poll")
        ELSE PollTo("deferring") /\ Ask("poll", "deferred", g.current, g.current.rev)
     /\ UNCHANGED <<pi, work>>

FinalGate ==
  /\ poll.at = "gate" /\ Answered("poll")
  /\ DeferOr(gate,
       /\ poll.ok /\ CanInject(gate, gate.current)
       /\ PollTo("injection") /\ Ask("poll", "injection_requested", gate.current, gate.current.rev)
       /\ UNCHANGED <<gate, pi, work>>)
  /\ UNCHANGED ctl

\* Mutant: the input is marked as injected before the gate is looked at.
InjectionReturnsMarked ==
  /\ poll.at = "injection" /\ Confirmed("poll") /\ work.at = "none"
  /\ LET c == call["poll"].reply
         g == [gate EXCEPT !.current = c]
         marked == [g EXCEPT !.injected = @ \cup {<<c.id, c.seg>>}] IN
     /\ gate' = marked
     /\ IF poll.ok /\ CanInject(g, c)
        THEN /\ pi' = [pi EXCEPT !.turn = "input", !.id = c.id, !.seg = c.seg]
             /\ work' = [NoWork EXCEPT !.at = "observe", !.ok = TRUE, !.id = c.id, !.seg = c.seg]
             /\ PollDone
             /\ call' = [call EXCEPT !["poll"] = NoCall,
                                     !["work"] = Asked("poll", "input_observed", c, c.rev)]
        ELSE /\ PollTo("deferring") /\ Ask("poll", "deferred", c, c.rev)
             /\ UNCHANGED <<pi, work>>
  /\ UNCHANGED ctl

\* sendUserMessage, and its input hook up to the first await.
InjectionReturns ==
  /\ poll.at = "injection" /\ Confirmed("poll") /\ work.at = "none"
  /\ LET g == [gate EXCEPT !.current = call["poll"].reply]
         c == g.current IN
     DeferOr(g,
       /\ poll.ok /\ CanInject(g, c)
       /\ gate' = [g EXCEPT !.injected = @ \cup {<<c.id, c.seg>>}]
       /\ pi' = [pi EXCEPT !.turn = "input", !.id = c.id, !.seg = c.seg]
       /\ work' = [NoWork EXCEPT !.at = "observe", !.ok = TRUE, !.id = c.id, !.seg = c.seg]
       /\ PollDone
       /\ call' = [call EXCEPT !["poll"] = NoCall, !["work"] = Asked("poll", "input_observed", c, c.rev)])
  /\ UNCHANGED ctl

DeferredReturns ==
  /\ poll.at = "deferring" /\ Confirmed("poll")
  /\ gate' = [gate EXCEPT !.current = NoCopy]
  /\ PollDone /\ Done("poll")
  /\ UNCHANGED <<ctl, pi, work>>

\* reportStopped: asked again about the Attempt, and what it sends is the segment
\* that is retained, with the revision it was just told.
CanReport == poll.ok /\ Retained /\ LocalIdle

ConfirmReturns ==
  /\ poll.at = "confirm" /\ Answered("poll")
  /\ LET seen == call["poll"].reply IN
     IF CanReport /\ seen.state = "quarantined" /\ ~seen.ended
     THEN PollTo("stop") /\ Ask("poll", "stopped", gate.current, seen.rev)
     ELSE PollDone /\ Done("poll")
  /\ UNCHANGED <<ctl, gate, pi, work>>

StopReturns ==
  /\ poll.at = "stop" /\ Answered("poll")
  /\ gate' = IF CanReport THEN [gate EXCEPT !.current = call["poll"].reply] ELSE gate
  /\ PollDone /\ Done("poll")
  /\ UNCHANGED <<ctl, pi, work>>

\* A failed call closes the gate, unless the fence of the poll is broken, which a
\* stop report does first; a stale event is dropped.
PollFails ==
  /\ Failed("poll")
  /\ IF poll.ok /\ poll.at \notin {"confirm", "stop"} THEN Fail ELSE UNCHANGED <<gate, pi>>
  /\ PollDone /\ Done("poll")
  /\ UNCHANGED <<ctl, work>>

PollStale ==
  /\ Stale("poll")
  /\ PollDone /\ Done("poll")
  /\ UNCHANGED <<ctl, gate, pi, work>>

-----------------------------------------------------------------------------
(* The turn of a formal segment.                                           *)

\* The input hook: the turn begins unless the gate is closed.
Begun(g) == IF g.frozen THEN Rest ELSE [pi EXCEPT !.turn = "formal"]

ObserveReturns ==
  /\ work.at = "observe" /\ Confirmed("work")
  /\ gate' = [gate EXCEPT !.current = call["work"].reply]
  /\ pi' = Begun(gate)
  /\ work' = NoWork /\ Done("work")
  /\ UNCHANGED <<ctl, poll>>

ObserveStale ==
  /\ work.at = "observe" /\ Stale("work")
  /\ pi' = Begun(gate)
  /\ work' = NoWork /\ Done("work")
  /\ UNCHANGED <<ctl, gate, poll>>

ObserveFails ==
  /\ work.at = "observe" /\ Failed("work")
  /\ gate' = Frozen(gate) /\ pi' = Rest
  /\ work' = NoWork /\ Done("work")
  /\ UNCHANGED <<ctl, poll>>

\* agent_task_complete and agent_task_yield; one of them per turn.
Tool(kind) ==
  /\ pi.turn = "formal" /\ ~pi.told /\ work.at = "none" /\ Retained /\ Permitted
  /\ pi' = [pi EXCEPT !.told = TRUE]
  /\ work' = [NoWork EXCEPT !.at = "tool", !.ok = TRUE]
  /\ Ask("work", kind, gate.current, gate.current.rev)
  /\ UNCHANGED <<ctl, gate, poll, late, mishaps>>

\* A tool that fails tells the model, and nobody else.
ToolReturns ==
  /\ work.at = "tool"
  /\ \/ Confirmed("work") /\ gate' = [gate EXCEPT !.current = call["work"].reply]
     \/ Failed("work") /\ UNCHANGED gate
     \/ Stale("work") /\ UNCHANGED gate
  /\ work' = NoWork /\ Done("work")
  /\ UNCHANGED <<ctl, pi, poll>>

\* agent_settled takes its fence; an aborted turn may still say completed.
TurnEnds ==
  /\ pi.turn = "formal" /\ work.at = "none"
  /\ pi' = Rest
  /\ work' = IF gate.current.id = pi.id /\ gate.current.seg = pi.seg
             THEN [at |-> "settling", ok |-> TRUE, id |-> pi.id, seg |-> pi.seg] ELSE NoWork
  /\ UNCHANGED <<ctl, gate, poll, call, late, mishaps>>

\* The deferred half of agent_settled.
Settle(outcome) ==
  /\ work.at = "settling"
  /\ IF /\ ~gate.frozen /\ work.ok /\ LocalIdle
        /\ gate.current.id = work.id /\ gate.current.seg = work.seg
     THEN work' = [work EXCEPT !.at = "settle"] /\ Ask("work", outcome, gate.current, gate.current.rev)
     ELSE work' = NoWork /\ UNCHANGED call
  /\ UNCHANGED <<ctl, gate, pi, poll, late, mishaps>>

SettleReturns ==
  /\ work.at = "settle"
  /\ \/ /\ Confirmed("work")
        /\ LET seen == call["work"].reply IN
           gate' = [gate EXCEPT !.current = IF seen.ended THEN NoCopy ELSE seen]
        /\ UNCHANGED pi
     \/ Failed("work") /\ Fail
     \/ Stale("work") /\ UNCHANGED <<gate, pi>>
  /\ work' = NoWork /\ Done("work")
  /\ UNCHANGED <<ctl, poll>>

-----------------------------------------------------------------------------
(* The user.                                                               *)

\* An input, a shell command, another branch or a compaction of the user.
Interfere ==
  /\ Retained /\ ~gate.frozen /\ call["user"].stage = "none" /\ ctl.id \in Troubled
  /\ gate' = Frozen(gate)
  /\ poll' = Broken(poll) /\ work' = Broken(work)
  /\ pi' = Aborted
  /\ Ask("user", "interruption", NoCopy, 0)
  /\ UNCHANGED <<ctl, late, mishaps>>

InterferenceReturns ==
  /\ call["user"].stage = "served" \/ call["user"].stage = "sent"
  /\ \/ Answered("user") /\ UNCHANGED <<gate, pi>>
     \/ Failed("user") /\ Fail
  /\ Done("user")
  /\ UNCHANGED <<ctl, poll, work>>

Dialog ==
  /\ ~pi.dialog /\ mishaps < MaxMishaps /\ ctl.id \in Troubled
  /\ pi' = [pi EXCEPT !.dialog = TRUE]
  /\ mishaps' = mishaps + 1
  /\ UNCHANGED <<ctl, gate, poll, work, call, late>>

DialogEnds ==
  /\ pi.dialog /\ pi' = [pi EXCEPT !.dialog = FALSE]
  /\ UNCHANGED <<ctl, gate, poll, work, call, late, mishaps>>

-----------------------------------------------------------------------------
Controller ==
  /\ Admit \/ Continue \/ Quarantine \/ CancelAtOnce \/ Attest
  /\ UNCHANGED <<gate, pi, poll, work, call, late, mishaps>>

Poll ==
  \/ PollStarts \/ AttemptReturns \/ DispatchesReturn \/ ReceivedReturns
  \/ FinalGate \/ InjectionReturns \/ DeferredReturns \/ ConfirmReturns \/ StopReturns
  \/ PollFails \/ PollStale

Turn ==
  \/ ObserveReturns \/ ObserveStale \/ ObserveFails \/ ToolReturns
  \/ Settle("completed") \/ Settle("aborted") \/ SettleReturns

Next ==
  \/ Controller \/ Poll \/ Turn \/ ServeLate
  \/ \E p \in Proc : Send(p) \/ Serve(p)
  \/ Tool("result_proposed") \/ Tool("yield")
  \/ Interfere \/ InterferenceReturns \/ Dialog \/ DialogEnds \/ TurnEnds

Spec == Init /\ [][Next]_vars

\* The timer of the poll goes on, a call is served or fails within five seconds,
\* an aborted turn and a dialog end.
Fairness ==
  /\ WF_vars(Poll \/ Send("poll") \/ Serve("poll"))
  /\ WF_vars(Turn \/ Send("work") \/ Serve("work") \/ (pi.aborted /\ TurnEnds))
  /\ WF_vars(InterferenceReturns \/ Serve("user"))
  /\ WF_vars(DialogEnds)

FairSpec == Spec /\ Fairness

-----------------------------------------------------------------------------
(* Properties.                                                             *)

\* Whatever runs in the session for a segment was announced to the controller
\* first.
IntentBeforeInput ==
  pi.turn \in {"input", "formal"} =>
    \/ ctl.id > pi.id \/ (ctl.id = pi.id /\ ctl.seg > pi.seg)
    \/ /\ ctl.id = pi.id /\ ctl.seg = pi.seg
       /\ ctl.receipt \in {"injection_requested", "input_observed"}

\* A tool is allowed only while the agent is reserved for the segment, unless the
\* operator has attested that it stopped.
PermitMeansReserved ==
  pi.turn = "formal" /\ Retained /\ Permitted =>
    \/ ctl.id = gate.current.id /\ ctl.seg = gate.current.seg /\ Reserved
    \/ ctl.id = gate.current.id /\ ctl.end = "attested"
    \/ ctl.id > gate.current.id

\* A segment the controller takes for deferred was not and will not be injected.
DeferredNotInjected ==
  ctl.state = "suspended" /\ ctl.receipt # "input_observed" =>
    <<ctl.id, ctl.seg>> \notin gate.injected

\* Nobody but the operator releases an Attempt while a turn of it runs.
ReleasedAtRest ==
  [][Reserved /\ ctl'.end = "released" =>
       ~(pi.turn = "formal" /\ pi.id = ctl.id)]_vars

\* An Attempt that was stopped is released, when the adapter retains its segment
\* and is not about to let go of it.
Stopping == Reserved /\ ctl.state = "quarantined"
StopIsConfirmed ==
  /\ Stopping /\ gate.current.id = ctl.id /\ gate.current.seg = ctl.seg
  /\ poll.at # "deferring"
  ~> ~Stopping

\* The adapter lets go of every Attempt that was released, unless a turn of its
\* still runs.
RetainsReleased == Retained /\ (ctl.id > gate.current.id \/ ~Reserved)
ReleasedIsLetGo == RetainsReleased ~> (~RetainsReleased \/ ~Idle)
=================================================================================
