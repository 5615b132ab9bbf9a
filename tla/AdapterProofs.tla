----------------------------- MODULE AdapterProofs -----------------------------
(* Adapter: what holds of the adapter and the controller in every reachable *)
(* state, for any number of Attempts and segments, any trouble and any      *)
(* number of calls given up.                                                *)
EXTENDS Adapter, TLAPS

-----------------------------------------------------------------------------
(* Types.                                                                  *)

LEMMA CopyTypes ==
  /\ NoCopy \in Copies
  /\ NoRequest \in Requests
  /\ NoCall \in Calls
<1>1. NoCopy \in Copies /\ NoRequest \in Requests
  BY DEF NoCopy, Copies, States, NoRequest, Requests, Events, Reads
<1> QED
  BY <1>1 DEF NoCall, Calls

LEMMA CopyType ==
  ASSUME NEW x \in Attempts, NEW i \in Nat
  PROVE  Copy(x, i) \in Copies
BY CopyTypes DEF Copy, Attempts, Copies, NoCopy

LEMMA AnswerType ==
  ASSUME NEW x \in Attempts, NEW r \in Requests
  PROVE  Answer(x, r) \in Copies
<1>1. x.id \in Nat /\ r.id \in Nat
  BY DEF Attempts, Requests
<1> QED
  BY <1>1, CopyType, CopyTypes DEF Answer

LEMMA AskedType ==
  ASSUME ctl \in Attempts, NEW p,
         NEW kind \in Events \cup Reads \cup {"interruption", "stopped"},
         NEW c \in Copies, NEW rev \in Nat
  PROVE  Asked(p, kind, c, rev) \in Calls
<1> DEFINE r == [kind |-> kind, id |-> c.id, seg |-> c.seg, rev |-> rev]
<1>1. r \in Requests
  BY DEF Requests, Copies
<1> HIDE DEF r
<1>2. Answer(ctl, r) \in Copies
  BY <1>1, AnswerType
<1>3. \A st \in {"queued", "sent"} : [NoCall EXCEPT !.stage = st, !.request = r] \in Calls
  BY <1>1, CopyTypes DEF Calls
<1>4. [stage |-> "served", request |-> r, ok |-> TRUE, reply |-> Answer(ctl, r)] \in Calls
  BY <1>1, <1>2 DEF Calls
<1> QED
  BY <1>3, <1>4 DEF Asked, r

LEMMA EffectType ==
  ASSUME ctl \in Attempts, NEW kind \in Events
  PROVE  Effect(kind) \in Attempts /\ Revised(Effect(kind)) \in Attempts
<1>1. Settled \in Attempts
  BY DEF Settled, Attempts, States
<1>2. Effect(kind) \in Attempts
  BY <1>1 DEF Effect, Attempts, States, Receipts, Events
<1>3. \A x \in Attempts : Revised(x) \in Attempts
  BY DEF Revised, Attempts
<1> QED
  BY <1>2, <1>3

LEMMA HandledType ==
  ASSUME ctl \in Attempts, NEW r \in Requests
  PROVE  Handled(r).ctl \in Attempts /\ Handled(r).ok \in BOOLEAN
<1>1. \A x \in Attempts : Revised(x) \in Attempts
  BY DEF Revised, Attempts
<1>2. CASE r.kind \in Events /\ Accepted(r)
  <2>1. Handled(r) = [ok |-> TRUE, ctl |-> Revised(Effect(r.kind))]
    BY <1>2 DEF Handled, Events
  <2> QED
    BY <1>2, <2>1, EffectType
<1>3. CASE r.kind = "stopped" /\ StopAccepted(r)
  <2>1. Handled(r) = [ok |-> TRUE, ctl |-> Revised([ctl EXCEPT !.end = "released"])]
    BY <1>3 DEF Handled, Events
  <2>2. [ctl EXCEPT !.end = "released"] \in Attempts
    BY DEF Attempts
  <2> QED
    BY <1>1, <2>1, <2>2
<1>4. CASE r.kind = "interruption"
  <2> DEFINE q == [ctl EXCEPT !.state = "quarantined", !.rev = @ + 1]
  <2>1. Handled(r) = [ok |-> TRUE, ctl |-> IF Reserved THEN q ELSE ctl]
    BY <1>4 DEF Handled, Events
  <2>2. q \in Attempts
    <3>1. \A n \in Nat : [ctl EXCEPT !.state = "quarantined", !.rev = n] \in Attempts
      BY DEF Attempts, States
    <3>2. ctl.rev + 1 \in Nat
      BY DEF Attempts
    <3> QED
      BY <3>1, <3>2
  <2> HIDE DEF q
  <2>3. Handled(r).ok = TRUE /\ Handled(r).ctl = IF Reserved THEN q ELSE ctl
    BY <2>1
  <2> QED
    BY <2>2, <2>3
<1>5. CASE /\ ~(r.kind \in Events /\ Accepted(r))
           /\ ~(r.kind = "stopped" /\ StopAccepted(r))
           /\ r.kind # "interruption"
  BY <1>5 DEF Handled
<1> QED
  BY <1>2, <1>3, <1>4, <1>5

\* What an action puts into the variables of the adapter.
Gates == [current : Copies, frozen : BOOLEAN, injected : SUBSET (Nat \X Nat)]
Sessions == [turn : {"none", "input", "formal"}, id : Nat, seg : Nat,
             aborted : BOOLEAN, told : BOOLEAN, dialog : BOOLEAN]
Polls == [at : {"idle", "attempt", "dispatches", "received", "gate",
                "injection", "deferring", "confirm", "stop"}, ok : BOOLEAN]
Works == [at : {"none", "observe", "tool", "settling", "settle"}, ok : BOOLEAN,
          id : Nat, seg : Nat]

LEMMA AskType ==
  ASSUME TypeOK, NEW p \in Proc,
         NEW kind \in Events \cup Reads \cup {"interruption", "stopped"},
         NEW c \in Copies, NEW rev \in Nat, Ask(p, kind, c, rev)
  PROVE  call' \in [Proc -> Calls]
BY AskedType DEF TypeOK, Ask

LEMMA DoneType ==
  ASSUME TypeOK, NEW p \in Proc, Done(p)
  PROVE  call' \in [Proc -> Calls]
BY CopyTypes DEF TypeOK, Done

LEMMA GateTypes ==
  ASSUME TypeOK, NEW c \in Copies
  PROVE  /\ gate \in Gates /\ gate.current \in Copies /\ gate.current.rev \in Nat
         /\ c.id \in Nat /\ c.seg \in Nat /\ c.rev \in Nat
         /\ Frozen(gate) \in Gates
         /\ [gate EXCEPT !.current = c] \in Gates
         /\ [gate EXCEPT !.current = c, !.frozen = FALSE] \in Gates
         /\ [gate EXCEPT !.current = c, !.injected = {k \in @ : k[1] = c.id}] \in Gates
         /\ [gate EXCEPT !.current = c, !.injected = @ \cup {<<c.id, c.seg>>}] \in Gates
         /\ [gate EXCEPT !.frozen = @ /\ Retained] \in Gates
<1>1. gate \in Gates
  BY DEF TypeOK, Gates
<1>2. gate.current \in Copies /\ gate.current.rev \in Nat
  BY <1>1 DEF Gates, Copies
<1>3. c.id \in Nat /\ c.seg \in Nat /\ c.rev \in Nat
  BY DEF Copies
<1>4. /\ Frozen(gate) \in Gates
      /\ [gate EXCEPT !.current = c] \in Gates
      /\ [gate EXCEPT !.current = c, !.frozen = FALSE] \in Gates
  BY <1>1 DEF Gates, Frozen
<1>5. \A z \in SUBSET (Nat \X Nat) : [gate EXCEPT !.current = c, !.injected = z] \in Gates
  BY <1>1 DEF Gates
<1>6. /\ {k \in gate.injected : k[1] = c.id} \in SUBSET (Nat \X Nat)
      /\ gate.injected \cup {<<c.id, c.seg>>} \in SUBSET (Nat \X Nat)
  BY <1>1, <1>3 DEF Gates
<1>7. \A b \in BOOLEAN : [gate EXCEPT !.frozen = b] \in Gates
  BY <1>1 DEF Gates
<1>8. (gate.frozen /\ Retained) \in BOOLEAN
  OBVIOUS
<1> QED
  BY <1>1, <1>2, <1>3, <1>4, <1>5, <1>6, <1>7, <1>8

LEMMA SessionTypes ==
  ASSUME TypeOK
  PROVE  /\ pi \in Sessions /\ Rest \in Sessions /\ Aborted \in Sessions
         /\ \A g : Begun(g) \in Sessions
         /\ \A i \in Nat, s \in Nat : [pi EXCEPT !.turn = "input", !.id = i, !.seg = s] \in Sessions
         /\ \A b \in BOOLEAN : [pi EXCEPT !.dialog = b] \in Sessions
         /\ [pi EXCEPT !.told = TRUE] \in Sessions
<1>1. pi \in Sessions
  BY DEF TypeOK, Sessions
<1>2. Rest \in Sessions
  BY <1>1 DEF Rest, NoTurn, Sessions
<1>3. Aborted \in Sessions
  BY <1>1 DEF Aborted, Sessions
<1>4. \A g : Begun(g) \in Sessions
  BY <1>1, <1>2 DEF Begun, Sessions
<1>5. /\ \A i \in Nat, s \in Nat : [pi EXCEPT !.turn = "input", !.id = i, !.seg = s] \in Sessions
      /\ \A b \in BOOLEAN : [pi EXCEPT !.dialog = b] \in Sessions
      /\ [pi EXCEPT !.told = TRUE] \in Sessions
  BY <1>1 DEF Sessions
<1> QED
  BY <1>1, <1>2, <1>3, <1>4, <1>5

LEMMA PollTypes ==
  ASSUME TypeOK
  PROVE  /\ poll \in Polls /\ Resting \in Polls /\ Broken(poll) \in Polls
         /\ \A at \in {"attempt", "dispatches", "received", "gate", "injection",
                        "deferring", "confirm", "stop"} :
              [poll EXCEPT !.at = at] \in Polls /\ [at |-> at, ok |-> TRUE] \in Polls
         /\ work \in Works /\ NoWork \in Works /\ Broken(work) \in Works
<1>1. poll \in Polls /\ work \in Works
  BY DEF TypeOK, Polls, Works
<1> QED
  BY <1>1 DEF Polls, Works, Resting, NoWork, Broken

LEMMA LateType ==
  ASSUME TypeOK, NEW p \in Proc, Answered(p) \/ Failed(p) \/ Stale(p)
  PROVE  late' \in SUBSET Requests /\ mishaps' \in 0..MaxMishaps
<1>1. late \in SUBSET Requests /\ mishaps \in 0..MaxMishaps /\ call[p].request \in Requests
  BY DEF TypeOK, Calls
<1>2. CASE GivenUp(p)
  BY <1>1, <1>2, AdapterAssumption DEF GivenUp
<1>3. CASE ~GivenUp(p)
  BY <1>1, <1>3 DEF Answered, Failed, Refused, Stale
<1> QED
  BY <1>2, <1>3

\* TypeOK, variable by variable.
LEMMA TypeParts ==
  TypeOK <=> /\ ctl \in Attempts /\ gate \in Gates /\ pi \in Sessions /\ poll \in Polls
             /\ work \in Works /\ call \in [Proc -> Calls] /\ late \in SUBSET Requests
             /\ mishaps \in 0..MaxMishaps
BY DEF TypeOK, Gates, Sessions, Polls, Works

LEMMA TypeStep ==
  ASSUME ctl' \in Attempts, gate' \in Gates, pi' \in Sessions, poll' \in Polls,
         work' \in Works, call' \in [Proc -> Calls], late' \in SUBSET Requests,
         mishaps' \in 0..MaxMishaps
  PROVE  TypeOK'
BY DEF TypeOK, Gates, Sessions, Polls, Works

LEMMA ControllerTyped == TypeOK /\ Controller => TypeOK'
<1> SUFFICES ASSUME TypeOK, Controller PROVE TypeOK'
  OBVIOUS
<1> USE TypeParts
<1>1. \A n \in Nat : [ctl EXCEPT !.state = "quarantined", !.rev = n] \in Attempts
  BY DEF Attempts, States
<1>2. ctl.id + 1 \in Nat /\ ctl.seg + 1 \in Nat /\ ctl.rev + 1 \in Nat
  BY DEF Attempts
<1>3. CASE Admit
  <2>1. \A n \in Nat : [NoAttempt EXCEPT !.id = n, !.seg = 1, !.rev = 1,
                                         !.state = "admitted", !.end = "none"] \in Attempts
    BY DEF Attempts, NoAttempt, States, Receipts
  <2>2. ctl' \in Attempts
    BY <1>3, <1>2, <2>1 DEF Admit
  <2> QED
    BY <2>2, TypeStep DEF Controller
<1>4. CASE Continue
  <2>1. \A n \in Nat : [ctl EXCEPT !.seg = n, !.rev = 1, !.state = "admitted",
                                   !.receipt = "dispatch_intent", !.yield = FALSE] \in Attempts
    BY DEF Attempts, States, Receipts
  <2>2. ctl' \in Attempts
    BY <1>4, <1>2, <2>1 DEF Continue
  <2> QED
    BY <2>2, TypeStep DEF Controller
<1>5. CASE Quarantine
  <2>1. ctl' \in Attempts
    BY <1>5, <1>1, <1>2 DEF Quarantine
  <2> QED
    BY <2>1, TypeStep DEF Controller
<1>6. CASE CancelAtOnce \/ Attest
  <2>1. \A e \in {"released", "attested"} :
          [ctl EXCEPT !.state = "quarantined", !.rev = 0, !.end = e] \in Attempts
    BY DEF Attempts, States
  <2>2. ctl' \in Attempts
    BY <1>6, <2>1 DEF CancelAtOnce, Attest
  <2> QED
    BY <2>2, TypeStep DEF Controller
<1> QED
  BY <1>3, <1>4, <1>5, <1>6 DEF Controller

LEMMA CallsTyped ==
  TypeOK /\ (ServeLate \/ \E p \in Proc : Send(p) \/ Serve(p)) => TypeOK'
<1> SUFFICES ASSUME TypeOK, ServeLate \/ \E p \in Proc : Send(p) \/ Serve(p) PROVE TypeOK'
  OBVIOUS
<1> USE TypeParts
<1>1. CASE ServeLate
  <2> PICK r \in late : late' = late \ {r} /\ ctl' = Handled(r).ctl
    BY <1>1 DEF ServeLate
  <2>1. ctl' \in Attempts
    BY HandledType
  <2> QED
    BY <1>1, <2>1, TypeStep DEF ServeLate
<1>2. ASSUME NEW p \in Proc, Send(p) PROVE TypeOK'
  <2>1. gate.current.rev \in Nat
    BY DEF Gates, Copies
  <2>2. \A k \in Calls, n \in Nat : [k EXCEPT !.stage = "sent", !.request.rev = n] \in Calls
    BY DEF Calls, Requests
  <2>3. call' = [call EXCEPT ![p] = [call[p] EXCEPT !.stage = "sent", !.request.rev = gate.current.rev]]
    BY <1>2 DEF Send
  <2>4. call' \in [Proc -> Calls]
    BY <2>1, <2>2, <2>3
  <2> QED
    BY <1>2, <2>4, TypeStep DEF Send
<1>3. ASSUME NEW p \in Proc, Serve(p) PROVE TypeOK'
  <2> DEFINE r == call[p].request
  <2>1. r \in Requests /\ call[p] \in Calls
    BY DEF Calls
  <2>2. Handled(r).ctl \in Attempts /\ Handled(r).ok \in BOOLEAN
    BY <2>1, HandledType
  <2>3. Answer(Handled(r).ctl, r) \in Copies
    BY <2>1, <2>2, AnswerType
  <2>4. \A k \in Calls, ok \in BOOLEAN, c \in Copies :
          [k EXCEPT !.stage = "served", !.ok = ok, !.request.rev = 0, !.reply = c] \in Calls
    BY DEF Calls, Requests
  <2>5. call' \in [Proc -> Calls] /\ ctl' \in Attempts
    <3> DEFINE c == IF Handled(r).ok THEN Answer(Handled(r).ctl, r) ELSE NoCopy
    <3>1. c \in Copies
      BY <2>3, CopyTypes
    <3>2. ctl' = Handled(r).ctl /\
          call' = [call EXCEPT ![p] = [call[p] EXCEPT !.stage = "served", !.ok = Handled(r).ok,
                                                      !.request.rev = 0, !.reply = c]]
      BY <1>3 DEF Serve
    <3> HIDE DEF c, r
    <3> QED
      BY <2>1, <2>2, <2>4, <3>1, <3>2
  <2> QED
    BY <1>3, <2>5, TypeStep DEF Serve
<1> QED
  BY <1>1, <1>2, <1>3

\* A step of the adapter that takes no part of its state out of its type.
LEMMA AdapterTyped ==
  ASSUME TypeOK, ctl' = ctl, gate' \in Gates, pi' \in Sessions, poll' \in Polls,
         work' \in Works, call' \in [Proc -> Calls],
         \/ UNCHANGED <<late, mishaps>>
         \/ \E p \in Proc : Answered(p) \/ Failed(p) \/ Stale(p)
  PROVE  TypeOK'
<1>1. late' \in SUBSET Requests /\ mishaps' \in 0..MaxMishaps
  BY LateType, TypeParts
<1> QED
  BY <1>1, TypeParts, TypeStep

LEMMA PollTyped == TypeOK /\ Poll => TypeOK'
<1> SUFFICES ASSUME TypeOK, Poll PROVE TypeOK'
  OBVIOUS
<1> DEFINE seen == call["poll"].reply
<1>0. "poll" \in Proc /\ "work" \in Proc
  BY DEF Proc
<1>a. seen \in Copies /\ NoCopy \in Copies /\ seen.rev \in Nat
  BY <1>0, TypeParts, CopyTypes DEF Calls, Copies
<1>b. /\ gate \in Gates /\ pi \in Sessions /\ poll \in Polls /\ work \in Works
      /\ call \in [Proc -> Calls] /\ gate.current \in Copies /\ gate.current.rev \in Nat
  BY <1>a, TypeParts, GateTypes
<1>c. [gate EXCEPT !.current = seen] \in Gates /\ [gate EXCEPT !.current = NoCopy] \in Gates
  BY <1>a, GateTypes
<1>d. /\ \A at \in {"attempt", "dispatches", "received", "gate", "injection",
                     "deferring", "confirm", "stop"} : PollTo(at) => poll' \in Polls
      /\ PollDone => poll' \in Polls
  BY PollTypes DEF PollTo, PollDone
<1>e. Done("poll") => call' \in [Proc -> Calls]
  BY <1>0, DoneType
<1>f. \A kind \in {"attempt", "dispatches", "adapter_received", "briefing", "injection_requested",
                   "deferred", "confirm", "stopped"}, c \in Copies, rev \in Nat :
        Ask("poll", kind, c, rev) => call' \in [Proc -> Calls]
  BY <1>0, AskType DEF Events, Reads
<1>g. Frozen(gate) \in Gates
  BY <1>a, GateTypes
<1> HIDE DEF seen
<1>1. CASE PollStarts
  <2>1. poll' \in Polls /\ poll'.at \in {"attempt", "dispatches"}
    BY <1>1, PollTypes DEF PollStarts
  <2>2. gate' \in Gates
    BY <1>1, <1>a, GateTypes DEF PollStarts
  <2>3. call' \in [Proc -> Calls]
    BY <1>1, <1>b, <1>f, <2>1 DEF PollStarts
  <2> QED
    BY <1>1, <1>b, <2>1, <2>2, <2>3, AdapterTyped DEF PollStarts
<1>2. CASE AttemptReturns
  <2>1. gate' \in Gates
    BY <1>2, <1>a, <1>b, <1>g, GateTypes DEF AttemptReturns
  <2>2. work' \in Works
    BY <1>2, <1>b, PollTypes DEF AttemptReturns
  <2>3. poll' \in Polls /\ call' \in [Proc -> Calls]
    BY <1>2, <1>a, <1>d, <1>e, <1>f DEF AttemptReturns
  <2> QED
    BY <1>0, <1>2, <1>b, <2>1, <2>2, <2>3, AdapterTyped DEF AttemptReturns
<1>3. CASE DispatchesReturn
  <2>1. CASE TakeDispatch(seen)
    <3>1. gate' \in Gates
      BY <2>1, <1>a, GateTypes DEF TakeDispatch
    <3>2. poll' \in Polls /\ call' \in [Proc -> Calls] /\ pi' = pi /\ work' = work
      BY <2>1, <1>a, <1>d, <1>f DEF TakeDispatch
    <3> QED
      BY <1>0, <1>3, <1>b, <3>1, <3>2, AdapterTyped DEF DispatchesReturn
  <2>2. CASE StopDispatch(seen)
    <3>1. gate' \in Gates /\ work' \in Works /\ pi' \in Sessions
      BY <2>2, <1>g, PollTypes, SessionTypes DEF StopDispatch
    <3>2. poll' \in Polls /\ call' \in [Proc -> Calls]
      BY <2>2, <1>b, <1>d, <1>e, <1>f, PollTypes DEF StopDispatch
    <3> QED
      BY <1>0, <1>3, <1>b, <3>1, <3>2, AdapterTyped DEF DispatchesReturn
  <2>3. CASE PollDone /\ Done("poll") /\ UNCHANGED <<gate, pi, work>>
    BY <1>0, <1>3, <1>b, <1>d, <1>e, <2>3, AdapterTyped DEF DispatchesReturn
  <2> QED
    BY <1>3, <2>1, <2>2, <2>3 DEF DispatchesReturn, LeaveDispatch, seen
<1>4. CASE ReceivedReturns
  BY <1>0, <1>4, <1>b, <1>c, <1>d, <1>f, AdapterTyped DEF ReceivedReturns, Confirmed, seen
<1>5. ASSUME NEW g \in Gates, ~g.frozen \/ g.frozen, g.current \in Copies,
             gate' = g,
             IF g.frozen THEN PollDone /\ Done("poll")
             ELSE PollTo("deferring") /\ Ask("poll", "deferred", g.current, g.current.rev)
      PROVE  poll' \in Polls /\ call' \in [Proc -> Calls]
  BY <1>5, <1>d, <1>e, <1>f DEF Copies
<1>6. CASE FinalGate
  <2>1. gate' = gate /\ pi' = pi /\ work' = work /\ ctl' = ctl
    BY <1>6 DEF FinalGate, DeferOr
  <2>2. poll' \in Polls /\ call' \in [Proc -> Calls]
    BY <1>6, <1>5, <1>b, <1>d, <1>f DEF FinalGate, DeferOr
  <2> QED
    BY <1>0, <1>6, <1>b, <2>1, <2>2, AdapterTyped DEF FinalGate
<1>7. CASE InjectionReturns
  <2> DEFINE g == [gate EXCEPT !.current = seen]
  <2>1. g \in Gates /\ g.current = seen
    BY <1>b, <1>c DEF Gates
  <2>2. CASE /\ gate' = [g EXCEPT !.injected = @ \cup {<<seen.id, seen.seg>>}]
             /\ pi' = [pi EXCEPT !.turn = "input", !.id = seen.id, !.seg = seen.seg]
             /\ work' = [NoWork EXCEPT !.at = "observe", !.ok = TRUE, !.id = seen.id, !.seg = seen.seg]
             /\ PollDone
             /\ call' = [call EXCEPT !["poll"] = NoCall,
                                     !["work"] = Asked("poll", "input_observed", seen, seen.rev)]
    <3>1. seen.id \in Nat /\ seen.seg \in Nat
      BY <1>a DEF Copies
    <3>2. gate' \in Gates
      <4>1. [gate EXCEPT !.current = seen, !.injected = @ \cup {<<seen.id, seen.seg>>}] \in Gates
        BY <1>a, GateTypes
      <4>2. gate' = [gate EXCEPT !.current = seen, !.injected = @ \cup {<<seen.id, seen.seg>>}]
        BY <2>2, <1>b DEF Gates
      <4> QED
        BY <4>1, <4>2
    <3>3. pi' \in Sessions
      BY <2>2, <3>1, SessionTypes
    <3>4. work' \in Works
      BY <2>2, <3>1 DEF NoWork, Works
    <3>5. Asked("poll", "input_observed", seen, seen.rev) \in Calls
      BY <1>a, AskedType, TypeParts DEF Events
    <3>6. call' \in [Proc -> Calls]
      BY <2>2, <1>b, <3>5, CopyTypes
    <3> QED
      BY <1>0, <1>7, <2>2, <1>d, <3>2, <3>3, <3>4, <3>6, AdapterTyped
         DEF InjectionReturns, Confirmed
  <2>3. CASE /\ gate' = g
             /\ IF g.frozen THEN PollDone /\ Done("poll")
                ELSE PollTo("deferring") /\ Ask("poll", "deferred", g.current, g.current.rev)
             /\ UNCHANGED <<pi, work>>
    <3>1. poll' \in Polls /\ call' \in [Proc -> Calls]
      BY <2>1, <2>3, <1>5, <1>a
    <3> QED
      BY <1>0, <1>7, <1>b, <2>1, <2>3, <3>1, AdapterTyped DEF InjectionReturns, Confirmed
  <2> QED
    BY <1>7, <2>1, <2>2, <2>3 DEF InjectionReturns, DeferOr, seen
<1>8. CASE DeferredReturns
  BY <1>0, <1>8, <1>b, <1>c, <1>d, <1>e, AdapterTyped DEF DeferredReturns, Confirmed
<1>9. CASE ConfirmReturns
  <2>1. poll' \in Polls /\ call' \in [Proc -> Calls]
    BY <1>9, <1>a, <1>b, <1>d, <1>e, <1>f DEF ConfirmReturns, seen
  <2> QED
    BY <1>0, <1>9, <1>b, <2>1, AdapterTyped DEF ConfirmReturns
<1>10. CASE StopReturns
  BY <1>0, <1>10, <1>b, <1>c, <1>d, <1>e, AdapterTyped DEF StopReturns, seen
<1>11. CASE PollFails
  BY <1>0, <1>11, <1>b, <1>d, <1>e, <1>g, AdapterTyped, SessionTypes DEF PollFails, Fail, Frozen
<1>12. CASE PollStale
  BY <1>0, <1>12, <1>b, <1>d, <1>e, AdapterTyped DEF PollStale
<1> QED
  BY <1>1, <1>2, <1>3, <1>4, <1>6, <1>7, <1>8, <1>9, <1>10, <1>11, <1>12 DEF Poll

LEMMA TurnTyped ==
  TypeOK /\ (Turn \/ Tool("result_proposed") \/ Tool("yield") \/ TurnEnds) => TypeOK'
<1> SUFFICES ASSUME TypeOK, Turn \/ Tool("result_proposed") \/ Tool("yield") \/ TurnEnds
             PROVE  TypeOK'
  OBVIOUS
<1> DEFINE seen == call["work"].reply
<1>0. "work" \in Proc
  BY DEF Proc
<1>a. seen \in Copies /\ NoCopy \in Copies
  BY <1>0, TypeParts, CopyTypes DEF Calls
<1>b. /\ gate \in Gates /\ pi \in Sessions /\ poll \in Polls /\ work \in Works
      /\ call \in [Proc -> Calls] /\ gate.current \in Copies /\ gate.current.rev \in Nat
  BY <1>a, TypeParts, GateTypes
<1>c. [gate EXCEPT !.current = seen] \in Gates /\ [gate EXCEPT !.current = NoCopy] \in Gates
      /\ Frozen(gate) \in Gates
  BY <1>a, GateTypes
<1>d. /\ Done("work") => call' \in [Proc -> Calls]
      /\ \A kind \in {"result_proposed", "yield", "completed", "aborted"} :
           Ask("work", kind, gate.current, gate.current.rev) => call' \in [Proc -> Calls]
  BY <1>0, <1>b, DoneType, AskType DEF Events
<1>e. /\ Begun(gate) \in Sessions /\ Rest \in Sessions /\ NoWork \in Works
      /\ [pi EXCEPT !.told = TRUE] \in Sessions
  BY SessionTypes, PollTypes
<1> HIDE DEF seen
<1>1. CASE ObserveReturns
  BY <1>0, <1>1, <1>b, <1>c, <1>d, <1>e, AdapterTyped DEF ObserveReturns, Confirmed, seen
<1>2. CASE ObserveStale
  BY <1>0, <1>2, <1>b, <1>d, <1>e, AdapterTyped DEF ObserveStale
<1>3. CASE ObserveFails
  BY <1>0, <1>3, <1>b, <1>c, <1>d, <1>e, AdapterTyped DEF ObserveFails
<1>4. CASE Tool("result_proposed") \/ Tool("yield")
  <2>1. [NoWork EXCEPT !.at = "tool", !.ok = TRUE] \in Works
    BY DEF NoWork, Works
  <2> QED
    BY <1>4, <1>b, <1>d, <1>e, <2>1, AdapterTyped DEF Tool
<1>5. CASE ToolReturns
  BY <1>0, <1>5, <1>b, <1>c, <1>d, <1>e, AdapterTyped DEF ToolReturns, Confirmed, seen
<1>6. CASE TurnEnds
  <2>1. work' \in Works
    BY <1>6, <1>b, <1>e DEF TurnEnds, Works, Sessions
  <2> QED
    BY <1>6, <1>b, <1>e, <2>1, AdapterTyped DEF TurnEnds
<1>7. CASE Settle("completed") \/ Settle("aborted")
  <2>1. work' \in Works
    BY <1>7, <1>b, <1>e DEF Settle, Works
  <2>2. call' \in [Proc -> Calls]
    BY <1>7, <1>b, <1>d DEF Settle
  <2> QED
    BY <1>7, <1>b, <2>1, <2>2, AdapterTyped DEF Settle
<1>8. CASE SettleReturns
  <2>1. gate' \in Gates /\ pi' \in Sessions
    BY <1>8, <1>b, <1>c, SessionTypes DEF SettleReturns, Fail, Frozen, seen
  <2> QED
    BY <1>0, <1>8, <1>b, <1>d, <1>e, <2>1, AdapterTyped DEF SettleReturns, Confirmed
<1> QED
  BY <1>1, <1>2, <1>3, <1>4, <1>5, <1>6, <1>7, <1>8 DEF Turn

LEMMA UserTyped ==
  TypeOK /\ (Interfere \/ InterferenceReturns \/ Dialog \/ DialogEnds) => TypeOK'
<1> SUFFICES ASSUME TypeOK, Interfere \/ InterferenceReturns \/ Dialog \/ DialogEnds
             PROVE  TypeOK'
  OBVIOUS
<1>0. "user" \in Proc
  BY DEF Proc
<1>b. /\ gate \in Gates /\ pi \in Sessions /\ poll \in Polls /\ work \in Works
      /\ call \in [Proc -> Calls] /\ Frozen(gate) \in Gates
  BY TypeParts, GateTypes, CopyTypes
<1>1. CASE Interfere
  <2>1. call' \in [Proc -> Calls]
    BY <1>0, <1>1, AskType, CopyTypes DEF Interfere
  <2> QED
    BY <1>1, <1>b, <2>1, AdapterTyped, SessionTypes, PollTypes DEF Interfere
<1>2. CASE InterferenceReturns
  <2>1. gate' \in Gates /\ pi' \in Sessions
    BY <1>2, <1>b, SessionTypes DEF InterferenceReturns, Fail, Frozen
  <2> QED
    BY <1>0, <1>2, <1>b, <2>1, DoneType, AdapterTyped DEF InterferenceReturns
<1>3. CASE Dialog
  <2>1. mishaps' \in 0..MaxMishaps
    BY <1>3, TypeParts, AdapterAssumption DEF Dialog
  <2>2. pi' \in Sessions
    BY <1>3, SessionTypes DEF Dialog
  <2> QED
    BY <1>3, <2>1, <2>2, TypeParts, TypeStep DEF Dialog
<1>4. CASE DialogEnds
  BY <1>4, <1>b, SessionTypes, AdapterTyped DEF DialogEnds
<1> QED
  BY <1>1, <1>2, <1>3, <1>4

LEMMA InitTyped == Init => TypeOK
<1> SUFFICES ASSUME Init PROVE TypeOK
  OBVIOUS
<1>1. ctl \in Attempts
  BY DEF Init, NoAttempt, Attempts, States, Receipts
<1>2. gate \in Gates
  BY CopyTypes DEF Init, Gates
<1>3. pi \in Sessions /\ poll \in Polls /\ work \in Works
  BY DEF Init, NoTurn, Sessions, Resting, Polls, NoWork, Works
<1>4. call \in [Proc -> Calls] /\ late \in SUBSET Requests /\ mishaps \in 0..MaxMishaps
  BY CopyTypes, AdapterAssumption DEF Init
<1> QED
  BY <1>1, <1>2, <1>3, <1>4, TypeParts

LEMMA NextTyped == TypeOK /\ [Next]_vars => TypeOK'
<1> SUFFICES ASSUME TypeOK, [Next]_vars PROVE TypeOK'
  OBVIOUS
<1>1. CASE UNCHANGED vars
  BY <1>1 DEF vars, TypeOK
<1>2. CASE Next
  BY <1>2, ControllerTyped, CallsTyped, PollTyped, TurnTyped, UserTyped DEF Next
<1> QED
  BY <1>1, <1>2

\* Every variable of the adapter, of the controller's Attempt and of the calls
\* between them keeps its type.
THEOREM Typing == Spec => []TypeOK
BY InitTyped, NextTyped, PTL DEF Spec

-----------------------------------------------------------------------------
(* The invariant.  The four properties relate copies that neither side can *)
(* compare with the original, so it says of every copy there is (what the  *)
(* gate retains, what a poll was answered, what a call still carries, what *)
(* a call that was given up may yet do) how stale it may be.               *)

Busy == {"running", "result_proposed"}
Announcing == {"injection_requested", "input_observed"}

\* Of x, the controller's Attempt: what can no longer change, and what can.
Gone(x, i) == x.id > i \/ (x.id = i /\ x.end # "none")
Announced(x, i, s) ==
  \/ x.id > i
  \/ x.id = i /\ x.seg > s
  \/ x.id = i /\ x.seg = s /\ x.receipt \in Announcing
Current(x, i, s) == i = x.id /\ x.end = "none" => s = x.seg /\ x.state # "suspended"

AttemptOK(x) ==
  /\ x.id = 0 => x.end # "none" /\ x.seg = 0 /\ x.receipt = "dispatch_intent"
  /\ x.state \in Busy \/ x.yield => x.receipt = "input_observed"
  /\ x.end # "none" => x.state \in {"none", "quarantined", "settled"}

\* Nothing is known of an Attempt that the controller has not admitted.
Known ==
  /\ gate.current.id <= ctl.id /\ pi.id <= ctl.id /\ work.id <= ctl.id
  /\ \A k \in gate.injected : k[1] <= ctl.id
  /\ \A r \in late : r.id <= ctl.id

\* Who waits, and for which call.
KindAt == [attempt |-> "attempt", dispatches |-> "dispatches", received |-> "adapter_received",
           gate |-> "briefing", injection |-> "injection_requested", deferring |-> "deferred",
           confirm |-> "confirm", stop |-> "stopped"]
PollMatches(at, k) ==
  IF at = "idle" THEN k.stage = "none" ELSE k.stage # "none" /\ k.request.kind = KindAt[at]
WorkMatches(at, k) ==
  /\ at \in {"none", "settling"} => k.stage = "none"
  /\ at = "observe" => k.request.kind = "input_observed"
  /\ at = "tool" => k.request.kind \in {"result_proposed", "yield"}
  /\ at = "settle" => k.request.kind \in {"completed", "aborted"}
Coupled ==
  /\ PollMatches(poll.at, call["poll"])
  /\ WorkMatches(work.at, call["work"])
  /\ call["user"].stage # "none" => call["user"].request.kind = "interruption"

\* What an answer that has come says, and goes on saying.
Good(k) == k.stage = "served" /\ k.ok
Idling == {"adapter_received", "injection_requested", "completed", "aborted", "stopped"}
CallOK(x, k) ==
  /\ k.request.id <= x.id /\ k.reply.id <= x.id
  /\ Good(k) =>
       /\ k.reply.ended => Gone(x, k.reply.id)
       /\ k.request.kind \in {"attempt", "confirm", "stopped"} \cup Events =>
            k.reply.id = k.request.id
       /\ k.request.kind \in {"stopped"} \cup Events => k.reply.seg = k.request.seg
       /\ k.request.kind \in Idling => k.reply.state \notin Busy
       /\ k.request.kind = "injection_requested" => Announced(x, k.reply.id, k.reply.seg)
Answers == \A p \in Proc : CallOK(ctl, call[p])

\* A poll with a broken fence has closed the gate; one that is about to inject, to
\* defer or to report a stop is about the segment the gate retains.
Taking == {"received", "gate", "injection", "deferring"}
Holds(r) ==
  \/ r.id = gate.current.id /\ r.seg = gate.current.seg
  \/ gate.current.id = 0 /\ Gone(ctl, r.id)
PollOK ==
  /\ poll.at # "idle" /\ ~poll.ok => gate.frozen
  /\ poll.at \in {"confirm", "stop"} => gate.frozen
  /\ poll.at \in Taking \cup {"stop"} => Holds(call["poll"].request)
  /\ poll.at = "stop" => pi.turn # "formal"

\* What is about to be injected is no segment that was, and none that is over.
TakenOK(r) ==
  /\ poll.at \in Taking => <<r.id, r.seg>> \notin gate.injected \/ r.id = 0
  /\ poll.at \in Taking \ {"deferring"} => Current(ctl, r.id, r.seg)
  /\ poll.at = "injection" /\ Good(call["poll"]) => ~(r.id = ctl.id /\ ctl.end = "released")
Taken == TakenOK(call["poll"].request)

OfferedOK(d) ==
  poll.at = "dispatches" /\ d.id # 0 =>
    /\ \A k \in gate.injected : k[1] <= d.id
    /\ d.state = "admitted" /\ ~gate.frozen /\ <<d.id, d.seg>> \notin gate.injected =>
         Current(ctl, d.id, d.seg)
    /\ pi.turn # "none" /\ pi.id = d.id /\ d.id = ctl.id => d.seg = pi.seg
Offered == OfferedOK(call["poll"].reply)

\* A turn was announced, is of the segment the controller knows, and is the one a
\* busy copy in the gate is about.
TurnOK ==
  pi.turn # "none" =>
    /\ Announced(ctl, pi.id, pi.seg) /\ Current(ctl, pi.id, pi.seg)
    /\ pi.id = ctl.id => <<pi.id, pi.seg>> \in gate.injected
    /\ pi.id = ctl.id /\ ctl.end = "released" => gate.frozen \/ gate.current.id # pi.id
    /\ gate.current.state \in Busy => gate.current.id = pi.id /\ gate.current.seg = pi.seg

\* A segment was injected and its turn has ended.
Over(i, s) ==
  i = ctl.id => <<i, s>> \in gate.injected /\ ~(pi.turn # "none" /\ pi.id = i /\ pi.seg = s)

WorkOK ==
  /\ work.at = "observe" => /\ pi.turn = "input" /\ pi.id = call["work"].request.id
                            /\ pi.seg = call["work"].request.seg
  /\ work.at = "tool" => /\ pi.turn = "formal" /\ pi.id = call["work"].request.id
                         /\ pi.seg = call["work"].request.seg
  /\ work.at = "settle" => /\ work.id = call["work"].request.id
                           /\ work.seg = call["work"].request.seg
  /\ work.at \in {"settling", "settle"} => Over(work.id, work.seg)

\* A call that was given up does no harm when it is served after all.
LateOK(r) ==
  /\ r.kind \in {"completed", "aborted"} => Over(r.id, r.seg)
  /\ r.kind \in {"deferred", "stopped"} /\ r.id = ctl.id /\ Reserved =>
       gate.frozen /\ gate.current.id = r.id /\ poll.at \notin Taking
  /\ r.kind = "deferred" /\ r.id = ctl.id /\ Reserved => <<r.id, r.seg>> \notin gate.injected
  /\ r.kind = "stopped" /\ r.id = ctl.id /\ Reserved => pi.turn # "formal"
Late == \A r \in late : LateOK(r)

IInv ==
  /\ AttemptOK(ctl) /\ Known /\ Coupled /\ Answers /\ PollOK /\ Taken /\ Offered
  /\ TurnOK /\ WorkOK /\ Late /\ DeferredNotInjected

-----------------------------------------------------------------------------
(* The controller's Attempt goes forward.                                  *)

Forward(x, y) ==
  /\ x.id <= y.id
  /\ y.id = x.id =>
       /\ x.end # "none" => y = x
       /\ x.seg <= y.seg
       /\ x.seg = y.seg /\ x.receipt \in Announcing => y.receipt \in Announcing
       /\ x.seg = y.seg /\ x.receipt = "input_observed" => y.receipt = "input_observed"
       /\ x.seg # y.seg => x.state = "suspended" /\ y.state = "admitted"

LEMMA ForwardKeeps ==
  ASSUME NEW x \in Attempts, NEW y \in Attempts, Forward(x, y), NEW i \in Nat, NEW s \in Nat
  PROVE  /\ Gone(x, i) => Gone(y, i)
         /\ Announced(x, i, s) => Announced(y, i, s)
<1>1. x.id \in Nat /\ y.id \in Nat /\ x.seg \in Nat /\ y.seg \in Nat
  BY DEF Attempts
<1> QED
  BY <1>1 DEF Forward, Gone, Announced

\* A copy that was of the controller's segment still is, unless the segment has
\* just been suspended.
LEMMA ForwardCurrent ==
  ASSUME NEW x \in Attempts, NEW y \in Attempts, Forward(x, y), NEW i \in Nat, NEW s \in Nat,
         Current(x, i, s), i <= x.id
  PROVE  \/ Current(y, i, s)
         \/ /\ i = x.id /\ s = x.seg /\ x.end = "none" /\ y.id = x.id /\ y.seg = x.seg
            /\ x.state # "suspended" /\ y.state = "suspended"
<1>1. x.id \in Nat /\ y.id \in Nat
  BY DEF Attempts
<1>2. CASE y.id # x.id
  <2>1. i # y.id
    BY <1>1, <1>2 DEF Forward
  <2> QED
    BY <2>1 DEF Current
<1>3. CASE y.id = x.id
  BY <1>3 DEF Forward, Current
<1> QED
  BY <1>2, <1>3

\* An answer stays as true as it was.
LEMMA ForwardAnswers ==
  ASSUME NEW x \in Attempts, NEW y \in Attempts, Forward(x, y), NEW k \in Calls, CallOK(x, k)
  PROVE  CallOK(y, k)
<1>1. /\ x.id \in Nat /\ y.id \in Nat /\ k.request.id \in Nat
      /\ k.reply.id \in Nat /\ k.reply.seg \in Nat
  BY DEF Attempts, Calls, Requests, Copies
<1>2. k.request.id <= y.id /\ k.reply.id <= y.id
  BY <1>1 DEF CallOK, Forward
<1> QED
  BY <1>1, <1>2, ForwardKeeps DEF CallOK

\* What an answer about the Attempt i says.
LEMMA CopyFacts ==
  ASSUME NEW x \in Attempts, NEW i \in Nat, i <= x.id
  PROVE  /\ Copy(x, i).id = i
         /\ x.id = i => Copy(x, i).seg = x.seg /\ Copy(x, i).state = x.state
         /\ Copy(x, i).ended => Gone(x, i)
         /\ x.id = i /\ x.end # "none" => Copy(x, i).ended
<1>1. CASE x.id = i
  BY <1>1 DEF Copy, Gone
<1>2. CASE x.id # i
  <2>1. x.id > i
    BY <1>2 DEF Attempts
  <2> QED
    BY <1>2, <2>1 DEF Copy, NoCopy, Gone
<1> QED
  BY <1>1, <1>2

\* What one request does to the Attempt x, and what its answer may then say.
LEMMA HandledStep ==
  ASSUME ctl \in Attempts, AttemptOK(ctl), NEW r \in Requests,
         NEW y, y = Handled(r).ctl
  PROVE  /\ y \in Attempts /\ AttemptOK(y) /\ Forward(ctl, y)
         /\ y.id = ctl.id /\ y.seg = ctl.seg
         /\ Handled(r).ok /\ r.kind \in {"stopped"} \cup Events =>
              r.id = ctl.id /\ r.seg = ctl.seg /\ Reserved
         /\ Handled(r).ok => r.kind \in {"stopped", "interruption"} \cup Events
         /\ Handled(r).ok /\ r.kind \in Idling => y.state \notin Busy
         /\ Handled(r).ok /\ r.kind = "injection_requested" =>
              y.receipt = "injection_requested" /\ y.end = "none"
         /\ ctl.state # "suspended" /\ y.state = "suspended" =>
              /\ Handled(r).ok
              /\ r.kind = "deferred" \/ (r.kind = "completed" /\ y.receipt = "input_observed")
         /\ Reserved /\ y.end = "released" =>
              Handled(r).ok /\ r.kind \in {"completed", "aborted", "stopped"}
<1>0. /\ ctl.id \in Nat /\ ctl.seg \in Nat /\ ctl.rev \in Nat /\ ctl.yield \in BOOLEAN
      /\ ctl.state \in States /\ ctl.receipt \in Receipts /\ ctl.end \in {"none", "released", "attested"}
  BY DEF Attempts
<1>1. y \in Attempts
  BY HandledType
<1>2. CASE r.kind \in Events /\ Accepted(r)
  <2>1. Handled(r).ok /\ y = Revised(Effect(r.kind))
    BY <1>2 DEF Handled, Events
  <2> DEFINE e == Effect(r.kind)
  <2>2. e \in Attempts
    BY <1>2, EffectType
  <2>3. /\ y.id = e.id /\ y.seg = e.seg /\ y.state = e.state /\ y.receipt = e.receipt
        /\ y.yield = e.yield /\ y.end = e.end
    BY <2>1, <2>2 DEF Revised, Attempts
  <2>4. r.id = ctl.id /\ r.seg = ctl.seg /\ Reserved /\ ctl.end = "none" /\ ctl.state # "quarantined"
    BY <1>2 DEF Accepted, Reserved
  <2>5. CASE r.kind \in {"adapter_received", "injection_requested"}
    <3>1. e = [ctl EXCEPT !.receipt = r.kind]
      BY <2>5 DEF Effect
    <3>2. ctl.state \notin Busy /\ ~ctl.yield
      BY <1>2, <2>5 DEF AttemptOK, Accepted
    <3>3. /\ ctl.receipt \in Announcing => e.receipt \in Announcing
          /\ ctl.receipt # "input_observed"
      BY <1>0, <1>2, <2>5, <3>1 DEF Accepted, Announcing, Attempts
    <3>4. /\ e.id = ctl.id /\ e.seg = ctl.seg /\ e.state = ctl.state /\ e.receipt = r.kind
          /\ e.yield = ctl.yield /\ e.end = ctl.end
      BY <3>1 DEF Attempts
    <3> HIDE DEF e
    <3> QED
      BY <1>0, <1>1, <2>1, <2>3, <2>4, <2>5, <3>2, <3>3, <3>4
         DEF AttemptOK, Forward, Reserved, Events, Idling
  <2>6. CASE r.kind \in {"input_observed", "result_proposed", "yield"}
    <3>1. /\ e.id = ctl.id /\ e.seg = ctl.seg /\ e.end = "none" /\ e.receipt = "input_observed"
          /\ e.state \in {"running", "result_proposed"}
      <4>1. r.kind # "input_observed" => ctl.receipt = "input_observed" /\ ctl.state = "running"
        BY <1>2, <2>6 DEF Accepted, AttemptOK, Busy
      <4> QED
        BY <2>4, <2>6, <4>1 DEF Effect, Attempts
    <3> HIDE DEF e
    <3> QED
      BY <1>0, <1>1, <2>1, <2>3, <2>4, <2>6, <3>1
         DEF AttemptOK, Forward, Reserved, Events, Idling, Announcing
  <2>7. CASE r.kind = "deferred"
    <3>1. e = [ctl EXCEPT !.state = "suspended"]
      BY <2>7 DEF Effect
    <3>2. /\ e.id = ctl.id /\ e.seg = ctl.seg /\ e.state = "suspended" /\ e.receipt = ctl.receipt
          /\ e.yield = ctl.yield /\ e.end = "none"
      BY <2>4, <3>1 DEF Attempts
    <3> HIDE DEF e
    <3> QED
      BY <1>0, <1>1, <2>1, <2>3, <2>4, <2>7, <3>2
         DEF AttemptOK, Forward, Reserved, Events, Idling, Busy
  <2>8. CASE r.kind = "completed"
    <3>1. e = Settled
      BY <2>8 DEF Effect
    <3>2. /\ e.id = ctl.id /\ e.seg = ctl.seg /\ e.receipt = ctl.receipt /\ e.yield = ctl.yield
          /\ \/ ctl.yield /\ e.state = "suspended" /\ e.end = "none"
             \/ e.state = "settled" /\ e.end = "released"
             \/ e.state = "quarantined" /\ e.end = "none"
      BY <1>0, <2>4, <3>1 DEF Attempts, Settled
    <3> HIDE DEF e
    <3> QED
      BY <1>0, <1>1, <2>1, <2>3, <2>4, <2>8, <3>2
         DEF AttemptOK, Forward, Reserved, Events, Idling, Busy
  <2>9. CASE r.kind = "aborted"
    <3>1. e = [ctl EXCEPT !.state = "quarantined", !.end = "released"]
      BY <2>9 DEF Effect
    <3>2. /\ e.id = ctl.id /\ e.seg = ctl.seg /\ e.receipt = ctl.receipt /\ e.yield = ctl.yield
          /\ e.state = "quarantined" /\ e.end = "released"
      BY <3>1 DEF Attempts
    <3> HIDE DEF e
    <3> QED
      BY <1>0, <1>1, <2>1, <2>3, <2>4, <2>9, <3>2
         DEF AttemptOK, Forward, Reserved, Events, Idling, Busy
  <2> QED
    BY <1>2, <2>5, <2>6, <2>7, <2>8, <2>9 DEF Events
<1>3. CASE r.kind = "stopped" /\ StopAccepted(r)
  <2> DEFINE e == [ctl EXCEPT !.end = "released"]
  <2>1. Handled(r).ok /\ y = Revised(e)
    BY <1>3 DEF Handled, Events
  <2>2. e \in Attempts
    BY DEF Attempts
  <2>3. /\ y.id = e.id /\ y.seg = e.seg /\ y.state = e.state /\ y.receipt = e.receipt
        /\ y.yield = e.yield /\ y.end = e.end
    BY <2>1, <2>2 DEF Revised, Attempts
  <2>4. /\ e.id = ctl.id /\ e.seg = ctl.seg /\ e.receipt = ctl.receipt /\ e.yield = ctl.yield
        /\ e.state = ctl.state /\ e.end = "released"
    BY DEF Attempts
  <2>5. r.id = ctl.id /\ r.seg = ctl.seg /\ Reserved /\ ctl.state = "quarantined"
    BY <1>3 DEF StopAccepted
  <2> HIDE DEF e
  <2> QED
    BY <1>0, <1>1, <1>3, <2>1, <2>3, <2>4, <2>5
       DEF AttemptOK, Forward, Reserved, Events, Idling, Busy
<1>4. CASE r.kind = "interruption"
  <2> DEFINE q == [ctl EXCEPT !.state = "quarantined", !.rev = @ + 1]
  <2>1. Handled(r) = [ok |-> TRUE, ctl |-> IF Reserved THEN q ELSE ctl]
    BY <1>4 DEF Handled, Events
  <2>2. /\ q.id = ctl.id /\ q.seg = ctl.seg /\ q.receipt = ctl.receipt /\ q.yield = ctl.yield
        /\ q.state = "quarantined" /\ q.end = ctl.end
    BY DEF Attempts
  <2> HIDE DEF q
  <2>3. y = IF Reserved THEN q ELSE ctl
    BY <2>1
  <2> QED
    BY <1>0, <1>1, <1>4, <2>2, <2>3 DEF AttemptOK, Forward, Reserved, Events, Idling, Busy
<1>5. CASE /\ ~(r.kind \in Events /\ Accepted(r))
           /\ ~(r.kind = "stopped" /\ StopAccepted(r))
           /\ r.kind # "interruption"
  <2>1. ~Handled(r).ok /\ y = ctl
    BY <1>5 DEF Handled
  <2> QED
    BY <1>0, <1>1, <2>1 DEF Forward, Reserved
<1> QED
  BY <1>2, <1>3, <1>4, <1>5

-----------------------------------------------------------------------------
(* Steps of the controller: the adapter stays as it is.                    *)

\* A segment is suspended only before it was injected, or after its turn; an
\* Attempt is released only before its input was announced, after its turn, or
\* when the adapter is closed and nothing runs.
Suspends ==
  /\ ctl'.id = ctl.id /\ ctl'.seg = ctl.seg /\ Reserved
  /\ ctl.state # "suspended" /\ ctl'.state = "suspended"
Releases == Reserved /\ ctl'.id = ctl.id /\ ctl'.seg = ctl.seg /\ ctl'.end = "released"
Untouched ==
  /\ <<ctl.id, ctl.seg>> \notin gate.injected
  /\ poll.at \notin Taking \ {"deferring"}
  /\ poll.at = "dispatches" => gate.frozen
AtRest == gate.frozen /\ pi.turn # "formal" /\ poll.at # "injection"
Unannounced == ctl.receipt \notin Announcing \/ ctl.state = "suspended"

Advance ==
  /\ UNCHANGED <<gate, pi, poll, work>>
  /\ Forward(ctl, ctl') /\ AttemptOK(ctl')
  /\ Suspends => Untouched \/ (Over(ctl.id, ctl.seg) /\ ctl'.receipt = "input_observed")
  /\ Releases => Unannounced \/ Over(ctl.id, ctl.seg) \/ AtRest
  /\ ctl'.end = "released" => Releases \/ ctl' = ctl
  /\ ctl'.state = "suspended" =>
       Suspends \/ (ctl.state = "suspended" /\ ctl'.id = ctl.id /\ ctl'.seg = ctl.seg)
  /\ late' \subseteq late

\* Nothing of what is said of the adapter is disturbed by what the controller
\* does.
LEMMA AdvanceKeeps ==
  ASSUME TypeOK, TypeOK', IInv, Advance
  PROVE  /\ Known' /\ TurnOK' /\ DeferredNotInjected' /\ Late'
         /\ \A i \in Nat, s \in Nat : i <= ctl.id /\ Over(i, s) => Over(i, s)'
<1>0. /\ ctl \in Attempts /\ ctl' \in Attempts /\ ctl.id \in Nat /\ ctl.seg \in Nat
      /\ ctl'.id \in Nat /\ ctl'.seg \in Nat /\ ctl.id <= ctl'.id
      /\ pi.id \in Nat /\ pi.seg \in Nat /\ gate.current.id \in Nat /\ work.id \in Nat
      /\ gate.injected \subseteq Nat \X Nat /\ late \subseteq Requests
      /\ \A r \in late : r.id \in Nat /\ r.seg \in Nat
  BY DEF TypeOK, Attempts, Advance, Forward, Copies, Requests
<1>a. UNCHANGED <<gate, pi, poll, work>> /\ late' \subseteq late
  BY DEF Advance
<1>1. Known'
  <2>1. Known /\ \A k \in gate.injected : k[1] \in Nat
    BY <1>0 DEF IInv
  <2> QED
    BY <1>0, <1>a, <2>1 DEF Known
<1>2. \A i \in Nat, s \in Nat : i <= ctl.id /\ Over(i, s) => Over(i, s)'
  BY <1>0, <1>a DEF Over
<1>3. TurnOK'
  <2> SUFFICES ASSUME pi.turn # "none" PROVE TurnOK'
    BY <1>a DEF TurnOK
  <2>1. /\ Announced(ctl, pi.id, pi.seg) /\ Current(ctl, pi.id, pi.seg) /\ pi.id <= ctl.id
        /\ pi.id = ctl.id => <<pi.id, pi.seg>> \in gate.injected
        /\ pi.id = ctl.id /\ ctl.end = "released" => gate.frozen \/ gate.current.id # pi.id
        /\ gate.current.state \in Busy => gate.current.id = pi.id /\ gate.current.seg = pi.seg
    BY DEF IInv, TurnOK, Known
  <2>2. Announced(ctl', pi.id, pi.seg)
    BY <1>0, <2>1, ForwardKeeps DEF Advance
  <2>3. Current(ctl', pi.id, pi.seg)
    <3> SUFFICES ASSUME Suspends, pi.id = ctl.id, pi.seg = ctl.seg PROVE FALSE
      BY <1>0, <2>1, ForwardCurrent DEF Advance, Suspends, Reserved
    <3> QED
      BY <2>1 DEF Advance, Untouched, Over
  <2>4. ctl'.id = pi.id => pi.id = ctl.id
    BY <1>0, <2>1
  <2>5. pi.id = ctl'.id /\ ctl'.end = "released" => gate.frozen \/ gate.current.id # pi.id
    <3> SUFFICES ASSUME pi.id = ctl.id, ctl'.id = ctl.id, Releases, ~gate.frozen PROVE FALSE
      BY <2>1, <2>4 DEF Advance
    <3>1. pi.seg = ctl.seg /\ ctl.state # "suspended"
      BY <2>1 DEF Current, Releases, Reserved
    <3>2. ctl.receipt \in Announcing
      BY <1>0, <2>1, <3>1 DEF Announced
    <3>3. Over(ctl.id, ctl.seg)
      BY <3>1, <3>2 DEF Advance, Unannounced, AtRest
    <3> QED
      BY <3>1, <3>3 DEF Over
  <2> QED
    BY <1>a, <2>1, <2>2, <2>3, <2>4, <2>5 DEF TurnOK
<1>4. DeferredNotInjected'
  <2> SUFFICES ASSUME ctl'.state = "suspended", ctl'.receipt # "input_observed"
               PROVE  <<ctl'.id, ctl'.seg>> \notin gate.injected
    BY <1>a DEF DeferredNotInjected
  <2>1. CASE ctl.state = "suspended" /\ ctl'.id = ctl.id /\ ctl'.seg = ctl.seg
    <3>1. ctl.receipt # "input_observed"
      BY <2>1 DEF Advance, Forward
    <3> QED
      BY <2>1, <3>1 DEF IInv, DeferredNotInjected
  <2>2. CASE Suspends
    BY <2>2 DEF Advance, Suspends, Untouched
  <2> QED
    BY <2>1, <2>2 DEF Advance
<1>5. Late'
  <2> SUFFICES ASSUME NEW r \in late PROVE LateOK(r)'
    BY <1>a DEF Late
  <2>1. LateOK(r) /\ r.id <= ctl.id
    BY DEF IInv, Late, Known
  <2>2. r.kind \in {"completed", "aborted"} => Over(r.id, r.seg)'
    BY <1>0, <1>2, <2>1 DEF LateOK
  <2>3. r.id = ctl'.id /\ Reserved' => r.id = ctl.id /\ Reserved
    BY <1>0, <2>1 DEF Advance, Forward, Reserved
  <2> QED
    BY <1>a, <2>1, <2>2, <2>3 DEF LateOK
<1> QED
  BY <1>1, <1>2, <1>3, <1>4, <1>5

LEMMA AdvancePoll ==
  ASSUME TypeOK, TypeOK', IInv, Advance, NEW r \in Requests, r.id <= ctl.id,
         r.id = call["poll"].request.id, r.seg = call["poll"].request.seg,
         NEW d \in Copies, d.id <= ctl.id, poll.at = "dispatches" => d = call["poll"].reply
  PROVE  /\ poll.at \in Taking \cup {"stop"} => (Holds(r))'
         /\ poll.at \in Taking => <<r.id, r.seg>> \notin gate.injected \/ r.id = 0
         /\ poll.at \in Taking \ {"deferring"} => Current(ctl', r.id, r.seg)
         /\ poll.at = "injection" /\ Good(call["poll"]) =>
              ~(r.id = ctl'.id /\ ctl'.end = "released")
         /\ (OfferedOK(d))'
<1>0. /\ ctl \in Attempts /\ ctl' \in Attempts /\ ctl.id \in Nat /\ ctl.seg \in Nat
      /\ ctl'.id \in Nat /\ ctl.id <= ctl'.id /\ r.id \in Nat /\ r.seg \in Nat
      /\ d.id \in Nat /\ d.seg \in Nat
  BY DEF TypeOK, Attempts, Advance, Forward, Copies, Requests
<1>a. UNCHANGED <<gate, pi, poll, work>>
  BY DEF Advance
<1>b. ctl.id # 0 \/ ~Reserved
  BY DEF IInv, AttemptOK, Reserved
<1>1. poll.at \in Taking \cup {"stop"} => (Holds(r))'
  <2>1. poll.at \in Taking \cup {"stop"} => Holds(r)
    BY DEF IInv, PollOK, Holds
  <2>2. Gone(ctl, r.id) => Gone(ctl', r.id)
    BY <1>0, ForwardKeeps DEF Advance
  <2> QED
    BY <1>a, <2>1, <2>2 DEF Holds
<1>2. poll.at \in Taking => <<r.id, r.seg>> \notin gate.injected \/ r.id = 0
  BY DEF IInv, Taken, TakenOK
<1>c. poll.at \in Taking \ {"deferring"} => Current(ctl, r.id, r.seg)
  BY DEF IInv, Taken, TakenOK
<1>3. poll.at \in Taking \ {"deferring"} => Current(ctl', r.id, r.seg)
  <2> SUFFICES ASSUME poll.at \in Taking \ {"deferring"}, Suspends, r.id = ctl.id, r.seg = ctl.seg
               PROVE  FALSE
    BY <1>0, <1>c, ForwardCurrent DEF Advance, Suspends, Reserved
  <2> QED
    BY <1>2, <1>b DEF Advance, Untouched, Over, Suspends
<1>4. poll.at = "injection" /\ Good(call["poll"]) => ~(r.id = ctl'.id /\ ctl'.end = "released")
  <2> SUFFICES ASSUME poll.at = "injection", Good(call["poll"]),
                      r.id = ctl'.id, ctl'.end = "released"
               PROVE  FALSE
    OBVIOUS
  <2>1. r.id = ctl.id /\ ctl'.id = ctl.id
    BY <1>0
  <2>2. Releases
    <3>1. ~(r.id = ctl.id /\ ctl.end = "released")
      BY DEF IInv, Taken, TakenOK
    <3> QED
      BY <2>1, <3>1 DEF Advance
  <2>3. r.seg = ctl.seg /\ ctl.state # "suspended"
    BY <1>c, <2>1, <2>2 DEF Taking, Current, Releases, Reserved
  <2>4. ctl.receipt \in Announcing
    <3>1. CallOK(ctl, call["poll"]) /\ PollMatches("injection", call["poll"])
      BY DEF IInv, Answers, Coupled, Proc
    <3>2. Announced(ctl, r.id, r.seg)
      BY <3>1 DEF CallOK, PollMatches, KindAt, Events
    <3> QED
      BY <1>0, <2>1, <2>3, <3>2 DEF Announced
  <2>5. Over(ctl.id, ctl.seg)
    BY <2>2, <2>3, <2>4 DEF Advance, AtRest, Unannounced
  <2> QED
    BY <1>2, <1>b, <2>1, <2>2, <2>3, <2>5 DEF Over, Taking, Releases
<1>5. (OfferedOK(d))'
  <2> SUFFICES ASSUME poll.at = "dispatches", d.id # 0
               PROVE  (OfferedOK(d))'
    BY <1>a DEF OfferedOK
  <2>1. OfferedOK(d)
    BY DEF IInv, Offered
  <2>2. ASSUME d.state = "admitted", ~gate.frozen, <<d.id, d.seg>> \notin gate.injected
        PROVE  Current(ctl', d.id, d.seg)
    <3>1. Current(ctl, d.id, d.seg)
      BY <2>1, <2>2 DEF OfferedOK
    <3> SUFFICES ASSUME Suspends, d.id = ctl.id, d.seg = ctl.seg PROVE FALSE
      BY <1>0, <3>1, ForwardCurrent DEF Advance, Suspends, Reserved
    <3> QED
      BY <2>2 DEF Advance, Untouched, Over
  <2>3. d.id = ctl'.id => d.id = ctl.id
    BY <1>0
  <2> QED
    BY <1>a, <2>1, <2>2, <2>3 DEF OfferedOK
<1> QED
  BY <1>1, <1>2, <1>3, <1>4, <1>5

LEMMA AdvanceInvariant ==
  ASSUME TypeOK, TypeOK', IInv, Advance, Coupled', Answers',
         \A p \in Proc : /\ call'[p].request.id = call[p].request.id
                         /\ call'[p].request.seg = call[p].request.seg,
         poll.at = "dispatches" => call'["poll"].reply \in {call["poll"].reply, NoCopy},
         poll.at = "injection" /\ Good(call'["poll"]) => Good(call["poll"]) \/ Reserved'
  PROVE  IInv'
<1>0. "poll" \in Proc /\ "work" \in Proc /\ UNCHANGED <<gate, pi, poll, work>>
  BY DEF Proc, Advance
<1>1. CallOK(ctl, call["poll"]) /\ ctl.id \in Nat /\ call["poll"] \in Calls
  BY <1>0 DEF IInv, Answers, TypeOK, Attempts
<1>2. PICK r \in Requests : r = call["poll"].request /\ r.id <= ctl.id
  BY <1>1 DEF Calls, CallOK
<1>b. PICK d \in Copies : d.id <= ctl.id /\ d = IF poll.at = "dispatches" THEN call["poll"].reply ELSE NoCopy
  BY <1>1, CopyTypes DEF Calls, CallOK, NoCopy
<1> DEFINE q == call'["poll"].request
<1>3. /\ poll.at \in Taking \cup {"stop"} => (Holds(r))'
      /\ poll.at \in Taking => <<r.id, r.seg>> \notin gate.injected \/ r.id = 0
      /\ poll.at \in Taking \ {"deferring"} => Current(ctl', r.id, r.seg)
      /\ poll.at = "injection" /\ Good(call["poll"]) => ~(r.id = ctl'.id /\ ctl'.end = "released")
      /\ (OfferedOK(d))'
  <2>1. poll.at = "dispatches" => d = call["poll"].reply
    BY <1>b
  <2>2. r.id = call["poll"].request.id /\ r.seg = call["poll"].request.seg /\ r.id <= ctl.id /\ d.id <= ctl.id
    BY <1>2, <1>b
  <2> QED
    BY <2>1, <2>2, AdvancePoll
<1>a. q.id = r.id /\ q.seg = r.seg
  BY <1>0, <1>2
<1>4. PollOK'
  <2>1. poll.at \in Taking \cup {"stop"} => (Holds(call["poll"].request))'
    BY <1>3, <1>a DEF Holds
  <2> QED
    BY <1>0, <2>1 DEF IInv, PollOK
<1>5. Taken'
  <2>1. poll.at = "injection" /\ Good(call'["poll"]) => ~(r.id = ctl'.id /\ ctl'.end = "released")
    BY <1>3 DEF Reserved
  <2> QED
    BY <1>0, <1>3, <1>a, <2>1 DEF Taken, TakenOK
<1>6. Offered'
  <2>1. poll.at = "dispatches" => call'["poll"].reply \in {d, NoCopy}
    BY <1>b
  <2> QED
    BY <1>0, <1>3, <2>1 DEF Offered, OfferedOK, NoCopy
<1>7. WorkOK'
  <2>1. PICK i \in Nat, t \in Nat : i = work.id /\ t = work.seg
    BY DEF TypeOK
  <2>2. work.at \in {"settling", "settle"} => (Over(work.id, work.seg))'
    <3>1. i <= ctl.id /\ (work.at \in {"settling", "settle"} => Over(i, t))
      BY <2>1 DEF IInv, Known, WorkOK
    <3>2. work.at \in {"settling", "settle"} => (Over(i, t))'
      BY <3>1, AdvanceKeeps
    <3> QED
      BY <1>0, <2>1, <3>2 DEF Over
  <2> QED
    BY <1>0, <2>2 DEF IInv, WorkOK
<1> QED
  BY <1>4, <1>5, <1>6, <1>7, AdvanceKeeps DEF Advance, IInv

\* The controller acts by itself: its Attempt goes forward.
LEMMA ControllerKeeps ==
  ASSUME TypeOK, TypeOK', IInv, Controller
  PROVE  IInv' /\ Advance
<1>0. /\ ctl.id \in Nat /\ ctl.seg \in Nat /\ ctl.end \in {"none", "released", "attested"}
      /\ ctl \in Attempts /\ ctl' \in Attempts /\ AttemptOK(ctl)
  BY DEF TypeOK, Attempts, IInv
<1>1. UNCHANGED <<gate, pi, poll, work, call, late>>
  BY DEF Controller
<1>2. Forward(ctl, ctl') /\ AttemptOK(ctl') /\ (ctl'.state = "suspended" => ctl' = ctl)
      /\ (ctl'.end = "released" =>
            Reserved /\ ctl'.id = ctl.id /\ ctl'.seg = ctl.seg /\ Unannounced)
  <2>1. CASE Admit
    <3>1. /\ ctl'.id = ctl.id + 1 /\ ctl'.state = "admitted" /\ ~ctl'.yield /\ ctl'.end = "none"
      BY <2>1 DEF Admit, NoAttempt
    <3> QED
      BY <1>0, <3>1 DEF Forward, AttemptOK, Busy
  <2>2. CASE Continue
    <3>1. /\ ctl'.id = ctl.id /\ ctl'.seg = ctl.seg + 1 /\ ctl'.state = "admitted" /\ ~ctl'.yield
          /\ ctl'.end = "none" /\ ctl.end = "none" /\ ctl.state = "suspended"
      BY <2>2 DEF Continue, Attempts, Reserved
    <3> QED
      BY <1>0, <3>1 DEF Forward, AttemptOK, Busy
  <2>3. CASE Quarantine \/ CancelAtOnce \/ Attest
    <3>1. /\ ctl'.id = ctl.id /\ ctl'.seg = ctl.seg /\ ctl'.state = "quarantined"
          /\ ctl'.yield = ctl.yield /\ ctl'.receipt = ctl.receipt /\ ctl.end = "none"
          /\ ctl'.end = "released" => Unannounced
      <4>1. /\ ctl.end = "none"
            /\ \E n \in Nat, e \in {"none", "released", "attested"} :
                 /\ ctl' = [ctl EXCEPT !.state = "quarantined", !.rev = n, !.end = e]
                 /\ e = "released" => Unannounced
        <5>1. CASE Quarantine
          <6>1. ctl.rev + 1 \in Nat /\ ctl.end = "none"
            BY <1>0, <5>1 DEF Attempts, Quarantine, Reserved
          <6>2. ctl' = [ctl EXCEPT !.state = "quarantined", !.rev = ctl.rev + 1, !.end = "none"]
            BY <1>0, <5>1, <6>1 DEF Quarantine, Attempts
          <6> QED
            BY <6>1, <6>2
        <5>2. CASE CancelAtOnce \/ Attest
          BY <5>2 DEF CancelAtOnce, Attest, Reserved, Unannounced, Announcing
        <5> QED
          BY <2>3, <5>1, <5>2
      <4> QED
        BY <1>0, <4>1 DEF Attempts
    <3>2. Forward(ctl, ctl')
      BY <1>0, <3>1 DEF Forward
    <3>3. AttemptOK(ctl')
      BY <1>0, <3>1 DEF AttemptOK, Busy
    <3> QED
      BY <3>1, <3>2, <3>3 DEF Reserved
  <2> QED
    BY <2>1, <2>2, <2>3 DEF Controller
<1>3. Advance
  BY <1>1, <1>2 DEF Advance, Suspends, Releases
<1>4. Coupled' /\ Answers'
  <2>1. \A p \in Proc : CallOK(ctl, call[p]) /\ call[p] \in Calls
    BY DEF IInv, Answers, TypeOK
  <2>2. \A p \in Proc : CallOK(ctl', call[p])
    BY <1>0, <1>2, <2>1, ForwardAnswers
  <2> QED
    BY <1>1, <2>2 DEF Answers, IInv, Coupled
<1> QED
  BY <1>1, <1>3, <1>4, AdvanceInvariant

\* One transaction on a request that the adapter is known to have sent.
LEMMA HandledAdvances ==
  ASSUME TypeOK, TypeOK', IInv, NEW r \in Requests, ctl' = Handled(r).ctl,
         UNCHANGED <<gate, pi, poll, work>>, late' \subseteq late,
         r.kind = "deferred" /\ r.id = ctl.id /\ r.seg = ctl.seg /\ Reserved => Untouched,
         r.kind \in {"completed", "aborted"} => Over(r.id, r.seg),
         r.kind = "stopped" /\ r.id = ctl.id /\ Reserved => AtRest
  PROVE  Advance
<1>1. AttemptOK(ctl) /\ ctl \in Attempts
  BY DEF IInv, TypeOK
<1>2. /\ AttemptOK(ctl') /\ Forward(ctl, ctl')
      /\ ctl'.id = ctl.id /\ ctl'.seg = ctl.seg
      /\ Handled(r).ok /\ r.kind \in {"stopped"} \cup Events =>
           r.id = ctl.id /\ r.seg = ctl.seg /\ Reserved
      /\ ctl.state # "suspended" /\ ctl'.state = "suspended" =>
           /\ Handled(r).ok
           /\ r.kind = "deferred" \/ (r.kind = "completed" /\ ctl'.receipt = "input_observed")
      /\ Reserved /\ ctl'.end = "released" =>
           Handled(r).ok /\ r.kind \in {"completed", "aborted", "stopped"}
  BY <1>1, HandledStep
<1>3. Suspends => Untouched \/ (Over(ctl.id, ctl.seg) /\ ctl'.receipt = "input_observed")
  BY <1>2 DEF Suspends, Events
<1>4. Releases => Unannounced \/ Over(ctl.id, ctl.seg) \/ AtRest
  BY <1>2 DEF Releases, Events
<1>5. ctl'.end = "released" => Releases \/ ctl' = ctl
  BY <1>2 DEF Releases, Reserved, Forward
<1>6. ctl'.state = "suspended" =>
        Suspends \/ (ctl.state = "suspended" /\ ctl'.id = ctl.id /\ ctl'.seg = ctl.seg)
  BY <1>2 DEF Suspends, Reserved, Forward
<1> QED
  BY <1>2, <1>3, <1>4, <1>5, <1>6 DEF Advance

\* A call that was given up is served after all.
LEMMA ServeLateKeeps ==
  ASSUME TypeOK, TypeOK', IInv, ServeLate
  PROVE  IInv' /\ Advance
<1> PICK r \in late : late' = late \ {r} /\ ctl' = Handled(r).ctl
                      /\ UNCHANGED <<gate, pi, poll, work, call, mishaps>>
  BY DEF ServeLate
<1>1. r \in Requests /\ LateOK(r) /\ ctl \in Attempts /\ ctl' \in Attempts /\ AttemptOK(ctl)
  BY DEF TypeOK, IInv, Late
<1>2. Advance
  <2>1. r.kind = "deferred" /\ r.id = ctl.id /\ r.seg = ctl.seg /\ Reserved => Untouched
    BY <1>1 DEF LateOK, Untouched
  <2>2. r.kind \in {"completed", "aborted"} => Over(r.id, r.seg)
    BY <1>1 DEF LateOK
  <2>3. r.kind = "stopped" /\ r.id = ctl.id /\ Reserved => AtRest
    BY <1>1 DEF LateOK, AtRest, Taking
  <2> QED
    BY <1>1, <2>1, <2>2, <2>3, HandledAdvances
<1>3. Coupled' /\ Answers'
  <2>1. \A p \in Proc : CallOK(ctl, call[p]) /\ call[p] \in Calls
    BY DEF IInv, Answers, TypeOK
  <2>2. Forward(ctl, ctl')
    BY <1>2 DEF Advance
  <2>3. \A p \in Proc : CallOK(ctl', call[p])
    BY <1>1, <2>1, <2>2, ForwardAnswers
  <2> QED
    BY <2>3 DEF Answers, IInv, Coupled
<1> QED
  BY <1>2, <1>3, AdvanceInvariant

\* Which of the three waits for a call of a kind.
LEMMA WaitsFor ==
  ASSUME TypeOK, IInv, NEW p \in Proc, call[p].stage # "none"
  PROVE  LET kind == call[p].request.kind IN
         /\ kind = "deferred" => p = "poll" /\ poll.at = "deferring"
         /\ kind = "injection_requested" => p = "poll" /\ poll.at = "injection"
         /\ kind = "stopped" => p = "poll" /\ poll.at = "stop"
         /\ kind \in {"completed", "aborted"} => p = "work" /\ work.at = "settle"
<1>1. CASE p = "poll"
  <2>1. PollMatches(poll.at, call["poll"])
    BY DEF IInv, Coupled
  <2> QED
    BY <1>1, <2>1 DEF PollMatches, KindAt, TypeOK
<1>2. CASE p = "work"
  <2>1. WorkMatches(work.at, call["work"])
    BY DEF IInv, Coupled
  <2> QED
    BY <1>2, <2>1 DEF WorkMatches, TypeOK
<1>3. CASE p = "user"
  BY <1>3 DEF IInv, Coupled
<1> QED
  BY <1>1, <1>2, <1>3 DEF Proc

LEMMA ServeKeeps ==
  ASSUME TypeOK, TypeOK', IInv, NEW p \in Proc, Serve(p)
  PROVE  IInv' /\ Advance
<1> PICK r \in Requests : r = call[p].request
  BY DEF TypeOK, Calls
<1> DEFINE y == Handled(r).ctl
           ok == Handled(r).ok
           a == IF ok THEN Answer(y, r) ELSE NoCopy
           k == call'[p]
<1>0. /\ ctl \in Attempts /\ ctl' \in Attempts /\ AttemptOK(ctl) /\ call \in [Proc -> Calls]
      /\ ctl.id \in Nat /\ ctl.seg \in Nat /\ r.id \in Nat
      /\ \A q \in Proc : CallOK(ctl, call[q])
      /\ call[p].stage = "sent"
  BY DEF TypeOK, Attempts, IInv, Answers, Requests, Serve
<1>1. /\ ctl' = y /\ UNCHANGED <<gate, pi, poll, work, late>>
      /\ call' = [call EXCEPT ![p] = [call[p] EXCEPT !.stage = "served", !.ok = ok,
                                                     !.request.rev = 0, !.reply = a]]
  BY DEF Serve
<1>2. /\ k.stage = "served" /\ k.ok = ok /\ k.reply = a
      /\ k.request.kind = r.kind /\ k.request.id = r.id /\ k.request.seg = r.seg
  <2>1. k = [call[p] EXCEPT !.stage = "served", !.ok = ok, !.request.rev = 0, !.reply = a]
    BY <1>0, <1>1
  <2> HIDE DEF a, ok, k
  <2>2. call[p] \in Calls
    BY <1>0
  <2>3. k.stage = "served" /\ k.ok = ok /\ k.reply = a
    BY <2>1, <2>2 DEF Calls
  <2>4. k.request = [r EXCEPT !.rev = 0]
    BY <2>1, <2>2 DEF Calls
  <2> QED
    BY <2>3, <2>4 DEF Requests
<1>3. \A q \in Proc \ {p} : call'[q] = call[q]
  BY <1>0, <1>1
<1>4. /\ y \in Attempts /\ Forward(ctl, y) /\ y.id = ctl.id /\ y.seg = ctl.seg
      /\ ok /\ r.kind \in {"stopped"} \cup Events => r.id = ctl.id /\ r.seg = ctl.seg /\ Reserved
      /\ ok => r.kind \in {"stopped", "interruption"} \cup Events
      /\ ok /\ r.kind \in Idling => y.state \notin Busy
      /\ ok /\ r.kind = "injection_requested" => y.receipt = "injection_requested" /\ y.end = "none"
  BY <1>0, HandledStep
<1>5. Advance
  <2>1. r.kind = "deferred" /\ r.id = ctl.id /\ r.seg = ctl.seg /\ Reserved => Untouched
    <3> SUFFICES ASSUME r.kind = "deferred", r.id = ctl.id, r.seg = ctl.seg, Reserved
                 PROVE  Untouched
      OBVIOUS
    <3>1. p = "poll" /\ poll.at = "deferring"
      BY <1>0, WaitsFor
    <3>2. ctl.id # 0
      BY <1>0 DEF AttemptOK, Reserved
    <3> QED
      BY <3>1, <3>2 DEF IInv, Taken, TakenOK, Taking, Untouched
  <2>2. r.kind \in {"completed", "aborted"} => Over(r.id, r.seg)
    BY <1>0, WaitsFor DEF IInv, WorkOK
  <2>3. r.kind = "stopped" => AtRest
    BY <1>0, WaitsFor DEF IInv, PollOK, AtRest
  <2> QED
    BY <1>1, <2>1, <2>2, <2>3, HandledAdvances
<1>6. Answers'
  <2>1. ASSUME NEW q \in Proc \ {p} PROVE CallOK(ctl', call'[q])
    <3>1. call[q] \in Calls /\ CallOK(ctl, call[q]) /\ Forward(ctl, ctl')
      BY <1>0, <1>1, <1>4
    <3>2. CallOK(ctl', call[q])
      BY <1>0, <3>1, ForwardAnswers
    <3> QED
      BY <1>3, <3>2
  <2>2. CallOK(y, k)
    <3>1. r.id <= y.id
      BY <1>0, <1>4 DEF CallOK
    <3>2. CASE ~ok
      BY <1>0, <1>2, <1>4, <3>1, <3>2 DEF CallOK, Good, NoCopy
    <3>3. CASE ok
      <4>1. k.reply = Copy(y, r.id)
        BY <1>2, <1>4, <3>3 DEF Answer, Events
      <4>2. /\ k.reply.id = r.id
            /\ y.id = r.id => k.reply.seg = y.seg /\ k.reply.state = y.state
            /\ k.reply.ended => Gone(y, k.reply.id)
        BY <1>0, <1>4, <3>1, <4>1, CopyFacts
      <4>4. r.kind = "injection_requested" => Announced(y, k.reply.id, k.reply.seg)
        BY <1>4, <3>3, <4>2 DEF Announced, Announcing, Events
      <4> HIDE DEF y, ok, k
      <4>5. r.kind \in {"stopped"} \cup Events => k.reply.seg = r.seg
        BY <1>4, <3>3, <4>2
      <4>6. r.kind \in Idling => k.reply.state \notin Busy
        BY <1>4, <3>3, <4>2 DEF Idling, Events
      <4> QED
        BY <1>2, <3>1, <4>2, <4>4, <4>5, <4>6 DEF CallOK
    <3> QED
      BY <3>2, <3>3
  <2> QED
    BY <1>1, <2>1, <2>2 DEF Answers
<1>7. Coupled'
  <2>1. \A q \in Proc : /\ call'[q].request.kind = call[q].request.kind
                        /\ call'[q].stage = "none" <=> call[q].stage = "none"
    BY <1>0, <1>2, <1>3
  <2>2. "poll" \in Proc /\ "work" \in Proc /\ "user" \in Proc
    BY DEF Proc
  <2> HIDE DEF k
  <2> QED
    BY <1>1, <2>1, <2>2 DEF IInv, Coupled, PollMatches, WorkMatches
<1>8. \A q \in Proc : /\ call'[q].request.id = call[q].request.id
                      /\ call'[q].request.seg = call[q].request.seg
  BY <1>2, <1>3
<1>9. /\ call'["poll"].reply \in {call["poll"].reply, NoCopy} \/ poll.at # "dispatches"
      /\ poll.at = "injection" /\ Good(call'["poll"]) => Good(call["poll"]) \/ Reserved'
  <2>1. CASE p = "poll"
    <3>1. r.kind = KindAt[poll.at]
      BY <1>0, <2>1 DEF IInv, Coupled, PollMatches
    <3>2. poll.at = "dispatches" => ~ok
      BY <1>4, <3>1 DEF KindAt, Events
    <3>3. poll.at = "injection" /\ ok => Reserved'
      BY <1>1, <1>4, <3>1 DEF KindAt, Reserved
    <3> QED
      BY <1>2, <2>1, <3>2, <3>3 DEF Good
  <2>2. CASE p # "poll"
    <3>1. call'["poll"] = call["poll"]
      BY <1>3, <2>2 DEF Proc
    <3> QED
      BY <3>1
  <2> QED
    BY <2>1, <2>2
<1> QED
  BY <1>5, <1>6, <1>7, <1>8, <1>9, AdvanceInvariant

-----------------------------------------------------------------------------
(* Steps of the adapter: the controller stays as it is.                    *)

\* The session keeps its turn, ends it, or begins one at an open gate.
PiCalm ==
  /\ pi'.turn # "none" => pi.turn # "none" /\ pi'.id = pi.id /\ pi'.seg = pi.seg
  /\ pi'.turn = "formal" => pi.turn = "formal" \/ ~gate.frozen
  /\ pi'.id <= ctl.id

\* The gate keeps what it retains, a newer copy of it perhaps.
GateCalm ==
  /\ gate'.injected = gate.injected /\ (gate.frozen => gate'.frozen)
  /\ gate'.current.id = gate.current.id /\ gate'.current.seg = gate.current.seg
  /\ gate'.current.state \in Busy =>
       \/ gate.current.state \in Busy \/ pi'.turn = "none"
       \/ pi'.id = gate.current.id /\ pi'.seg = gate.current.seg

\* The gate lets go of what is over, or of what it has deferred.
GateLets ==
  /\ gate'.injected = gate.injected /\ gate'.current.id = 0
  /\ gate'.current.state \notin Busy \/ gate'.current = gate.current
  /\ Gone(ctl, gate.current.id) \/ poll.at = "deferring"

LEMMA NothingIsZero ==
  ASSUME TypeOK, IInv
  PROVE  /\ ctl.id = 0 => ~Reserved
         /\ pi.turn # "none" => ~(pi.id = 0 /\ ctl.id = 0)
BY DEF TypeOK, IInv, AttemptOK, TurnOK, Announced, Announcing, Reserved

LEMMA CalmKeeps ==
  ASSUME TypeOK, TypeOK', IInv, ctl' = ctl, PiCalm, GateCalm \/ GateLets
  PROVE  /\ TurnOK' /\ DeferredNotInjected'
         /\ \A i, s : Over(i, s) => Over(i, s)'
         /\ (poll'.at \in Taking => poll.at \in Taking) => \A r \in late : LateOK(r)'
<1>0. gate'.injected = gate.injected
  BY DEF GateCalm, GateLets
<1>1. TurnOK'
  <2> SUFFICES ASSUME pi'.turn # "none" PROVE TurnOK'
    BY DEF TurnOK
  <2>1. pi.turn # "none" /\ pi'.id = pi.id /\ pi'.seg = pi.seg
    BY DEF PiCalm
  <2>2. /\ Announced(ctl, pi.id, pi.seg) /\ Current(ctl, pi.id, pi.seg)
        /\ pi.id = ctl.id => <<pi.id, pi.seg>> \in gate.injected
        /\ pi.id = ctl.id /\ ctl.end = "released" => gate.frozen \/ gate.current.id # pi.id
        /\ gate.current.state \in Busy => gate.current.id = pi.id /\ gate.current.seg = pi.seg
    BY <2>1 DEF IInv, TurnOK
  <2>3. /\ pi.id = ctl.id /\ ctl.end = "released" => gate'.frozen \/ gate'.current.id # pi.id
        /\ gate'.current.state \in Busy => gate'.current.id = pi.id /\ gate'.current.seg = pi.seg
    <3>1. CASE GateCalm
      BY <2>1, <2>2, <3>1 DEF GateCalm
    <3>2. CASE GateLets
      <4>1. ~(pi.id = 0 /\ ctl.id = 0)
        BY <2>1, NothingIsZero
      <4> QED
        BY <2>2, <3>2, <4>1 DEF GateLets
    <3> QED
      BY <3>1, <3>2
  <2> QED
    BY <1>0, <2>1, <2>2, <2>3 DEF TurnOK
<1>2. DeferredNotInjected'
  BY <1>0 DEF IInv, DeferredNotInjected
<1>3. \A i, s : Over(i, s) => Over(i, s)'
  BY <1>0 DEF Over, PiCalm
<1>4. ASSUME poll'.at \in Taking => poll.at \in Taking, NEW r \in late
      PROVE  LateOK(r)'
  <2>1. LateOK(r)
    BY DEF IInv, Late
  <2>2. r.kind \in {"completed", "aborted"} => Over(r.id, r.seg)'
    BY <1>3, <2>1 DEF LateOK
  <2>3. ASSUME r.kind \in {"deferred", "stopped"}, r.id = ctl.id, Reserved
        PROVE  /\ gate'.frozen /\ gate'.current.id = r.id /\ poll'.at \notin Taking
               /\ r.kind = "stopped" => pi'.turn # "formal"
    <3>1. /\ gate.frozen /\ gate.current.id = r.id /\ poll.at \notin Taking
          /\ r.kind = "stopped" => pi.turn # "formal"
      BY <2>1, <2>3 DEF LateOK
    <3>2. ~GateLets
      BY <2>3, <3>1 DEF GateLets, Gone, Reserved, Taking, TypeOK, Attempts
    <3> QED
      BY <1>4, <3>1, <3>2 DEF GateCalm, PiCalm
  <2> QED
    BY <1>0, <2>1, <2>2, <2>3 DEF LateOK, Reserved
<1> QED
  BY <1>1, <1>2, <1>3, <1>4

\* What is known of the poll is not disturbed by the turn or the user.
LEMMA PollFrame ==
  ASSUME TypeOK, TypeOK', IInv, ctl' = ctl, PiCalm,
         GateCalm \/ (GateLets /\ Gone(ctl, gate.current.id)), gate.frozen => gate'.frozen,
         poll'.at = poll.at, poll'.ok = poll.ok \/ gate'.frozen,
         call'["poll"].request.id = call["poll"].request.id,
         call'["poll"].request.seg = call["poll"].request.seg,
         call'["poll"].reply = call["poll"].reply,
         Good(call'["poll"]) => Good(call["poll"])
  PROVE  PollOK' /\ Taken' /\ Offered'
<1>0. gate'.injected = gate.injected
  BY DEF GateCalm, GateLets
<1>1. PollOK'
  <2>1. poll.at \in Taking \cup {"stop"} => Holds(call["poll"].request)'
    <3> SUFFICES ASSUME poll.at \in Taking \cup {"stop"}
                 PROVE  Holds(call["poll"].request)'
      OBVIOUS
    <3>1. Holds(call["poll"].request)
      BY DEF IInv, PollOK
    <3> QED
      BY <3>1 DEF Holds, GateCalm, GateLets
  <2>2. poll.at = "stop" => pi'.turn # "formal"
    BY DEF IInv, PollOK, PiCalm
  <2> QED
    BY <2>1, <2>2 DEF IInv, PollOK
<1>2. Taken'
  BY <1>0 DEF IInv, Taken, TakenOK
<1>3. Offered'
  BY <1>0 DEF IInv, Offered, OfferedOK, PiCalm
<1> QED
  BY <1>1, <1>2, <1>3

LEMMA CallsAfter ==
  ASSUME TypeOK, IInv, ctl' = ctl, NEW p \in Proc,
         CallOK(ctl, call'[p]), \A q \in Proc \ {p} : call'[q] = call[q]
  PROVE  Answers'
<1>1. \A q \in Proc : CallOK(ctl, call'[q])
  BY DEF IInv, Answers
<1> QED
  BY <1>1 DEF Answers

\* What a question that has just been asked says of itself.
LEMMA AskedFacts ==
  ASSUME TypeOK, NEW p, NEW kind \in Events \cup Reads \cup {"interruption", "stopped"},
         NEW c \in Copies, c.id <= ctl.id, NEW rev \in Nat,
         NEW k, k = Asked(p, kind, c, rev)
  PROVE  /\ CallOK(ctl, k) /\ k.stage # "none"
         /\ k.request.kind = kind /\ k.request.id = c.id /\ k.request.seg = c.seg
         /\ kind \notin Reads => ~Good(k)
         /\ kind = "dispatches" => k.reply = IF Reserved THEN Copy(ctl, ctl.id) ELSE NoCopy
<1> DEFINE r == [kind |-> kind, id |-> c.id, seg |-> c.seg, rev |-> rev]
<1>0. ctl \in Attempts /\ ctl.id \in Nat /\ c.id \in Nat
  BY DEF TypeOK, Attempts, Copies
<1>1. CASE kind \in Reads
  <2>1. k = [stage |-> "served", request |-> r, ok |-> TRUE, reply |-> Answer(ctl, r)]
    BY <1>1 DEF Asked
  <2>2. /\ k.stage = "served" /\ k.request.kind = kind /\ k.request.id = c.id
        /\ k.request.seg = c.seg /\ k.reply = Answer(ctl, r) /\ r.kind = kind /\ r.id = c.id
    BY <2>1
  <2> HIDE DEF r
  <2>3. CASE kind = "dispatches"
    <3>1. k.reply = IF Reserved THEN Copy(ctl, ctl.id) ELSE NoCopy
      BY <2>2, <2>3 DEF Answer
    <3>2. k.reply.id <= ctl.id /\ (k.reply.ended => Gone(ctl, k.reply.id))
      BY <1>0, <3>1, CopyFacts DEF NoCopy
    <3> QED
      BY <1>1, <2>2, <2>3, <3>1, <3>2 DEF CallOK, Idling, Events
  <2>4. CASE kind # "dispatches"
    <3>1. k.reply = Copy(ctl, c.id)
      BY <2>2, <2>4 DEF Answer
    <3>2. k.reply.id = c.id /\ (k.reply.ended => Gone(ctl, k.reply.id))
      BY <1>0, <3>1, CopyFacts
    <3> QED
      BY <1>1, <2>2, <2>4, <3>2 DEF CallOK, Idling, Events, Reads
  <2> QED
    BY <2>3, <2>4
<1>2. CASE kind \notin Reads
  <2>1. PICK st \in {"queued", "sent"} : k = [NoCall EXCEPT !.stage = st, !.request = r]
    BY <1>2 DEF Asked
  <2>2. /\ k.stage = st /\ k.request.kind = kind /\ k.request.id = c.id
        /\ k.request.seg = c.seg /\ k.reply.id = 0
    BY <2>1 DEF NoCall, NoCopy
  <2> HIDE DEF r
  <2> QED
    BY <1>0, <1>2, <2>1, <2>2 DEF CallOK, Good, Reads
<1> QED
  BY <1>1, <1>2

LEMMA NoCallFacts ==
  ASSUME TypeOK
  PROVE  /\ CallOK(ctl, NoCall) /\ NoCall.stage = "none" /\ ~Good(NoCall)
         /\ NoCall.request.id = 0 /\ NoCall.reply.id = 0
BY DEF TypeOK, Attempts, CallOK, Good, NoCall, NoRequest, NoCopy

\* A step of the poll: the turn keeps its place, the poll its word.
LEMMA PollStep ==
  ASSUME TypeOK, TypeOK', IInv, ctl' = ctl, PiCalm, GateCalm \/ GateLets,
         pi'.turn = pi.turn, pi'.id = pi.id, pi'.seg = pi.seg,
         work'.at = work.at, work'.id = work.id, work'.seg = work.seg,
         gate'.current.id <= ctl.id,
         \A q \in Proc \ {"poll"} : call'[q] = call[q],
         CallOK(ctl, call'["poll"]), PollMatches(poll'.at, call'["poll"]),
         poll'.at \in Taking => poll.at \in Taking,
         \A r \in late' : r \in late \/ (r.id <= ctl.id /\ LateOK(r)'),
         PollOK', Taken', Offered'
  PROVE  IInv'
<1>0. "poll" \in Proc /\ "work" \in Proc /\ "user" \in Proc
  BY DEF Proc
<1>a. /\ TurnOK' /\ DeferredNotInjected'
      /\ \A i, s : Over(i, s) => Over(i, s)'
      /\ \A r \in late : LateOK(r)'
  BY CalmKeeps
<1>1. AttemptOK(ctl') /\ Known'
  BY DEF IInv, Known, GateCalm, GateLets
<1>2. Coupled'
  BY <1>0 DEF IInv, Coupled
<1>3. Answers'
  BY <1>0, CallsAfter
<1>4. WorkOK'
  <2>1. work.at \in {"settling", "settle"} => Over(work.id, work.seg)'
    <3>1. work.at \in {"settling", "settle"} => Over(work.id, work.seg)
      BY DEF IInv, WorkOK
    <3> QED
      BY <3>1, <1>a DEF Over, GateCalm, GateLets
  <2> QED
    BY <1>0, <2>1 DEF IInv, WorkOK
<1>5. Late'
  BY <1>a DEF Late
<1> QED
  BY <1>1, <1>2, <1>3, <1>4, <1>5, <1>a DEF IInv

\* A step of the turn or the user: the poll keeps its place.
LEMMA WorkStep ==
  ASSUME TypeOK, TypeOK', IInv, ctl' = ctl, PiCalm,
         GateCalm \/ (GateLets /\ Gone(ctl, gate.current.id)), gate.frozen => gate'.frozen,
         gate'.current.id <= ctl.id, work'.id <= ctl.id,
         poll'.at = poll.at, poll'.ok = poll.ok \/ gate'.frozen,
         call'["poll"].request.id = call["poll"].request.id,
         call'["poll"].request.seg = call["poll"].request.seg,
         call'["poll"].reply = call["poll"].reply,
         Good(call'["poll"]) => Good(call["poll"]),
         Answers', Coupled', WorkOK',
         \A r \in late' : r \in late \/ (r.id <= ctl.id /\ LateOK(r)')
  PROVE  IInv'
<1>1. TurnOK' /\ DeferredNotInjected' /\ \A r \in late : LateOK(r)'
  BY CalmKeeps
<1>2. PollOK' /\ Taken' /\ Offered'
  BY PollFrame
<1>3. AttemptOK(ctl') /\ Known'
  BY DEF IInv, Known, GateCalm, GateLets, PiCalm
<1>4. Late'
  BY <1>1 DEF Late
<1> QED
  BY <1>1, <1>2, <1>3, <1>4 DEF IInv

\* A call that returns, is refused or is stale leaves the calls that were given up
\* as they are.
LEMMA SameLate ==
  ASSUME NEW p, Answered(p) \/ Refused(p) \/ Stale(p) PROVE late' = late
BY DEF Answered, Refused, Stale

-----------------------------------------------------------------------------
(* The poll, action by action.                                             *)

\* What the actions of the poll share.
LEMMA PollFacts ==
  ASSUME TypeOK, IInv
  PROVE  /\ ctl \in Attempts /\ ctl.id \in Nat /\ ctl.seg \in Nat
         /\ gate.current \in Copies /\ gate.current.id \in Nat /\ gate.current.seg \in Nat
         /\ gate.current.rev \in Nat /\ gate.current.id <= ctl.id
         /\ gate \in Gates /\ call \in [Proc -> Calls] /\ poll \in Polls /\ pi \in Sessions
         /\ call["poll"] \in Calls /\ call["poll"].reply \in Copies
         /\ call["poll"].request \in Requests
         /\ call["poll"].reply.id \in Nat /\ call["poll"].reply.seg \in Nat
         /\ call["poll"].reply.rev \in Nat
         /\ CallOK(ctl, call["poll"]) /\ PollMatches(poll.at, call["poll"])
         /\ call["poll"].reply.id <= ctl.id
         /\ NoCopy \in Copies /\ NoCopy.id <= ctl.id /\ NoCopy.id = 0 /\ NoCopy.seg = 0
<1>1. /\ ctl \in Attempts /\ ctl.id \in Nat /\ ctl.seg \in Nat
      /\ gate.current \in Copies /\ gate \in Gates /\ call \in [Proc -> Calls]
      /\ poll \in Polls /\ pi \in Sessions
  BY TypeParts DEF Attempts, Gates
<1>2. "poll" \in Proc
  BY DEF Proc
<1>3. call["poll"] \in Calls
  BY <1>1, <1>2
<1>4. call["poll"].reply \in Copies /\ call["poll"].request \in Requests
  BY <1>3 DEF Calls
<1>5. CallOK(ctl, call["poll"]) /\ PollMatches(poll.at, call["poll"]) /\ gate.current.id <= ctl.id
  BY <1>2 DEF IInv, Answers, Coupled, Known
<1>6. NoCopy \in Copies /\ NoCopy.id <= ctl.id /\ NoCopy.id = 0 /\ NoCopy.seg = 0
  BY <1>1, CopyTypes DEF NoCopy
<1> QED
  BY <1>1, <1>3, <1>4, <1>5, <1>6 DEF Copies, CallOK

\* A poll that is done, whatever closed the gate.
LEMMA PollEnds ==
  ASSUME TypeOK, TypeOK', IInv, ctl' = ctl, PollDone, Done("poll"), GateCalm \/ GateLets,
         gate'.current.id <= ctl.id, pi' = pi \/ pi' = Aborted,
         work' = work \/ work' = Broken(work),
         \A r \in late' : r \in late \/ (r.id <= ctl.id /\ LateOK(r)')
  PROVE  IInv'
<1>0. call \in [Proc -> Calls] /\ pi \in Sessions /\ work \in Works /\ "poll" \in Proc
  BY TypeParts DEF Proc
<1>1. pi'.turn = pi.turn /\ pi'.id = pi.id /\ pi'.seg = pi.seg
  BY <1>0 DEF Aborted, Sessions
<1>2. work'.at = work.at /\ work'.id = work.id /\ work'.seg = work.seg
  BY <1>0 DEF Broken, Works
<1>3. PiCalm
  BY <1>1 DEF PiCalm, IInv, Known
<1>4. poll'.at = "idle" /\ call'["poll"] = NoCall /\ \A q \in Proc \ {"poll"} : call'[q] = call[q]
  BY <1>0 DEF PollDone, Resting, Done
<1>5. CallOK(ctl, call'["poll"]) /\ PollMatches(poll'.at, call'["poll"])
  BY <1>4, NoCallFacts DEF PollMatches
<1>6. PollOK' /\ Taken' /\ Offered'
  BY <1>4 DEF PollOK, Taken, TakenOK, Offered, OfferedOK, Taking
<1> QED
  BY <1>1, <1>2, <1>3, <1>4, <1>5, <1>6, PollStep DEF Taking

\* The poll asks p about the Attempt c.
LEMMA PollAsks ==
  ASSUME TypeOK, IInv, NEW kind \in Events \cup Reads \cup {"stopped"},
         NEW c \in Copies, c.id <= ctl.id, NEW rev \in Nat, Ask("poll", kind, c, rev)
  PROVE  /\ \A q \in Proc \ {"poll"} : call'[q] = call[q]
         /\ CallOK(ctl, call'["poll"]) /\ call'["poll"].stage # "none"
         /\ call'["poll"].request.kind = kind /\ call'["poll"].request.id = c.id
         /\ call'["poll"].request.seg = c.seg
         /\ kind \notin Reads => ~Good(call'["poll"])
         /\ kind = "dispatches" =>
              call'["poll"].reply = IF Reserved THEN Copy(ctl, ctl.id) ELSE NoCopy
<1>1. call' = [call EXCEPT !["poll"] = Asked("poll", kind, c, rev)] /\ call \in [Proc -> Calls]
  BY TypeParts DEF Ask
<1>2. call'["poll"] = Asked("poll", kind, c, rev) /\ \A q \in Proc \ {"poll"} : call'[q] = call[q]
  BY <1>1 DEF Proc
<1> QED
  BY <1>2, AskedFacts

\* What a list of dispatches says when it is asked for.
LEMMA FreshOffer ==
  ASSUME TypeOK, IInv, ctl' = ctl, gate'.injected = gate.injected,
         pi'.turn = pi.turn, pi'.id = pi.id, pi'.seg = pi.seg,
         call'["poll"].reply = IF Reserved THEN Copy(ctl, ctl.id) ELSE NoCopy
  PROVE  Offered'
<1> SUFFICES ASSUME call'["poll"].reply.id # 0 PROVE Offered'
  BY DEF Offered, OfferedOK
<1> DEFINE d == call'["poll"].reply
<1>1. Reserved /\ d = Copy(ctl, ctl.id)
  BY DEF NoCopy
<1>2. ctl \in Attempts /\ ctl.id \in Nat
  BY DEF TypeOK, Attempts
<1>3. d.id = ctl.id /\ d.seg = ctl.seg /\ d.state = ctl.state
  BY <1>1, <1>2, CopyFacts
<1> HIDE DEF d
<1>4. \A k \in gate.injected : k[1] <= d.id
  BY <1>3 DEF IInv, Known
<1>5. d.state = "admitted" => Current(ctl, d.id, d.seg)
  BY <1>3 DEF Current
<1>6. pi.turn # "none" /\ pi.id = d.id => d.seg = pi.seg
  BY <1>1, <1>3 DEF IInv, TurnOK, Current, Reserved
<1> QED
  BY <1>4, <1>5, <1>6 DEF Offered, OfferedOK, d

LEMMA PollStartsKeeps ==
  ASSUME TypeOK, TypeOK', IInv, PollStarts
  PROVE  IInv'
<1>0. /\ gate \in Gates /\ gate.current \in Copies /\ gate.current.id <= ctl.id
      /\ ctl \in Attempts /\ ctl.id \in Nat
  BY PollFacts
<1>1. /\ poll'.at = IF Retained THEN "attempt" ELSE "dispatches"
      /\ poll'.ok /\ UNCHANGED <<ctl, pi, work, late>>
      /\ gate'.current = gate.current /\ gate'.injected = gate.injected
      /\ gate'.frozen = (gate.frozen /\ Retained)
  BY <1>0 DEF PollStarts, Gates
<1>2. GateCalm \/ GateLets
  <2>1. CASE Retained
    BY <1>1, <2>1 DEF GateCalm
  <2>2. CASE ~Retained
    <3>1. Gone(ctl, gate.current.id)
      BY <1>0, <2>2, NothingIsZero DEF Gone, Retained, Reserved
    <3> QED
      BY <1>1, <2>2, <3>1 DEF GateLets, Retained
  <2> QED
    BY <2>1, <2>2
<1>3. PICK at \in {"attempt", "dispatches"} : at = poll'.at /\ Ask("poll", at, gate.current, 0)
  BY <1>1 DEF PollStarts
<1>4. /\ \A q \in Proc \ {"poll"} : call'[q] = call[q]
      /\ CallOK(ctl, call'["poll"]) /\ PollMatches(poll'.at, call'["poll"])
      /\ at = "dispatches" =>
           call'["poll"].reply = IF Reserved THEN Copy(ctl, ctl.id) ELSE NoCopy
  BY <1>0, <1>3, PollAsks DEF Reads, PollMatches, KindAt
<1>5. PollOK' /\ Taken'
  BY <1>1, <1>3 DEF PollOK, Taken, TakenOK, Taking
<1>6. Offered'
  BY <1>1, <1>3, <1>4, FreshOffer DEF Offered, OfferedOK
<1>7. PiCalm
  BY <1>1 DEF PiCalm, IInv, Known
<1> QED
  BY <1>0, <1>1, <1>2, <1>3, <1>4, <1>5, <1>6, <1>7, PollStep DEF Taking

LEMMA AttemptReturnsKeeps ==
  ASSUME TypeOK, TypeOK', IInv, AttemptReturns
  PROVE  IInv'
<1> DEFINE seen == call["poll"].reply
           same == poll.ok /\ gate.current.id = seen.id
                           /\ gate.current.seg = call["poll"].request.seg
<1>0. /\ gate \in Gates /\ gate.current \in Copies /\ gate.current.id <= ctl.id
      /\ ctl \in Attempts /\ ctl.id \in Nat /\ poll \in Polls /\ seen.id \in Nat
      /\ NoCopy \in Copies /\ NoCopy.id <= ctl.id
  BY PollFacts
<1>1. poll.at = "attempt" /\ Good(call["poll"]) /\ UNCHANGED <<ctl, pi, late>>
  BY DEF AttemptReturns, Answered, Good
<1>2. CASE same /\ ~(seen.ended /\ ~LocalIdle)
  <2>1. /\ gate' = IF seen.ended THEN [gate EXCEPT !.current = NoCopy, !.frozen = FALSE] ELSE gate
        /\ PollTo("dispatches") /\ Ask("poll", "dispatches", NoCopy, 0) /\ work' = work
    BY <1>2 DEF AttemptReturns
  <2>2. poll'.at = "dispatches" /\ poll'.ok = poll.ok /\ poll.ok
    BY <1>0, <1>2, <2>1 DEF PollTo, Polls
  <2>3. GateCalm \/ GateLets
    <3>1. CASE seen.ended
      <4>1. CallOK(ctl, call["poll"])
        BY PollFacts
      <4>2. Gone(ctl, seen.id)
        BY <1>1, <3>1, <4>1 DEF CallOK
      <4>3. gate'.current = NoCopy /\ gate'.injected = gate.injected
        BY <1>0, <2>1, <3>1 DEF Gates
      <4> QED
        BY <1>2, <4>2, <4>3 DEF GateLets, NoCopy, Busy
    <3>2. CASE ~seen.ended
      BY <2>1, <3>2 DEF GateCalm
    <3> QED
      BY <3>1, <3>2
  <2>4. gate'.injected = gate.injected /\ gate'.current.id <= ctl.id
    BY <1>0, <2>1, <2>3 DEF GateCalm, GateLets
  <2>5. /\ \A q \in Proc \ {"poll"} : call'[q] = call[q]
        /\ CallOK(ctl, call'["poll"]) /\ PollMatches(poll'.at, call'["poll"])
        /\ call'["poll"].reply = IF Reserved THEN Copy(ctl, ctl.id) ELSE NoCopy
    BY <1>0, <2>1, <2>2, PollAsks DEF Reads, PollMatches, KindAt
  <2>6. PollOK' /\ Taken'
    BY <2>2 DEF PollOK, Taken, TakenOK, Taking
  <2>7. Offered'
    BY <1>1, <2>4, <2>5, FreshOffer
  <2>8. PiCalm
    BY <1>1 DEF PiCalm, IInv, Known
  <2> QED
    BY <1>1, <2>1, <2>2, <2>3, <2>4, <2>5, <2>6, <2>7, <2>8, PollStep DEF Taking
<1>3. CASE ~(same /\ ~(seen.ended /\ ~LocalIdle))
  <2>1. /\ gate' = Frozen(gate) \/ gate' = gate
        /\ work' = Broken(work) \/ work' = work
        /\ PollDone /\ Done("poll")
    BY <1>3 DEF AttemptReturns
  <2>2. GateCalm /\ gate'.current.id <= ctl.id
    BY <1>0, <2>1 DEF GateCalm, Frozen, Gates
  <2> QED
    BY <1>1, <2>1, <2>2, PollEnds
<1> QED
  BY <1>2, <1>3

LEMMA TakeDispatchKeeps ==
  ASSUME TypeOK, TypeOK', IInv, NEW d, d = call["poll"].reply, d.id # 0,
         poll.at = "dispatches", poll.ok, TakeDispatch(d), ctl' = ctl, late' = late
  PROVE  IInv'
<1>0. /\ gate \in Gates /\ ctl \in Attempts /\ ctl.id \in Nat /\ poll \in Polls
      /\ d \in Copies /\ d.id \in Nat /\ d.seg \in Nat /\ d.rev \in Nat /\ d.id <= ctl.id
      /\ gate.injected \subseteq Nat \X Nat /\ pi.id \in Nat /\ pi.seg \in Nat
  BY PollFacts DEF Gates, Sessions
<1>1. /\ ~gate.frozen /\ <<d.id, d.seg>> \notin gate.injected /\ d.state = "admitted"
      /\ UNCHANGED <<pi, work>>
      /\ PollTo("received") /\ Ask("poll", "adapter_received", d, d.rev)
  BY DEF TakeDispatch, CanInject
<1>2. gate'.current = d /\ gate'.injected = {k \in gate.injected : k[1] = d.id}
  BY <1>0 DEF TakeDispatch, Gates
<1>3. poll'.at = "received" /\ poll'.ok
  BY <1>0, <1>1 DEF PollTo, Polls
<1>4. /\ \A k \in gate.injected : k[1] <= d.id
      /\ Current(ctl, d.id, d.seg)
      /\ pi.turn # "none" /\ pi.id = d.id /\ d.id = ctl.id => d.seg = pi.seg
  BY <1>1 DEF IInv, Offered, OfferedOK
<1>5. ASSUME NEW i, NEW s, i = ctl.id, <<i, s>> \in gate.injected
      PROVE  i = d.id /\ <<i, s>> \in gate'.injected
  <2>1. ctl.id <= d.id
    BY <1>4, <1>5
  <2> QED
    BY <1>0, <1>2, <1>5, <2>1
<1>6. /\ \A q \in Proc \ {"poll"} : call'[q] = call[q]
      /\ CallOK(ctl, call'["poll"]) /\ PollMatches("received", call'["poll"])
      /\ call'["poll"].request.id = d.id /\ call'["poll"].request.seg = d.seg
  BY <1>0, <1>1, PollAsks DEF Events, PollMatches, KindAt
<1>7. PollOK' /\ Taken' /\ Offered'
  BY <1>1, <1>2, <1>3, <1>4, <1>6 DEF PollOK, Holds, Taken, TakenOK, Offered, OfferedOK, Taking
<1>8. TurnOK'
  <2> SUFFICES ASSUME pi.turn # "none" PROVE TurnOK'
    BY <1>1 DEF TurnOK
  <2>1. /\ Announced(ctl, pi.id, pi.seg) /\ Current(ctl, pi.id, pi.seg)
        /\ pi.id = ctl.id => <<pi.id, pi.seg>> \in gate.injected
    BY DEF IInv, TurnOK
  <2>2. pi.id = ctl.id => <<pi.id, pi.seg>> \in gate'.injected /\ gate'.current.id # pi.id
    BY <1>1, <1>2, <1>4, <1>5, <2>1
  <2> QED
    BY <1>1, <1>2, <2>1, <2>2 DEF TurnOK, Busy
<1>9. \A i, s : Over(i, s) => Over(i, s)'
  BY <1>1, <1>5 DEF Over
<1>10. WorkOK'
  <2>1. work.at \in {"settling", "settle"} => Over(work.id, work.seg)'
    <3>1. work.at \in {"settling", "settle"} => Over(work.id, work.seg)
      BY DEF IInv, WorkOK
    <3> QED
      BY <1>1, <1>5, <3>1 DEF Over
  <2>2. call'["work"] = call["work"]
    BY <1>6 DEF Proc
  <2> QED
    BY <1>1, <2>1, <2>2 DEF IInv, WorkOK
<1>11. Late'
  <2> SUFFICES ASSUME NEW r \in late PROVE LateOK(r)'
    BY DEF Late
  <2>1. LateOK(r)
    BY DEF IInv, Late
  <2> QED
    BY <1>1, <1>9, <2>1 DEF LateOK, Reserved
<1>12. DeferredNotInjected'
  BY <1>2 DEF IInv, DeferredNotInjected
<1>13. AttemptOK(ctl') /\ Known'
  BY <1>0, <1>1, <1>2 DEF IInv, Known
<1>14. Coupled'
  BY <1>1, <1>3, <1>6 DEF IInv, Coupled, Proc
<1>15. Answers'
  BY <1>6, CallsAfter DEF Proc
<1> QED
  BY <1>7, <1>8, <1>10, <1>11, <1>12, <1>13, <1>14, <1>15 DEF IInv

LEMMA DispatchesReturnKeeps ==
  ASSUME TypeOK, TypeOK', IInv, DispatchesReturn
  PROVE  IInv'
<1> PICK d : d = call["poll"].reply
  OBVIOUS
<1>0. /\ gate \in Gates /\ gate.current \in Copies /\ gate.current.id <= ctl.id
      /\ ctl \in Attempts /\ ctl.id \in Nat /\ pi \in Sessions /\ work \in Works
  BY PollFacts, TypeParts
<1>1. poll.at = "dispatches" /\ ctl' = ctl /\ late' = late
  BY DEF DispatchesReturn, Answered
<1>2. CASE poll.ok /\ d.id # 0 /\ TakeDispatch(d)
  BY <1>1, <1>2, TakeDispatchKeeps
<1>3. CASE StopDispatch(d)
  <2>1. gate' = Frozen(gate) /\ work' = Broken(work) /\ pi' = Aborted
    BY <1>3 DEF StopDispatch
  <2>2. GateCalm /\ gate'.current.id <= ctl.id /\ gate'.frozen
    BY <1>0, <2>1 DEF GateCalm, Frozen, Gates
  <2>3. CASE LocalIdle
    <3>1. poll' = [at |-> "confirm", ok |-> TRUE] /\ Ask("poll", "confirm", gate.current, 0)
      BY <1>3, <2>3 DEF StopDispatch
    <3>2. /\ \A q \in Proc \ {"poll"} : call'[q] = call[q]
          /\ CallOK(ctl, call'["poll"]) /\ PollMatches(poll'.at, call'["poll"])
      BY <1>0, <3>1, PollAsks DEF Reads, PollMatches, KindAt
    <3>3. PollOK' /\ Taken' /\ Offered'
      BY <2>2, <3>1 DEF PollOK, Taken, TakenOK, Offered, OfferedOK, Taking
    <3>4. pi'.turn = pi.turn /\ pi'.id = pi.id /\ pi'.seg = pi.seg
      BY <1>0, <2>1 DEF Aborted, Sessions
    <3>5. work'.at = work.at /\ work'.id = work.id /\ work'.seg = work.seg
      BY <1>0, <2>1 DEF Broken, Works
    <3>6. PiCalm
      BY <3>4 DEF PiCalm, IInv, Known
    <3> QED
      BY <1>1, <2>2, <3>1, <3>2, <3>3, <3>4, <3>5, <3>6, PollStep DEF Taking
  <2>4. CASE ~LocalIdle
    <3>1. PollDone /\ Done("poll")
      BY <1>3, <2>4 DEF StopDispatch
    <3> QED
      BY <1>1, <2>1, <2>2, <3>1, PollEnds
  <2> QED
    BY <2>3, <2>4
<1>4. CASE PollDone /\ Done("poll") /\ UNCHANGED <<gate, pi, work>>
  <2>1. GateCalm
    BY <1>4 DEF GateCalm
  <2> QED
    BY <1>0, <1>1, <1>4, <2>1, PollEnds
<1> QED
  BY <1>2, <1>3, <1>4 DEF DispatchesReturn, LeaveDispatch

\* The fence of a poll that waits for an event.
LEMMA PollFence ==
  ASSUME Confirmed("poll")
  PROVE  /\ poll.ok /\ gate.current.id = call["poll"].request.id
         /\ gate.current.seg = call["poll"].request.seg
         /\ Good(call["poll"]) /\ late' = late
BY DEF Confirmed, Fence, Answered, Good

LEMMA ReceivedReturnsKeeps ==
  ASSUME TypeOK, TypeOK', IInv, ReceivedReturns
  PROVE  IInv'
<1> DEFINE r == call["poll"].request
<1>0. /\ gate \in Gates /\ gate.current \in Copies /\ gate.current.id <= ctl.id /\ poll \in Polls
      /\ CallOK(ctl, call["poll"]) /\ PollMatches(poll.at, call["poll"])
  BY PollFacts
<1>1. /\ poll.at = "received" /\ UNCHANGED <<ctl, pi, work>>
      /\ gate' = [gate EXCEPT !.current = call["poll"].reply]
      /\ PollTo("gate") /\ Ask("poll", "briefing", gate.current, 0)
      /\ Confirmed("poll")
  BY DEF ReceivedReturns
<1>2. /\ poll.ok /\ gate.current.id = r.id /\ gate.current.seg = r.seg /\ Good(call["poll"])
      /\ late' = late
  BY <1>1, PollFence
<1>3. r.kind = "adapter_received"
  BY <1>0, <1>1 DEF PollMatches, KindAt
<1>4. GateCalm
  <2>1. /\ call["poll"].reply.id = r.id /\ call["poll"].reply.seg = r.seg
        /\ call["poll"].reply.state \notin Busy
    BY <1>0, <1>2, <1>3 DEF CallOK, Events, Idling
  <2> QED
    BY <1>0, <1>1, <1>2, <2>1 DEF GateCalm, Gates
<1>5. poll'.at = "gate" /\ poll'.ok
  BY <1>0, <1>1, <1>2 DEF PollTo, Polls
<1>6. /\ \A q \in Proc \ {"poll"} : call'[q] = call[q]
      /\ CallOK(ctl, call'["poll"]) /\ PollMatches(poll'.at, call'["poll"])
      /\ call'["poll"].request.id = r.id /\ call'["poll"].request.seg = r.seg
  BY <1>0, <1>1, <1>2, <1>5, PollAsks DEF Reads, PollMatches, KindAt
<1>7. PollOK' /\ Taken' /\ Offered'
  <2>1. (<<r.id, r.seg>> \notin gate.injected \/ r.id = 0) /\ Current(ctl, r.id, r.seg)
    BY <1>1 DEF IInv, Taken, TakenOK, Taking
  <2> QED
    BY <1>1, <1>2, <1>4, <1>5, <1>6, <2>1
       DEF GateCalm, PollOK, Holds, Taken, TakenOK, Offered, OfferedOK, Taking
<1>8. PiCalm
  BY <1>1 DEF PiCalm, IInv, Known
<1> QED
  BY <1>0, <1>1, <1>2, <1>4, <1>5, <1>6, <1>7, <1>8, PollStep DEF GateCalm, Taking

\* What the gate refuses is deferred, or left to a gate that is closed.
LEMMA DeferKeeps ==
  ASSUME TypeOK, TypeOK', IInv, NEW g, gate' = g, GateCalm, g.current.id <= ctl.id,
         poll.at \in {"gate", "injection"}, UNCHANGED <<ctl, pi, work, late>>,
         IF g.frozen THEN PollDone /\ Done("poll")
         ELSE PollTo("deferring") /\ Ask("poll", "deferred", g.current, g.current.rev)
  PROVE  IInv'
<1>1. CASE g.frozen
  BY <1>1, PollEnds
<1>2. CASE ~g.frozen
  <2> DEFINE r == call["poll"].request
             c == g.current
  <2>0. /\ g \in Gates /\ c \in Copies /\ c.rev \in Nat /\ c.id \in Nat /\ c.id <= ctl.id
        /\ poll \in Polls
    <3>1. g \in Gates
      BY DEF TypeOK, Gates
    <3>2. c \in Copies
      BY <3>1 DEF Gates
    <3> QED
      BY <3>1, <3>2, PollFacts DEF Copies
  <2>1. PollTo("deferring") /\ Ask("poll", "deferred", c, c.rev)
    BY <1>2
  <2>2. /\ \A q \in Proc \ {"poll"} : call'[q] = call[q]
        /\ CallOK(ctl, call'["poll"]) /\ PollMatches("deferring", call'["poll"])
        /\ call'["poll"].request.id = c.id /\ call'["poll"].request.seg = c.seg
    BY <2>0, <2>1, PollAsks DEF Events, PollMatches, KindAt
  <2>3. poll'.at = "deferring" /\ poll'.ok = poll.ok
    BY <2>0, <2>1 DEF PollTo, Polls
  <2>4. poll.ok
    BY <1>2 DEF IInv, PollOK, GateCalm
  <2>5. <<c.id, c.seg>> \notin gate.injected \/ c.id = 0
    <3>1. Holds(r) /\ (<<r.id, r.seg>> \notin gate.injected \/ r.id = 0)
      BY DEF IInv, PollOK, Taken, TakenOK, Taking
    <3> QED
      BY <3>1 DEF Holds, GateCalm
  <2>6. PollOK' /\ Taken' /\ Offered'
    BY <2>2, <2>3, <2>4, <2>5
       DEF GateCalm, PollOK, Holds, Taken, TakenOK, Offered, OfferedOK, Taking
  <2>7. PiCalm
    BY DEF PiCalm, IInv, Known
  <2> QED
    BY <2>0, <2>2, <2>3, <2>6, <2>7, PollStep DEF Taking
<1> QED
  BY <1>1, <1>2

LEMMA FinalGateKeeps ==
  ASSUME TypeOK, TypeOK', IInv, FinalGate
  PROVE  IInv'
<1> DEFINE r == call["poll"].request
           c == gate.current
<1>0. /\ gate \in Gates /\ c \in Copies /\ c.id <= ctl.id /\ poll \in Polls
      /\ c.rev \in Nat /\ c.id \in Nat
  BY PollFacts
<1>1. poll.at = "gate" /\ UNCHANGED <<ctl, gate, pi, work, late>>
  BY DEF FinalGate, Answered, DeferOr
<1>2. GateCalm
  BY <1>1 DEF GateCalm
<1>3. CASE /\ poll.ok /\ CanInject(gate, c)
           /\ PollTo("injection") /\ Ask("poll", "injection_requested", c, c.rev)
  <2>1. poll'.at = "injection" /\ poll'.ok
    BY <1>0, <1>3 DEF PollTo, Polls
  <2>2. /\ \A q \in Proc \ {"poll"} : call'[q] = call[q]
        /\ CallOK(ctl, call'["poll"]) /\ PollMatches("injection", call'["poll"])
        /\ call'["poll"].request.id = c.id /\ call'["poll"].request.seg = c.seg
        /\ ~Good(call'["poll"])
    BY <1>0, <1>3, PollAsks DEF Events, Reads, PollMatches, KindAt
  <2>3. <<c.id, c.seg>> \notin gate.injected
    BY <1>3 DEF CanInject
  <2>4. Current(ctl, c.id, c.seg)
    <3>1. Holds(r) /\ Current(ctl, r.id, r.seg)
      BY <1>1 DEF IInv, PollOK, Taken, TakenOK, Taking
    <3> QED
      BY <3>1, NothingIsZero DEF Holds, Current, Reserved
  <2>5. PollOK' /\ Taken' /\ Offered'
    BY <1>1, <2>1, <2>2, <2>3, <2>4
       DEF PollOK, Holds, Taken, TakenOK, Offered, OfferedOK, Taking
  <2>6. PiCalm
    BY <1>1 DEF PiCalm, IInv, Known
  <2> QED
    BY <1>0, <1>1, <1>2, <2>1, <2>2, <2>5, <2>6, PollStep DEF Taking
<1>4. CASE IF gate.frozen THEN PollDone /\ Done("poll")
           ELSE PollTo("deferring") /\ Ask("poll", "deferred", c, c.rev)
  <2> PICK g : g = gate
    OBVIOUS
  <2>1. IF g.frozen THEN PollDone /\ Done("poll")
        ELSE PollTo("deferring") /\ Ask("poll", "deferred", g.current, g.current.rev)
    BY <1>4
  <2> QED
    BY <1>0, <1>1, <1>2, <2>1, DeferKeeps
<1> QED
  BY <1>3, <1>4 DEF FinalGate, DeferOr

LEMMA InjectionReturnsKeeps ==
  ASSUME TypeOK, TypeOK', IInv, InjectionReturns
  PROVE  IInv'
<1> PICK c : c = call["poll"].reply
  OBVIOUS
<1> PICK g : g = [gate EXCEPT !.current = c]
  OBVIOUS
<1> PICK r : r = call["poll"].request
  OBVIOUS
<1>0. /\ gate \in Gates /\ poll \in Polls /\ pi \in Sessions /\ call \in [Proc -> Calls]
      /\ ctl \in Attempts /\ ctl.id \in Nat
      /\ c \in Copies /\ c.rev \in Nat /\ c.id \in Nat /\ c.seg \in Nat /\ c.id <= ctl.id
      /\ CallOK(ctl, call["poll"]) /\ PollMatches(poll.at, call["poll"])
  BY PollFacts
<1>1. poll.at = "injection" /\ Confirmed("poll") /\ work.at = "none" /\ ctl' = ctl
  BY DEF InjectionReturns
<1>2. /\ poll.ok /\ gate.current.id = r.id /\ gate.current.seg = r.seg
      /\ Good(call["poll"]) /\ late' = late
  BY <1>1, PollFence
<1>3. /\ c.id = r.id /\ c.seg = r.seg /\ c.state \notin Busy /\ Announced(ctl, c.id, c.seg)
  <2>1. r.kind = "injection_requested"
    BY <1>0, <1>1 DEF PollMatches, KindAt
  <2> QED
    BY <1>0, <1>2, <2>1 DEF CallOK, Events, Idling
<1>4. /\ <<c.id, c.seg>> \notin gate.injected \/ c.id = 0
      /\ Current(ctl, c.id, c.seg) /\ ~(c.id = ctl.id /\ ctl.end = "released")
  BY <1>1, <1>2, <1>3 DEF IInv, Taken, TakenOK, Taking
<1>5. g.current = c /\ g.injected = gate.injected /\ g.frozen = gate.frozen
  BY <1>0 DEF Gates
<1>6. CASE /\ CanInject(g, c)
           /\ gate' = [g EXCEPT !.injected = @ \cup {<<c.id, c.seg>>}]
           /\ pi' = [pi EXCEPT !.turn = "input", !.id = c.id, !.seg = c.seg]
           /\ work' = [NoWork EXCEPT !.at = "observe", !.ok = TRUE, !.id = c.id, !.seg = c.seg]
           /\ PollDone
           /\ call' = [call EXCEPT !["poll"] = NoCall,
                                   !["work"] = Asked("poll", "input_observed", c, c.rev)]
  <2>1. ~gate.frozen /\ <<c.id, c.seg>> \notin gate.injected
    BY <1>5, <1>6 DEF CanInject
  <2>2. /\ gate'.current = c /\ gate'.injected = gate.injected \cup {<<c.id, c.seg>>}
        /\ gate'.frozen = gate.frozen
    <3>1. g \in Gates
      BY <1>0 DEF Gates
    <3> QED
      BY <1>5, <1>6, <3>1 DEF Gates
  <2>3. pi'.turn = "input" /\ pi'.id = c.id /\ pi'.seg = c.seg
    BY <1>0, <1>6 DEF Sessions
  <2>4. work'.at = "observe" /\ work'.id = c.id /\ work'.seg = c.seg
    BY <1>6 DEF NoWork
  <2>5. poll'.at = "idle"
    BY <1>6 DEF PollDone, Resting
  <2> DEFINE k == Asked("poll", "input_observed", c, c.rev)
  <2>6. /\ CallOK(ctl, k) /\ k.request.kind = "input_observed"
        /\ k.request.id = c.id /\ k.request.seg = c.seg
    BY <1>0, AskedFacts DEF Events
  <2>7. call'["poll"] = NoCall /\ call'["work"] = k /\ call'["user"] = call["user"]
    BY <1>0, <1>6 DEF Proc
  <2> HIDE DEF k
  <2>8. PollOK' /\ Taken' /\ Offered'
    BY <2>5 DEF PollOK, Taken, TakenOK, Offered, OfferedOK, Taking
  <2>9. TurnOK'
    BY <1>1, <1>3, <1>4, <2>2, <2>3 DEF TurnOK
  <2>10. \A i, s : Over(i, s) => Over(i, s)'
    <3>1. ASSUME NEW i, NEW s, <<i, s>> \in gate.injected
          PROVE  <<i, s>> \in gate'.injected /\ ~(pi'.id = i /\ pi'.seg = s)
      BY <2>1, <2>2, <2>3, <3>1
    <3> QED
      BY <1>1, <3>1 DEF Over
  <2>11. WorkOK'
    BY <2>3, <2>4, <2>6, <2>7 DEF WorkOK
  <2>12. Late'
    <3> SUFFICES ASSUME NEW q \in late PROVE LateOK(q)'
      BY <1>2 DEF Late
    <3>1. LateOK(q)
      BY DEF IInv, Late
    <3>2. ~(q.kind \in {"deferred", "stopped"} /\ q.id = ctl.id /\ Reserved)
      BY <1>1, <3>1 DEF LateOK, Taking
    <3>3. q.kind \in {"completed", "aborted"} => Over(q.id, q.seg)'
      BY <2>10, <3>1 DEF LateOK
    <3> QED
      BY <1>1, <3>2, <3>3 DEF LateOK, Reserved
  <2>13. DeferredNotInjected'
    <3> SUFFICES ASSUME ctl.state = "suspended", ctl.receipt # "input_observed"
                 PROVE  <<ctl.id, ctl.seg>> \notin gate'.injected
      BY <1>1 DEF DeferredNotInjected
    <3>1. ctl.end = "none" /\ <<ctl.id, ctl.seg>> \notin gate.injected
      BY DEF IInv, AttemptOK, DeferredNotInjected
    <3> QED
      BY <1>4, <2>2, <3>1 DEF Current
  <2>14. AttemptOK(ctl') /\ Known'
    <3>1. \A z \in gate'.injected : z[1] <= ctl.id
      BY <1>0, <2>2 DEF IInv, Known
    <3> QED
      BY <1>0, <1>1, <1>2, <2>2, <2>3, <2>4, <3>1 DEF IInv, Known
  <2>15. Coupled'
    BY <2>4, <2>5, <2>6, <2>7, NoCallFacts DEF IInv, Coupled, PollMatches, WorkMatches
  <2>16. Answers'
    <3>1. CallOK(ctl, call["user"])
      BY DEF IInv, Answers, Proc
    <3> QED
      BY <1>1, <2>6, <2>7, <3>1, NoCallFacts DEF Answers, Proc
  <2> QED
    BY <2>8, <2>9, <2>11, <2>12, <2>13, <2>14, <2>15, <2>16 DEF IInv
<1>7. CASE /\ gate' = g /\ UNCHANGED <<pi, work>>
           /\ IF g.frozen THEN PollDone /\ Done("poll")
              ELSE PollTo("deferring") /\ Ask("poll", "deferred", g.current, g.current.rev)
  <2>1. GateCalm
    BY <1>2, <1>3, <1>5, <1>7 DEF GateCalm
  <2> QED
    BY <1>0, <1>1, <1>2, <1>5, <1>7, <2>1, DeferKeeps
<1> QED
  BY <1>5, <1>6, <1>7 DEF InjectionReturns, DeferOr

LEMMA DeferredReturnsKeeps ==
  ASSUME TypeOK, TypeOK', IInv, DeferredReturns
  PROVE  IInv'
<1>0. gate \in Gates /\ NoCopy.id <= ctl.id
  BY PollFacts
<1>1. /\ poll.at = "deferring" /\ UNCHANGED <<ctl, pi, work>> /\ late' = late
      /\ PollDone /\ Done("poll")
  BY PollFence DEF DeferredReturns
<1>2. gate'.current = NoCopy /\ gate'.injected = gate.injected
  BY <1>0 DEF DeferredReturns, Gates
<1>3. GateLets
  BY <1>1, <1>2 DEF GateLets, NoCopy, Busy
<1> QED
  BY <1>0, <1>1, <1>2, <1>3, PollEnds

LEMMA ConfirmReturnsKeeps ==
  ASSUME TypeOK, TypeOK', IInv, ConfirmReturns
  PROVE  IInv'
<1> PICK seen : seen = call["poll"].reply
  OBVIOUS
<1>0. /\ gate.current \in Copies /\ gate.current.id <= ctl.id /\ poll \in Polls
      /\ seen.rev \in Nat
  BY PollFacts
<1>1. poll.at = "confirm" /\ UNCHANGED <<ctl, gate, pi, work, late>>
  BY DEF ConfirmReturns, Answered
<1>2. GateCalm /\ PiCalm
  BY <1>1 DEF GateCalm, PiCalm, IInv, Known
<1>3. CASE CanReport /\ PollTo("stop") /\ Ask("poll", "stopped", gate.current, seen.rev)
  <2>1. poll'.at = "stop" /\ poll'.ok /\ pi.turn # "formal" /\ gate.frozen
    BY <1>0, <1>1, <1>3 DEF PollTo, Polls, CanReport, LocalIdle, Idle, IInv, PollOK
  <2>2. /\ \A q \in Proc \ {"poll"} : call'[q] = call[q]
        /\ CallOK(ctl, call'["poll"]) /\ PollMatches("stop", call'["poll"])
        /\ call'["poll"].request.id = gate.current.id
        /\ call'["poll"].request.seg = gate.current.seg
    BY <1>0, <1>3, PollAsks DEF PollMatches, KindAt
  <2>3. PollOK' /\ Taken' /\ Offered'
    BY <1>1, <2>1, <2>2 DEF PollOK, Holds, Taken, TakenOK, Offered, OfferedOK, Taking
  <2> QED
    BY <1>0, <1>1, <1>2, <2>1, <2>2, <2>3, PollStep DEF Taking
<1>4. CASE PollDone /\ Done("poll")
  BY <1>0, <1>1, <1>2, <1>4, PollEnds
<1> QED
  BY <1>3, <1>4 DEF ConfirmReturns

LEMMA StopReturnsKeeps ==
  ASSUME TypeOK, TypeOK', IInv, StopReturns
  PROVE  IInv'
<1> DEFINE r == call["poll"].request
<1>0. /\ gate \in Gates /\ gate.current.id <= ctl.id
      /\ CallOK(ctl, call["poll"]) /\ PollMatches(poll.at, call["poll"])
  BY PollFacts
<1>1. /\ poll.at = "stop" /\ Good(call["poll"]) /\ UNCHANGED <<ctl, pi, work>> /\ late' = late
      /\ PollDone /\ Done("poll")
      /\ gate' = IF CanReport THEN [gate EXCEPT !.current = call["poll"].reply] ELSE gate
  BY DEF StopReturns, Answered, Good
<1>2. GateCalm
  <2>1. CASE CanReport
    <3>1. r.kind = "stopped"
      BY <1>0, <1>1 DEF PollMatches, KindAt
    <3>2. /\ call["poll"].reply.id = r.id /\ call["poll"].reply.seg = r.seg
          /\ call["poll"].reply.state \notin Busy
      BY <1>0, <1>1, <3>1 DEF CallOK, Idling
    <3>3. r.id = gate.current.id /\ r.seg = gate.current.seg
      BY <1>1, <2>1 DEF CanReport, Retained, IInv, PollOK, Holds
    <3> QED
      BY <1>0, <1>1, <2>1, <3>2, <3>3 DEF GateCalm, Gates
  <2>2. CASE ~CanReport
    BY <1>1, <2>2 DEF GateCalm
  <2> QED
    BY <2>1, <2>2
<1> QED
  BY <1>0, <1>1, <1>2, PollEnds DEF GateCalm

LEMMA PollFailsKeeps ==
  ASSUME TypeOK, TypeOK', IInv, PollFails
  PROVE  IInv'
<1> PICK r : r = call["poll"].request
  OBVIOUS
<1>0. /\ gate \in Gates /\ gate.current.id <= ctl.id /\ pi \in Sessions
      /\ CallOK(ctl, call["poll"]) /\ PollMatches(poll.at, call["poll"])
  BY PollFacts
<1>1. Failed("poll") /\ PollDone /\ Done("poll") /\ UNCHANGED <<ctl, work>> /\ poll'.at = "idle"
  BY DEF PollFails, PollDone, Resting
<1>2. /\ gate' = Frozen(gate) \/ gate' = gate
      /\ pi' = pi \/ pi' = Aborted
      /\ poll.ok /\ poll.at \notin {"confirm", "stop"} => gate' = Frozen(gate)
  BY DEF PollFails, Fail, Frozen
<1>3. GateCalm /\ gate'.current = gate.current
  BY <1>0, <1>2 DEF GateCalm, Frozen, Gates
<1>4. poll.at # "idle" => gate'.frozen
  BY <1>0, <1>2 DEF Frozen, Gates, IInv, PollOK
<1>5. ASSUME r \in late', r \notin late
      PROVE  r.id <= ctl.id /\ LateOK(r)'
  <2>1. call["poll"].stage = "sent"
    BY <1>1, <1>5 DEF Failed, Refused, GivenUp
  <2>2. /\ r.kind \notin {"completed", "aborted"}
        /\ r.kind \in {"deferred", "stopped"} => poll.at \in {"deferring", "stop"}
        /\ r.kind = "stopped" => poll.at = "stop"
        /\ r.kind = "deferred" => poll.at = "deferring"
    BY <2>1, WaitsFor DEF Proc
  <2>3. ASSUME r.kind \in {"deferred", "stopped"}, r.id = ctl.id, Reserved
        PROVE  /\ gate'.frozen /\ gate'.current.id = r.id
               /\ r.kind = "deferred" => <<r.id, r.seg>> \notin gate'.injected
               /\ r.kind = "stopped" => pi'.turn # "formal"
    <3>1. Holds(r)
      BY <2>2, <2>3 DEF IInv, PollOK, Taking
    <3>2. gate.current.id = r.id
      BY <2>3, <3>1 DEF Holds, Gone, Reserved, TypeOK, Attempts
    <3>3. r.kind = "deferred" => <<r.id, r.seg>> \notin gate.injected
      BY <2>2, <2>3, NothingIsZero DEF IInv, Taken, TakenOK, Taking
    <3>4. r.kind = "stopped" => pi'.turn # "formal"
      BY <1>0, <1>2, <2>2 DEF IInv, PollOK, Aborted, Sessions
    <3> QED
      BY <1>3, <1>4, <2>2, <2>3, <3>2, <3>3, <3>4 DEF GateCalm
  <2> QED
    BY <1>0, <1>1, <2>2, <2>3 DEF LateOK, Reserved, CallOK, Taking
<1>6. \A q \in late' : q \in late \/ q = r
  BY <1>1 DEF Failed, Refused, GivenUp
<1>7. \A q \in late' : q \in late \/ (q.id <= ctl.id /\ LateOK(q)')
  BY <1>5, <1>6
<1> QED
  BY <1>0, <1>1, <1>2, <1>3, <1>7, PollEnds

LEMMA PollKeeps ==
  ASSUME TypeOK, TypeOK', IInv, Poll
  PROVE  IInv'
<1>1. CASE PollStale
  <2>1. GateCalm /\ late' = late
    BY <1>1, SameLate DEF PollStale, GateCalm
  <2>2. gate'.current.id <= ctl.id /\ UNCHANGED <<ctl, pi, work>> /\ PollDone /\ Done("poll")
    BY <1>1, PollFacts DEF PollStale
  <2> QED
    BY <2>1, <2>2, PollEnds
<1> QED
  BY <1>1, PollStartsKeeps, AttemptReturnsKeeps, DispatchesReturnKeeps, ReceivedReturnsKeeps,
     FinalGateKeeps, InjectionReturnsKeeps, DeferredReturnsKeeps, ConfirmReturnsKeeps,
     StopReturnsKeeps, PollFailsKeeps DEF Poll

-----------------------------------------------------------------------------
(* The turn and the user, action by action.                                *)

LEMMA WorkFacts ==
  ASSUME TypeOK, IInv
  PROVE  /\ ctl \in Attempts /\ ctl.id \in Nat
         /\ gate.current \in Copies /\ gate.current.id <= ctl.id /\ gate.current.rev \in Nat
         /\ gate \in Gates /\ call \in [Proc -> Calls] /\ pi \in Sessions /\ work \in Works
         /\ poll \in Polls /\ call["work"].request \in Requests
         /\ CallOK(ctl, call["work"]) /\ WorkMatches(work.at, call["work"])
         /\ CallOK(ctl, call["user"])
         /\ pi.id <= ctl.id /\ work.id <= ctl.id /\ NoCopy \in Copies /\ NoCopy.id <= ctl.id
<1>1. CallOK(ctl, call["work"]) /\ CallOK(ctl, call["user"]) /\ call["work"] \in Calls
  BY DEF IInv, Answers, Proc, TypeOK
<1> QED
  BY <1>1, PollFacts, TypeParts DEF IInv, Coupled, Known, Calls

\* The hook, a tool or the settled callback is done.
LEMMA WorkEnds ==
  ASSUME TypeOK, TypeOK', IInv, ctl' = ctl, poll' = poll, PiCalm,
         GateCalm \/ (GateLets /\ Gone(ctl, gate.current.id)), gate.frozen => gate'.frozen,
         gate'.current.id <= ctl.id, work' = NoWork, Done("work"),
         \A r \in late' : r \in late \/ (r.id <= ctl.id /\ LateOK(r)')
  PROVE  IInv'
<1>0. call \in [Proc -> Calls] /\ ctl.id \in Nat
  BY WorkFacts DEF Attempts
<1>1. call'["work"] = NoCall /\ \A q \in Proc \ {"work"} : call'[q] = call[q]
  BY <1>0 DEF Done, Proc
<1>2. Answers'
  BY <1>1, NoCallFacts, CallsAfter DEF Proc
<1>3. work'.at = "none" /\ work'.id <= ctl.id
  BY <1>0 DEF NoWork
<1>4. Coupled'
  BY <1>1, <1>3, NoCallFacts DEF IInv, Coupled, WorkMatches, Proc
<1>5. WorkOK'
  BY <1>3 DEF WorkOK
<1>6. call'["poll"] = call["poll"]
  BY <1>1 DEF Proc
<1> QED
  BY <1>2, <1>3, <1>4, <1>5, <1>6, WorkStep

\* The turn stays where it is, and what is at work for it.
LEMMA WorkStays ==
  ASSUME TypeOK, TypeOK', IInv, ctl' = ctl, GateCalm,
         pi'.turn = pi.turn, pi'.id = pi.id, pi'.seg = pi.seg,
         work'.at = work.at, work'.id = work.id, work'.seg = work.seg,
         call'["work"].request.id = call["work"].request.id,
         call'["work"].request.seg = call["work"].request.seg
  PROVE  PiCalm /\ WorkOK'
<1>1. PiCalm
  BY DEF PiCalm, IInv, Known
<1>2. work.at \in {"settling", "settle"} => Over(work.id, work.seg)'
  BY DEF IInv, WorkOK, Over, GateCalm
<1> QED
  BY <1>1, <1>2 DEF IInv, WorkOK

\* A call of the turn or of the user that was given up.
LEMMA WorkGivenUp ==
  ASSUME TypeOK, IInv, NEW p \in {"work", "user"}, Failed(p),
         NEW r \in late', r \notin late
  PROVE  /\ r = call[p].request /\ call[p].stage = "sent"
BY DEF Failed, Refused, GivenUp

LEMMA WorkFence ==
  ASSUME Confirmed("work")
  PROVE  /\ gate.current.id = call["work"].request.id
         /\ gate.current.seg = call["work"].request.seg
         /\ Good(call["work"]) /\ late' = late
BY DEF Confirmed, Fence, Answered, Good

LEMMA ObserveKeeps ==
  ASSUME TypeOK, TypeOK', IInv, ObserveReturns \/ ObserveStale \/ ObserveFails
  PROVE  IInv'
<1> DEFINE r == call["work"].request
           x == call["work"].reply
<1>0. /\ gate \in Gates /\ pi \in Sessions /\ gate.current.id <= ctl.id
      /\ CallOK(ctl, call["work"]) /\ WorkMatches(work.at, call["work"])
      /\ ctl.id \in Nat /\ pi.id <= ctl.id
  BY WorkFacts
<1>1. /\ work.at = "observe" /\ UNCHANGED <<ctl, poll>> /\ work' = NoWork /\ Done("work")
      /\ r.kind = "input_observed"
  BY <1>0 DEF ObserveReturns, ObserveStale, ObserveFails, WorkMatches
<1>2. pi.turn = "input" /\ pi.id = r.id /\ pi.seg = r.seg
  BY <1>1 DEF IInv, WorkOK
<1>3. ASSUME pi' = Begun(gate) \/ pi' = Rest
      PROVE  /\ PiCalm
             /\ pi'.turn # "none" => pi'.id = r.id /\ pi'.seg = r.seg
  <2>1. CASE pi' = Rest
    BY <1>0, <2>1 DEF Rest, NoTurn, PiCalm
  <2>2. CASE pi' = [pi EXCEPT !.turn = "formal"] /\ ~gate.frozen
    BY <1>0, <1>2, <2>2 DEF PiCalm, Sessions
  <2> QED
    BY <1>3, <2>1, <2>2 DEF Begun
<1>4. CASE ObserveReturns
  <2>1. /\ gate' = [gate EXCEPT !.current = x] /\ pi' = Begun(gate)
        /\ gate.current.id = r.id /\ gate.current.seg = r.seg /\ Good(call["work"]) /\ late' = late
    BY <1>4, WorkFence DEF ObserveReturns
  <2>2. x.id = r.id /\ x.seg = r.seg
    BY <1>0, <1>1, <2>1 DEF CallOK, Events
  <2>3. GateCalm /\ gate'.current.id <= ctl.id
    BY <1>0, <1>3, <2>1, <2>2 DEF GateCalm, Gates
  <2> QED
    BY <1>1, <1>3, <2>1, <2>3, WorkEnds DEF GateCalm
<1>5. CASE ObserveStale
  <2>1. gate' = gate /\ pi' = Begun(gate) /\ late' = late
    BY <1>5, SameLate DEF ObserveStale
  <2>2. GateCalm
    BY <2>1 DEF GateCalm
  <2> QED
    BY <1>0, <1>1, <1>3, <2>1, <2>2, WorkEnds
<1>6. CASE ObserveFails
  <2>1. gate' = Frozen(gate) /\ pi' = Rest /\ Failed("work")
    BY <1>6 DEF ObserveFails
  <2>2. GateCalm /\ gate'.current.id <= ctl.id
    BY <1>0, <2>1 DEF GateCalm, Frozen, Gates
  <2>3. \A q \in late' : q \in late \/ (q.id <= ctl.id /\ LateOK(q)')
    <3> SUFFICES ASSUME NEW q \in late', q \notin late PROVE q.id <= ctl.id /\ LateOK(q)'
      OBVIOUS
    <3>1. q = r
      BY <2>1, WorkGivenUp
    <3> QED
      BY <1>0, <1>1, <3>1 DEF LateOK, CallOK
  <2> QED
    BY <1>1, <1>3, <2>1, <2>2, <2>3, WorkEnds DEF GateCalm
<1> QED
  BY <1>4, <1>5, <1>6

LEMMA ToolReturnsKeeps ==
  ASSUME TypeOK, TypeOK', IInv, ToolReturns
  PROVE  IInv'
<1> DEFINE r == call["work"].request
           x == call["work"].reply
<1>0. /\ gate \in Gates /\ gate.current.id <= ctl.id /\ pi.id <= ctl.id
      /\ CallOK(ctl, call["work"]) /\ WorkMatches(work.at, call["work"])
  BY WorkFacts
<1>1. /\ work.at = "tool" /\ UNCHANGED <<ctl, pi, poll>> /\ work' = NoWork /\ Done("work")
      /\ r.kind \in {"result_proposed", "yield"}
  BY <1>0 DEF ToolReturns, WorkMatches
<1>2. PiCalm /\ pi.id = r.id /\ pi.seg = r.seg
  BY <1>0, <1>1 DEF PiCalm, IInv, WorkOK
<1>3. CASE Confirmed("work") /\ gate' = [gate EXCEPT !.current = x]
  <2>1. gate.current.id = r.id /\ gate.current.seg = r.seg /\ Good(call["work"]) /\ late' = late
    BY <1>3, WorkFence
  <2>2. x.id = r.id /\ x.seg = r.seg
    BY <1>0, <1>1, <2>1 DEF CallOK, Events
  <2>3. GateCalm /\ gate'.current.id <= ctl.id
    BY <1>0, <1>1, <1>2, <1>3, <2>1, <2>2 DEF GateCalm, Gates
  <2> QED
    BY <1>1, <1>2, <2>1, <2>3, WorkEnds DEF GateCalm
<1>4. CASE gate' = gate /\ (Failed("work") \/ Stale("work"))
  <2>1. GateCalm
    BY <1>4 DEF GateCalm
  <2>2. \A q \in late' : q \in late \/ (q.id <= ctl.id /\ LateOK(q)')
    <3> SUFFICES ASSUME NEW q \in late', q \notin late PROVE q.id <= ctl.id /\ LateOK(q)'
      OBVIOUS
    <3>1. q = r
      BY <1>4, WorkGivenUp, SameLate
    <3> QED
      BY <1>0, <1>1, <3>1 DEF LateOK, CallOK
  <2> QED
    BY <1>0, <1>1, <1>2, <1>4, <2>1, <2>2, WorkEnds
<1> QED
  BY <1>3, <1>4 DEF ToolReturns

LEMMA SettleReturnsKeeps ==
  ASSUME TypeOK, TypeOK', IInv, SettleReturns
  PROVE  IInv'
<1> DEFINE r == call["work"].request
           x == call["work"].reply
<1>0. /\ gate \in Gates /\ pi \in Sessions /\ gate.current.id <= ctl.id /\ pi.id <= ctl.id
      /\ CallOK(ctl, call["work"]) /\ WorkMatches(work.at, call["work"]) /\ NoCopy.id <= ctl.id
  BY WorkFacts
<1>1. /\ work.at = "settle" /\ UNCHANGED <<ctl, poll>> /\ work' = NoWork /\ Done("work")
      /\ r.kind \in {"completed", "aborted"}
  BY <1>0 DEF SettleReturns, WorkMatches
<1>2. pi' = pi \/ pi' = Aborted => PiCalm
  BY <1>0 DEF PiCalm, Aborted, Sessions
<1>3. CASE /\ Confirmed("work") /\ pi' = pi
           /\ gate' = [gate EXCEPT !.current = IF x.ended THEN NoCopy ELSE x]
  <2>1. gate.current.id = r.id /\ gate.current.seg = r.seg /\ Good(call["work"]) /\ late' = late
    BY <1>3, WorkFence
  <2>2. /\ x.id = r.id /\ x.seg = r.seg /\ x.state \notin Busy
        /\ x.ended => Gone(ctl, gate.current.id)
    BY <1>0, <1>1, <2>1 DEF CallOK, Events, Idling
  <2>3. gate'.frozen = gate.frozen /\ gate'.current.id <= ctl.id
    BY <1>0, <1>3, <2>1, <2>2 DEF Gates
  <2>4. GateCalm \/ (GateLets /\ Gone(ctl, gate.current.id))
    <3>1. CASE x.ended
      <4>1. gate'.current = NoCopy /\ gate'.injected = gate.injected
        BY <1>0, <1>3, <3>1 DEF Gates
      <4> QED
        BY <2>2, <3>1, <4>1 DEF GateLets, NoCopy, Busy
    <3>2. CASE ~x.ended
      BY <1>0, <1>3, <2>1, <2>2, <3>2 DEF GateCalm, Gates
    <3> QED
      BY <3>1, <3>2
  <2> QED
    BY <1>1, <1>2, <1>3, <2>1, <2>3, <2>4, WorkEnds
<1>4. CASE (Failed("work") /\ Fail) \/ (Stale("work") /\ UNCHANGED <<gate, pi>>)
  <2>1. PiCalm
    BY <1>2, <1>4 DEF Fail
  <2>2. GateCalm /\ gate'.current.id <= ctl.id
    BY <1>0, <1>4 DEF GateCalm, Fail, Gates
  <2>3. \A q \in late' : q \in late \/ (q.id <= ctl.id /\ LateOK(q)')
    <3> SUFFICES ASSUME NEW q \in late', q \notin late PROVE q.id <= ctl.id /\ LateOK(q)'
      OBVIOUS
    <3>1. q = r
      BY <1>4, WorkGivenUp, SameLate
    <3>2. Over(q.id, q.seg)
      BY <1>1, <3>1 DEF IInv, WorkOK
    <3>3. Over(q.id, q.seg)'
      BY <1>1, <2>1, <2>2, <3>2, CalmKeeps
    <3> QED
      BY <1>0, <1>1, <3>1, <3>3 DEF LateOK, CallOK
  <2> QED
    BY <1>1, <2>1, <2>2, <2>3, WorkEnds DEF GateCalm
<1> QED
  BY <1>3, <1>4 DEF SettleReturns

\* The turn asks for an event about what the gate retains.
LEMMA WorkAsks ==
  ASSUME TypeOK, IInv, ctl' = ctl,
         NEW kind \in {"result_proposed", "yield", "completed", "aborted"},
         Ask("work", kind, gate.current, gate.current.rev)
  PROVE  /\ Answers' /\ call'["poll"] = call["poll"] /\ call'["user"] = call["user"]
         /\ call'["work"].stage # "none" /\ call'["work"].request.kind = kind
         /\ call'["work"].request.id = gate.current.id
         /\ call'["work"].request.seg = gate.current.seg
<1> DEFINE k == Asked("work", kind, gate.current, gate.current.rev)
<1>1. call' = [call EXCEPT !["work"] = k] /\ call \in [Proc -> Calls]
  BY TypeParts DEF Ask
<1>2. /\ CallOK(ctl, k) /\ k.stage # "none" /\ k.request.kind = kind
      /\ k.request.id = gate.current.id /\ k.request.seg = gate.current.seg
  BY WorkFacts, AskedFacts DEF Events
<1> HIDE DEF k
<1>3. call'["work"] = k /\ \A q \in Proc \ {"work"} : call'[q] = call[q]
  BY <1>1 DEF Proc
<1>4. Answers'
  BY <1>2, <1>3, CallsAfter DEF Proc
<1> QED
  BY <1>2, <1>3, <1>4 DEF Proc

LEMMA ToolKeeps ==
  ASSUME TypeOK, TypeOK', IInv, Tool("result_proposed") \/ Tool("yield")
  PROVE  IInv'
<1> PICK kind \in {"result_proposed", "yield"} : Tool(kind)
  OBVIOUS
<1>0. pi \in Sessions /\ gate.current.id <= ctl.id /\ pi.id <= ctl.id /\ ctl.id \in Nat
  BY WorkFacts
<1>1. /\ pi.turn = "formal" /\ gate.current.state \in Busy
      /\ pi' = [pi EXCEPT !.told = TRUE] /\ work' = [NoWork EXCEPT !.at = "tool", !.ok = TRUE]
      /\ Ask("work", kind, gate.current, gate.current.rev)
      /\ UNCHANGED <<ctl, gate, poll, late>>
  BY DEF Tool, Permitted, Busy
<1>2. gate.current.id = pi.id /\ gate.current.seg = pi.seg
  BY <1>1 DEF IInv, TurnOK
<1>3. pi'.turn = "formal" /\ pi'.id = pi.id /\ pi'.seg = pi.seg
  BY <1>0, <1>1 DEF Sessions
<1>4. work'.at = "tool" /\ work'.id = 0
  BY <1>1 DEF NoWork
<1>5. /\ Answers' /\ call'["poll"] = call["poll"] /\ call'["user"] = call["user"]
      /\ call'["work"].request.kind = kind /\ call'["work"].request.id = gate.current.id
      /\ call'["work"].request.seg = gate.current.seg
  BY <1>1, WorkAsks
<1>6. Coupled'
  BY <1>1, <1>4, <1>5 DEF IInv, Coupled, WorkMatches
<1>7. WorkOK'
  BY <1>2, <1>3, <1>4, <1>5 DEF WorkOK
<1>8. GateCalm /\ PiCalm
  BY <1>0, <1>1, <1>3 DEF GateCalm, PiCalm
<1> QED
  BY <1>0, <1>1, <1>4, <1>5, <1>6, <1>7, <1>8, WorkStep

LEMMA TurnEndsKeeps ==
  ASSUME TypeOK, TypeOK', IInv, TurnEnds
  PROVE  IInv'
<1>0. gate.current.id <= ctl.id /\ pi.id <= ctl.id /\ ctl.id \in Nat
  BY WorkFacts
<1>1. /\ pi.turn = "formal" /\ work.at = "none" /\ pi' = Rest
      /\ UNCHANGED <<ctl, gate, poll, call, late>>
  BY DEF TurnEnds
<1>2. pi'.turn = "none" /\ pi'.id = 0
  BY <1>1 DEF Rest, NoTurn
<1>3. \/ work'.at = "settling" /\ work'.id = pi.id /\ work'.seg = pi.seg
      \/ work'.at = "none" /\ work'.id = 0
  BY DEF TurnEnds, NoWork
<1>4. WorkOK'
  <2>1. work'.at = "settling" => (Over(work.id, work.seg))'
    BY <1>1, <1>2, <1>3 DEF IInv, TurnOK, Over
  <2> QED
    BY <1>3, <2>1 DEF WorkOK
<1>5. Coupled' /\ Answers'
  BY <1>1, <1>3 DEF IInv, Coupled, WorkMatches, Answers
<1>6. GateCalm /\ PiCalm
  BY <1>0, <1>1, <1>2 DEF GateCalm, PiCalm
<1> QED
  BY <1>0, <1>1, <1>3, <1>4, <1>5, <1>6, WorkStep

LEMMA SettleKeeps ==
  ASSUME TypeOK, TypeOK', IInv, Settle("completed") \/ Settle("aborted")
  PROVE  IInv'
<1> PICK outcome \in {"completed", "aborted"} : Settle(outcome)
  OBVIOUS
<1>0. /\ gate.current.id <= ctl.id /\ pi.id <= ctl.id /\ ctl.id \in Nat /\ work \in Works
      /\ work.id <= ctl.id
  BY WorkFacts
<1>1. work.at = "settling" /\ UNCHANGED <<ctl, gate, pi, poll, late>>
  BY DEF Settle
<1>2. GateCalm /\ PiCalm
  BY <1>0, <1>1 DEF GateCalm, PiCalm
<1>3. CASE /\ gate.current.id = work.id /\ gate.current.seg = work.seg
           /\ work' = [work EXCEPT !.at = "settle"]
           /\ Ask("work", outcome, gate.current, gate.current.rev)
  <2>1. work'.at = "settle" /\ work'.id = work.id /\ work'.seg = work.seg
    BY <1>0, <1>3 DEF Works
  <2>2. /\ Answers' /\ call'["poll"] = call["poll"] /\ call'["user"] = call["user"]
        /\ call'["work"].request.kind = outcome /\ call'["work"].request.id = gate.current.id
        /\ call'["work"].request.seg = gate.current.seg
    BY <1>1, <1>3, WorkAsks
  <2>3. WorkOK'
    <3>1. (Over(work.id, work.seg))'
      BY <1>1, <2>1 DEF IInv, WorkOK, Over
    <3> QED
      BY <1>3, <2>1, <2>2, <3>1 DEF WorkOK
  <2>4. Coupled'
    BY <1>1, <2>1, <2>2 DEF IInv, Coupled, WorkMatches
  <2> QED
    BY <1>0, <1>1, <1>2, <2>1, <2>2, <2>3, <2>4, WorkStep
<1>4. CASE work' = NoWork /\ call' = call
  <2>1. work'.at = "none" /\ work'.id = 0
    BY <1>4 DEF NoWork
  <2>2. WorkOK' /\ Coupled' /\ Answers'
    BY <1>1, <1>4, <2>1 DEF WorkOK, IInv, Coupled, WorkMatches, Answers
  <2> QED
    BY <1>0, <1>1, <1>2, <1>4, <2>1, <2>2, WorkStep
<1> QED
  BY <1>3, <1>4 DEF Settle

\* An event leaves the queue with the revision of the copy as it is by now.
LEMMA SendKeeps ==
  ASSUME TypeOK, TypeOK', IInv, NEW p \in Proc, Send(p)
  PROVE  IInv'
<1> DEFINE k == call'[p]
<1>0. /\ call \in [Proc -> Calls] /\ call[p] \in Calls /\ CallOK(ctl, call[p])
      /\ gate.current.id <= ctl.id /\ work.id <= ctl.id
  BY WorkFacts DEF IInv, Answers
<1>1. /\ call[p].stage = "queued" /\ UNCHANGED <<ctl, gate, pi, poll, work, late>>
      /\ call' = [call EXCEPT ![p].stage = "sent", ![p].request.rev = gate.current.rev]
  BY DEF Send
<1>2. /\ k.stage = "sent" /\ k.reply = call[p].reply /\ k.request.kind = call[p].request.kind
      /\ k.request.id = call[p].request.id /\ k.request.seg = call[p].request.seg
  <2>1. k = [call[p] EXCEPT !.stage = "sent", !.request.rev = gate.current.rev]
    BY <1>0, <1>1
  <2> HIDE DEF k
  <2>2. k.stage = "sent" /\ k.reply = call[p].reply
    BY <1>0, <2>1 DEF Calls
  <2>3. k.request = [call[p].request EXCEPT !.rev = gate.current.rev]
    BY <1>0, <2>1 DEF Calls
  <2>4. call[p].request \in Requests
    BY <1>0 DEF Calls
  <2> QED
    BY <2>2, <2>3, <2>4 DEF Requests
<1>3. \A q \in Proc \ {p} : call'[q] = call[q]
  BY <1>0, <1>1
<1> HIDE DEF k
<1>4. CallOK(ctl, k)
  BY <1>0, <1>2 DEF CallOK, Good
<1>5. Answers'
  BY <1>1, <1>3, <1>4, CallsAfter DEF k
<1>6. \A q \in Proc : /\ call'[q].request.kind = call[q].request.kind
                      /\ call'[q].request.id = call[q].request.id
                      /\ call'[q].request.seg = call[q].request.seg
                      /\ call'[q].reply = call[q].reply
                      /\ call'[q].stage = "none" <=> call[q].stage = "none"
                      /\ Good(call'[q]) => Good(call[q])
  BY <1>1, <1>2, <1>3 DEF k, Good
<1>7. "poll" \in Proc /\ "work" \in Proc /\ "user" \in Proc
  BY DEF Proc
<1>8. Coupled'
  BY <1>1, <1>6, <1>7 DEF IInv, Coupled, PollMatches, WorkMatches
<1>9. GateCalm
  BY <1>1 DEF GateCalm
<1>10. PiCalm /\ WorkOK'
  BY <1>1, <1>6, <1>7, <1>9, WorkStays
<1> QED
  BY <1>0, <1>1, <1>5, <1>6, <1>7, <1>8, <1>9, <1>10, WorkStep

LEMMA InterfereKeeps ==
  ASSUME TypeOK, TypeOK', IInv, Interfere
  PROVE  IInv'
<1> DEFINE k == Asked("user", "interruption", NoCopy, 0)
<1>0. /\ gate \in Gates /\ gate.current.id <= ctl.id /\ work.id <= ctl.id
      /\ pi \in Sessions /\ work \in Works /\ poll \in Polls /\ call \in [Proc -> Calls]
      /\ NoCopy \in Copies /\ NoCopy.id <= ctl.id
  BY WorkFacts
<1>1. /\ gate' = Frozen(gate) /\ poll' = Broken(poll) /\ work' = Broken(work) /\ pi' = Aborted
      /\ call' = [call EXCEPT !["user"] = k] /\ UNCHANGED <<ctl, late>>
  BY DEF Interfere, Ask
<1>2. CallOK(ctl, k) /\ k.request.kind = "interruption"
  BY <1>0, AskedFacts
<1> HIDE DEF k
<1>3. call'["user"] = k /\ call'["poll"] = call["poll"] /\ call'["work"] = call["work"]
  BY <1>0, <1>1 DEF Proc
<1>4. Answers'
  BY <1>1, <1>2, <1>3, CallsAfter DEF Proc
<1>5. GateCalm /\ gate'.frozen /\ gate'.current = gate.current
  BY <1>0, <1>1 DEF GateCalm, Frozen, Gates
<1>6. /\ pi'.turn = pi.turn /\ pi'.id = pi.id /\ pi'.seg = pi.seg
      /\ work'.at = work.at /\ work'.id = work.id /\ work'.seg = work.seg /\ poll'.at = poll.at
  BY <1>0, <1>1 DEF Aborted, Broken, Sessions, Works, Polls
<1>7. Coupled'
  BY <1>2, <1>3, <1>6 DEF IInv, Coupled
<1>8. PiCalm /\ WorkOK'
  BY <1>1, <1>3, <1>5, <1>6, WorkStays
<1> QED
  BY <1>0, <1>1, <1>3, <1>4, <1>5, <1>6, <1>7, <1>8, WorkStep

LEMMA InterferenceReturnsKeeps ==
  ASSUME TypeOK, TypeOK', IInv, InterferenceReturns
  PROVE  IInv'
<1> DEFINE r == call["user"].request
<1>0. /\ gate \in Gates /\ gate.current.id <= ctl.id /\ work.id <= ctl.id
      /\ pi \in Sessions /\ call \in [Proc -> Calls] /\ CallOK(ctl, call["user"])
  BY WorkFacts
<1>1. /\ r.kind = "interruption" /\ Done("user") /\ UNCHANGED <<ctl, poll, work>>
      /\ \/ Answered("user") /\ UNCHANGED <<gate, pi>>
         \/ Failed("user") /\ Fail
  BY DEF InterferenceReturns, IInv, Coupled
<1>2. call'["user"] = NoCall /\ call'["poll"] = call["poll"] /\ call'["work"] = call["work"]
  BY <1>0, <1>1 DEF Done, Proc
<1>3. Answers'
  BY <1>1, <1>2, NoCallFacts, CallsAfter DEF Proc
<1>4. GateCalm /\ gate'.current = gate.current
  BY <1>0, <1>1 DEF GateCalm, Fail, Gates
<1>5. pi'.turn = pi.turn /\ pi'.id = pi.id /\ pi'.seg = pi.seg
  BY <1>0, <1>1 DEF Fail, Aborted, Sessions
<1>6. Coupled'
  BY <1>1, <1>2, NoCallFacts DEF IInv, Coupled
<1>7. PiCalm /\ WorkOK'
  BY <1>1, <1>2, <1>4, <1>5, WorkStays
<1>8. \A q \in late' : q \in late \/ (q.id <= ctl.id /\ LateOK(q)')
  <2> SUFFICES ASSUME NEW q \in late', q \notin late PROVE q.id <= ctl.id /\ LateOK(q)'
    OBVIOUS
  <2>1. q = r
    BY <1>1, WorkGivenUp, SameLate
  <2> QED
    BY <1>0, <1>1, <2>1 DEF LateOK, CallOK
<1> QED
  BY <1>0, <1>1, <1>2, <1>3, <1>4, <1>6, <1>7, <1>8, WorkStep DEF GateCalm

LEMMA DialogKeeps ==
  ASSUME TypeOK, TypeOK', IInv, Dialog \/ DialogEnds
  PROVE  IInv'
<1>0. gate.current.id <= ctl.id /\ work.id <= ctl.id /\ pi \in Sessions
  BY WorkFacts
<1>1. UNCHANGED <<ctl, gate, poll, work, call, late>>
  BY DEF Dialog, DialogEnds
<1>2. pi'.turn = pi.turn /\ pi'.id = pi.id /\ pi'.seg = pi.seg
  BY <1>0 DEF Dialog, DialogEnds, Sessions
<1>3. GateCalm
  BY <1>1 DEF GateCalm
<1>4. PiCalm /\ WorkOK'
  BY <1>1, <1>2, <1>3, WorkStays
<1>5. Coupled' /\ Answers'
  BY <1>1 DEF IInv, Coupled, Answers
<1> QED
  BY <1>0, <1>1, <1>3, <1>4, <1>5, WorkStep

LEMMA TurnKeeps ==
  ASSUME TypeOK, TypeOK', IInv, Turn
  PROVE  IInv'
BY ObserveKeeps, ToolReturnsKeeps, SettleKeeps, SettleReturnsKeeps DEF Turn

-----------------------------------------------------------------------------
(* The results.                                                            *)

LEMMA IInvInit == Init => IInv
<1> SUFFICES ASSUME Init PROVE IInv
  OBVIOUS
<1>1. /\ ctl = NoAttempt /\ pi = NoTurn /\ poll = Resting /\ work = NoWork /\ late = {}
      /\ gate.current = NoCopy /\ gate.injected = {}
      /\ \A p \in Proc : call[p] = NoCall
  BY DEF Init
<1>2. AttemptOK(ctl) /\ DeferredNotInjected
  BY <1>1 DEF NoAttempt, AttemptOK, Busy, DeferredNotInjected
<1>3. Known /\ Late
  BY <1>1 DEF Known, Late, NoAttempt, NoTurn, NoWork, NoCopy
<1>4. Coupled
  BY <1>1 DEF Coupled, PollMatches, WorkMatches, Resting, NoWork, NoCall, Proc
<1>5. Answers
  BY <1>1, NoCallFacts, InitTyped DEF Answers
<1>6. PollOK /\ Taken /\ Offered
  BY <1>1 DEF PollOK, Taken, TakenOK, Offered, OfferedOK, Taking, Resting
<1>7. TurnOK /\ WorkOK
  BY <1>1 DEF TurnOK, WorkOK, NoTurn, NoWork
<1> QED
  BY <1>2, <1>3, <1>4, <1>5, <1>6, <1>7 DEF IInv

LEMMA IInvNext == TypeOK /\ IInv /\ [Next]_vars => IInv'
<1> SUFFICES ASSUME TypeOK, IInv, [Next]_vars PROVE IInv'
  OBVIOUS
<1>1. TypeOK'
  BY NextTyped
<1>2. CASE UNCHANGED vars
  BY <1>2 DEF vars, IInv, AttemptOK, Known, Coupled, Answers, PollOK, Holds, Taken, TakenOK,
              Offered, OfferedOK, TurnOK, Over, WorkOK, LateOK, Late, DeferredNotInjected,
              Reserved
<1>3. CASE Next
  <2>1. CASE Controller \/ ServeLate \/ \E p \in Proc : Send(p) \/ Serve(p)
    BY <1>1, <2>1, ControllerKeeps, ServeLateKeeps, SendKeeps, ServeKeeps
  <2>2. CASE Poll \/ Turn \/ Tool("result_proposed") \/ Tool("yield") \/ TurnEnds
    BY <1>1, <2>2, PollKeeps, TurnKeeps, ToolKeeps, TurnEndsKeeps
  <2>3. CASE Interfere \/ InterferenceReturns \/ Dialog \/ DialogEnds
    BY <1>1, <2>3, InterfereKeeps, InterferenceReturnsKeeps, DialogKeeps
  <2> QED
    BY <1>3, <2>1, <2>2, <2>3 DEF Next
<1> QED
  BY <1>2, <1>3

\* What every copy of the Attempt may say, wherever it is.
THEOREM CopiesInvariant == Spec => [](TypeOK /\ IInv)
<1>1. Init => TypeOK /\ IInv
  BY InitTyped, IInvInit
<1>2. TypeOK /\ IInv /\ [Next]_vars => (TypeOK /\ IInv)'
  BY NextTyped, IInvNext
<1> QED
  BY <1>1, <1>2, PTL DEF Spec

\* Whatever runs in the session for a segment was announced to the controller
\* first, whichever calls were lost or served late.
THEOREM Announcement == Spec => []IntentBeforeInput
<1>1. TypeOK /\ IInv => IntentBeforeInput
  BY DEF IInv, TurnOK, Announced, Announcing, IntentBeforeInput
<1> QED
  BY <1>1, CopiesInvariant, PTL

\* While a turn is allowed its tools, the agent is reserved for the segment the
\* gate retains, the operator has attested that it stopped, or a newer Attempt has
\* the agent: no answer that comes late leaves the gate open for a released one.
THEOREM Permission == Spec => []PermitMeansReserved
<1>1. ASSUME TypeOK, IInv, pi.turn = "formal", Retained, Permitted
      PROVE  \/ ctl.id = gate.current.id /\ ctl.seg = gate.current.seg /\ Reserved
             \/ ctl.id = gate.current.id /\ ctl.end = "attested"
             \/ ctl.id > gate.current.id
  <2>1. /\ gate.current.id = pi.id /\ gate.current.seg = pi.seg /\ ~gate.frozen
        /\ Current(ctl, pi.id, pi.seg)
        /\ pi.id = ctl.id /\ ctl.end = "released" => gate.frozen \/ gate.current.id # pi.id
    BY <1>1 DEF Permitted, IInv, TurnOK, Busy
  <2>2. /\ pi.id <= ctl.id /\ ctl.id \in Nat /\ pi.id \in Nat
        /\ ctl.end \in {"none", "released", "attested"}
    BY <1>1 DEF IInv, Known, TypeOK, Attempts
  <2>3. CASE pi.id = ctl.id
    BY <2>1, <2>2, <2>3 DEF Current, Reserved
  <2>4. CASE pi.id # ctl.id
    BY <2>1, <2>2, <2>4
  <2> QED
    BY <2>3, <2>4
<1>2. TypeOK /\ IInv => PermitMeansReserved
  BY <1>1 DEF PermitMeansReserved
<1> QED
  BY <1>2, CopiesInvariant, PTL

\* A segment the controller takes for deferred is never in the set of those the
\* adapter has injected.
THEOREM Deferral == Spec => []DeferredNotInjected
<1>1. TypeOK /\ IInv => DeferredNotInjected
  BY DEF IInv
<1> QED
  BY <1>1, CopiesInvariant, PTL

\* No step of the controller or of a call releases an Attempt while a turn of it
\* runs, but the attestation of the operator.
THEOREM ReleasesAtRest == Spec => ReleasedAtRest
<1> DEFINE Safe == Reserved /\ ctl'.end = "released" => ~(pi.turn = "formal" /\ pi.id = ctl.id)
<1>1. ASSUME TypeOK, IInv, [Next]_vars PROVE [Safe]_vars
  <2>1. TypeOK'
    BY <1>1, NextTyped
  <2> SUFFICES ASSUME Reserved, ctl'.end = "released", pi.turn = "formal", pi.id = ctl.id
               PROVE  FALSE
    OBVIOUS
  <2>2. ctl' # ctl
    BY DEF Reserved
  <2>3. Next
    BY <1>1, <2>2 DEF vars
  <2>4. Controller \/ ServeLate \/ \E p \in Proc : Serve(p)
    BY <2>2, <2>3 DEF Next, Poll, PollStarts, AttemptReturns, DispatchesReturn, ReceivedReturns,
       FinalGate, InjectionReturns, DeferredReturns, ConfirmReturns, StopReturns, PollFails,
       PollStale, Turn, ObserveReturns, ObserveStale, ObserveFails, ToolReturns, Settle,
       SettleReturns, Tool, Interfere, InterferenceReturns, Dialog, DialogEnds, TurnEnds, Send
  <2>5. Advance
    BY <1>1, <2>1, <2>4, ControllerKeeps, ServeLateKeeps, ServeKeeps
  <2>6. /\ Announced(ctl, pi.id, pi.seg) /\ Current(ctl, pi.id, pi.seg)
        /\ ctl.id \in Nat /\ ctl.seg \in Nat /\ ctl'.id \in Nat
    BY <1>1, <2>1 DEF IInv, TurnOK, TypeOK, Attempts
  <2>7. pi.seg = ctl.seg /\ ctl.state # "suspended" /\ ctl.receipt \in Announcing
    BY <2>6 DEF Current, Announced, Reserved
  <2>8. Releases
    BY <2>2, <2>5 DEF Advance
  <2>9. Over(ctl.id, ctl.seg)
    BY <2>5, <2>7, <2>8 DEF Advance, Unannounced, AtRest
  <2> QED
    BY <2>7, <2>9 DEF Over
<1>2. TypeOK /\ IInv /\ [Next]_vars => [Safe]_vars
  BY <1>1
<1> QED
  BY <1>2, CopiesInvariant, PTL DEF Spec, ReleasedAtRest
=============================================================================
