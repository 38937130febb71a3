-------------------------- MODULE BuyerSessionTold --------------------------
(***************************************************************************)
(* Theorems about what BuyerSession tells the receiver of the callbacks:   *)
(* nothing that the outbox does not hold, one kind of payment, verdicts    *)
(* before they are stored, and no analysis without one; and about what the *)
(* page of micro-ui makes of that.  For any set of sessions and all        *)
(* bounds, whatever raises, expires or restarts.                           *)
(***************************************************************************)
EXTENDS BuyerSessionProofs, MCBuyerSession, WellFoundedInduction

Payments == {"payment-ready", "payment-unverified"}
Progress == {"start", "step-started", "step-finished", "ask-user"}
PaymentOf(v) == IF v = "completed" THEN "payment-ready" ELSE "payment-unverified"

(* The event of a frame fits the place where the coroutine goes on.        *)
Fits(f) ==
  \/ f.then \in {"auth", "run", "result", "await"} /\ f.event.type \in Progress
  \/ f.then = "verdict" /\ f.verdict # "failed" /\ f.event.type = PaymentOf(f.verdict)
  \/ f.then = "settle" /\ f.event.type = VerdictType[f.verdict]

(* The outbox holds what the receiver has and what is being delivered.     *)
InLog(s, e) == \E j \in DOMAIN log[s] : e = log[s][j]
WireInv(s) ==
  status[s] # "gone" =>
    /\ \A i \in DOMAIN inbox[s] : InLog(s, inbox[s][i])
    /\ pc[s] = "deliver" => InLog(s, frame[s].event)

(* What the receiver has been told when the coroutine is at its place.     *)
PathInv(s) ==
  /\ status[s] = "absent" => pc[s] = "none" /\ inbox[s] = <<>>
  /\ pc[s] \in InEmission => Fits(frame[s])
  /\ pc[s] = "mark_delivered" => Received(s, frame[s].event.type)
  /\ Where(s) \in Unsettled => \A t \in Payments : ~Received(s, t)
  /\ pc[s] \in InEmission /\ frame[s].then = "verdict" =>
       \A t \in Payments : Received(s, t) => t = frame[s].event.type
  /\ (pc[s] = "verdict" \/ Where(s) = "settle") /\ frame[s].verdict # "failed" =>
       Received(s, PaymentOf(frame[s].verdict))
  /\ pc[s] \in {"settle", "schedule"} => Received(s, VerdictType[frame[s].verdict])
  /\ pc[s] = "schedule" => frame[s].verdict # "unverified"

(* What it has been told when the row or the analysis says so.             *)
Ordered(s) ==
  \A j \in DOMAIN inbox[s] : inbox[s][j].type = "scenario-finished" =>
    \E i \in 1..(j - 1) : inbox[s][i].type = "payment-ready"
RowInv(s) ==
  /\ status[s] \in {"completed", "unverified"} =>
       Received(s, PaymentOf(status[s])) /\ Received(s, VerdictType[status[s]])
  /\ ~(Received(s, "payment-ready") /\ Received(s, "payment-unverified"))
  /\ Ordered(s)
  /\ s \in analysis => Received(s, "scenario-finished") \/ Received(s, "scenario-failed")

ToldInv == \A s \in Sessions : WireInv(s) /\ PathInv(s) /\ RowInv(s)

LEMMA ToldInvInit == Init => ToldInv
  BY DEF Init, ToldInv, WireInv, PathInv, RowInv, Received, Ordered, InEmission, Where, Unsettled

LEMMA ToldInvImplies ==
  ToldInv /\ TypeOK =>
    StoredVerdictIsTold /\ PaymentToldOnce /\ OutboxBeforeWire /\ AnalysisAfterVerdict
<1>. SUFFICES ASSUME ToldInv, TypeOK
     PROVE StoredVerdictIsTold /\ PaymentToldOnce /\ OutboxBeforeWire /\ AnalysisAfterVerdict
  OBVIOUS
<1>1. StoredVerdictIsTold
  BY DEF ToldInv, RowInv, StoredVerdictIsTold, PaymentOf, VerdictType
<1>2. PaymentToldOnce
  BY DEF ToldInv, RowInv, PaymentToldOnce, Ordered
<1>3. OutboxBeforeWire
  BY DEF ToldInv, WireInv, OutboxBeforeWire, InLog
<1>4. AnalysisAfterVerdict
  BY DEF ToldInv, RowInv, AnalysisAfterVerdict, TypeOK
<1>. QED
  BY <1>1, <1>2, <1>3, <1>4

-----------------------------------------------------------------------------
(* A step of one session *)

(* Nothing that the invariant looks at changes for session t.              *)
Stays(t) ==
  /\ status'[t] = status[t] /\ log'[t] = log[t] /\ pc'[t] = pc[t] /\ frame'[t] = frame[t]
  /\ inbox'[t] = inbox[t] /\ (t \in analysis' <=> t \in analysis)

LEMMA StaysTold ==
  ASSUME ToldInv, NEW t \in Sessions, Stays(t)
  PROVE  (WireInv(t) /\ PathInv(t) /\ RowInv(t))'
<1>1. \A e : InLog(t, e)' <=> InLog(t, e)
  BY DEF Stays, InLog
<1>2. \A y : Received(t, y)' <=> Received(t, y)
  BY DEF Stays, Received
<1>3. Ordered(t)' <=> Ordered(t)
  BY DEF Stays, Ordered
<1>4. Where(t)' = Where(t)
  BY DEF Stays, Where
<1>5. WireInv(t) /\ PathInv(t) /\ RowInv(t)
  BY DEF ToldInv
<1>6. WireInv(t)'
  BY <1>1, <1>5 DEF Stays, WireInv
<1>7. PathInv(t)'
  BY <1>2, <1>4, <1>5 DEF Stays, PathInv
<1>8. RowInv(t)'
  BY <1>2, <1>3, <1>5 DEF Stays, RowInv
<1>. QED
  BY <1>6, <1>7, <1>8

LEMMA OthersStay ==
  ASSUME TypeOK, NEW s \in Sessions, NEW r \in Nat,
         Runner(s) \/ StoreFault(s) \/ ApplyReply(s, r),
         NEW t \in Sessions \ {s}
  PROVE  Stays(t)
<1>. USE DEF Stays, stored, Local, Goto, Emit, Finish, Raise, SetStatus
<1>1. CASE StartTask(s) \/ Boot(s) \/ Authenticate(s) \/ BeginStep(s) \/ RunStep(s)
  BY <1>1 DEF TypeOK, StartTask, Boot, Authenticate, BeginStep, RunStep
<1>2. CASE StepRaises(s) \/ AskUser(s) \/ Woken(s) \/ PopReply(s)
  BY <1>2, SMTT(60) DEF TypeOK, StepRaises, AskUser, Woken, PopReply
<1>3. CASE Dispatch(s)
  BY <1>3 DEF TypeOK, Dispatch
<1>4. CASE EmitVerdict(s) \/ Settle(s) \/ ScheduleAnalysis(s) \/ Unexpected(s) \/ RowGone(s)
           \/ DoneCallback(s)
  BY <1>4 DEF TypeOK, EmitVerdict, Settle, ScheduleAnalysis, Unexpected, RowGone, DoneCallback
<1>5. CASE EmitAppend(s) \/ EmitDuplicate(s) \/ Delivered(s) \/ AttemptFails(s)
  BY <1>5 DEF TypeOK, EmitAppend, EmitDuplicate, Delivered, AttemptFails, Receive
<1>6. CASE MarkDelivered(s) \/ MarkFailed(s) \/ DeliveryError(s) \/ Fallback(s)
  BY <1>6 DEF TypeOK, MarkDelivered, MarkFailed, DeliveryError, Fallback
<1>7. CASE StoreFault(s)
  BY <1>7 DEF TypeOK, StoreFault
<1>8. CASE ApplyReply(s, r)
  BY <1>8 DEF TypeOK, ApplyReply
<1>. QED
  BY <1>1, <1>2, <1>3, <1>4, <1>5, <1>6, <1>7, <1>8 DEF Runner, Emission

(* The steps that tell the receiver nothing and write no event.            *)
Quiet(s) ==
  /\ inbox'[s] = inbox[s] /\ log'[s] = log[s] /\ (s \in analysis' <=> s \in analysis)
  /\ pc[s] # "none"
  /\ \/ status'[s] = status[s]
     \/ status[s] # "gone" /\ status'[s] \in {"running", "waiting_user", "failed"}
  /\ pc'[s] \notin {"deliver", "mark_delivered", "settle", "schedule"}
  /\ Where(s)' \in Unsettled => Where(s) \in Unsettled
  /\ pc'[s] = "append" => Fits(frame'[s])
  /\ pc'[s] = "append" /\ frame'[s].then = "verdict" => Where(s) \in Unsettled
  /\ (pc'[s] = "verdict" \/ Where(s)' = "settle") /\ frame'[s].verdict # "failed" =>
       Received(s, PaymentOf(frame'[s].verdict))

LEMMA QuietTold ==
  ASSUME ToldInv, NEW s \in Sessions, Quiet(s)
  PROVE  (WireInv(s) /\ PathInv(s) /\ RowInv(s))'
<1>1. \A e : InLog(s, e)' <=> InLog(s, e)
  BY DEF Quiet, InLog
<1>2. \A y : Received(s, y)' <=> Received(s, y)
  BY DEF Quiet, Received
<1>3. Ordered(s)' <=> Ordered(s)
  BY DEF Quiet, Ordered
<1>4. WireInv(s) /\ PathInv(s) /\ RowInv(s)
  BY DEF ToldInv
<1>5. WireInv(s)'
  BY <1>1, <1>4 DEF Quiet, WireInv
<1>6. PathInv(s)'
  <2>1. status'[s] # "absent"
    BY <1>4 DEF Quiet, PathInv
  <2>2. \A t \in Payments : Where(s) \in Unsettled => ~Received(s, t)'
    BY <1>2, <1>4 DEF PathInv
  <2>3. Received(s, PaymentOf(frame[s].verdict))' <=> Received(s, PaymentOf(frame'[s].verdict))
    BY DEF Quiet, Received
  <2>4. /\ pc'[s] \in InEmission => pc'[s] = "append"
        /\ pc'[s] # "mark_delivered" /\ pc'[s] \notin {"settle", "schedule"}
    BY DEF Quiet, InEmission
  <2>5. \A t \in Payments : Received(s, t)' <=> Received(s, t)
    BY <1>2
  <2>6. Where(s) \in Unsettled => \A t \in Payments : ~Received(s, t)
    BY <1>4 DEF PathInv
  <2>. QED  BY <2>1, <2>2, <2>3, <2>4, <2>5, <2>6 DEF Quiet, PathInv
<1>7. RowInv(s)'
  BY <1>2, <1>3, <1>4 DEF Quiet, RowInv
<1>. QED
  BY <1>5, <1>6, <1>7

(* A coroutine that enters _emit_event before it has a verdict.            *)
LEMMA EmitQuiet ==
  ASSUME TypeOK, NEW s \in Sessions, NEW f \in Frames, NEW e \in Events, NEW l \in Labels,
         Emit(s, f, e, l)
  PROVE  /\ pc'[s] = "append" /\ Where(s)' = l
         /\ frame'[s].then = l /\ frame'[s].event = e /\ frame'[s].verdict = f.verdict
<1>1. frame' = [frame EXCEPT ![s] = Emitting(f, e, l)] /\ pc' = [pc EXCEPT ![s] = "append"]
  BY DEF Emit, Goto
<1>2. frame \in [Sessions -> Frames] /\ pc \in [Sessions -> Labels]
  BY DEF TypeOK
<1>3. frame'[s] = Emitting(f, e, l) /\ pc'[s] = "append"
  BY <1>1, <1>2
<1>4. /\ Emitting(f, e, l).then = l /\ Emitting(f, e, l).event = e
      /\ Emitting(f, e, l).verdict = f.verdict
  BY DEF Emitting, Frames
<1>. QED
  BY <1>3, <1>4 DEF Where, InEmission

(* An exception, and the end of a coroutine.                               *)
LEMMA RaiseQuiet ==
  ASSUME TypeOK, NEW s \in Sessions, Raise(s) \/ Finish(s)
  PROVE  /\ pc'[s] \in {"finished", "unexpected"}
         /\ Where(s)' \notin Unsettled /\ Where(s)' # "settle"
<1>1. pc \in [Sessions -> Labels]
  BY DEF TypeOK
<1>2. pc'[s] \in {"finished", "unexpected"}
  BY <1>1 DEF Raise, Finish, Goto
<1>. QED
  BY <1>2 DEF Where, InEmission, Unsettled

LEMMA BeforeVerdictTold ==
  ASSUME ToldInv, SlotInv, NEW s \in Sessions,
         \/ StartTask(s) \/ Boot(s) \/ Authenticate(s) \/ BeginStep(s) \/ RunStep(s)
         \/ Dispatch(s) \/ AskUser(s) \/ Woken(s) \/ PopReply(s)
  PROVE  Quiet(s)
<1>. USE DEF Local, stored, At, Goto
<1>0. /\ TypeOK /\ frame[s] \in Frames /\ 0 \in Nat
      /\ pc \in [Sessions -> Labels] /\ frame \in [Sessions -> Frames]
      /\ status \in [Sessions -> Status]
  BY DEF SlotInv, TypeOK
<1>1. /\ inbox'[s] = inbox[s] /\ log'[s] = log[s] /\ (s \in analysis' <=> s \in analysis)
      /\ pc[s] \in Unsettled
  BY DEF StartTask, Boot, Authenticate, BeginStep, RunStep, Dispatch, AskUser, Woken, PopReply,
     Unsettled
<1>2. pc[s] # "none" /\ Where(s) \in Unsettled
  BY <1>1 DEF Unsettled, InEmission, Where
<1>3. status[s] # "gone"
  BY <1>2 DEF SlotInv, ActiveStatus
<1>4. status'[s] = status[s] \/ status'[s] \in {"running", "waiting_user"}
  BY <1>0 DEF StartTask, Boot, Authenticate, BeginStep, RunStep, Dispatch, AskUser, Woken, PopReply
<1>5. \/ \E f \in Frames, e \in Events, l \in Labels :
           /\ Emit(s, f, e, l)
           /\ \/ l \in {"auth", "run", "result", "await"} /\ e.type \in Progress
              \/ l = "verdict" /\ f.verdict # "failed" /\ e.type = PaymentOf(f.verdict)
      \/ pc'[s] \in {"boot", "loop", "ask", "pop", "finished"}
      \/ pc'[s] = "verdict" /\ frame'[s].verdict = "failed"
  <2>1. CASE StartTask(s) \/ Authenticate(s) \/ Woken(s)
    BY <1>0, <2>1 DEF StartTask, Authenticate, Woken
  <2>2. CASE Boot(s)
    BY <1>0, <2>2, EventType DEF Boot, Terminal, Labels, Ev, Progress
  <2>3. CASE BeginStep(s)
    <3>. DEFINE n == frame[s].step + 1
                f == [frame[s] EXCEPT !.step = n]
    <3>1. n \in Nat /\ f \in Frames
      BY <1>0 DEF Frames
    <3>2. Ev("step-started", n) \in Events /\ Ev("step-started", n).type \in Progress
      BY <3>1 DEF Ev, Events, EventTypes, Progress
    <3>3. Emit(s, f, Ev("step-started", n), "run") /\ "run" \in Labels
      BY <2>3 DEF BeginStep, Labels
    <3>. HIDE DEF n, f
    <3>. QED  BY <3>1, <3>2, <3>3
  <2>4. CASE RunStep(s)
    <3>1. PICK r \in Results :
            Emit(s, [frame[s] EXCEPT !.result = r], Ev("step-finished", frame[s].step), "result")
      BY <2>4 DEF RunStep
    <3>2. [frame[s] EXCEPT !.result = r] \in Frames /\ frame[s].step \in Nat
      BY <1>0 DEF Frames
    <3>3. /\ Ev("step-finished", frame[s].step) \in Events
          /\ Ev("step-finished", frame[s].step).type \in Progress /\ "result" \in Labels
      BY <3>2 DEF Ev, Events, EventTypes, Progress, Labels
    <3>. QED  BY <3>1, <3>2, <3>3
  <2>5. CASE AskUser(s)
    <3>. DEFINE n == frame[s].asked + 1
                f == [frame[s] EXCEPT !.asked = n]
    <3>1. n \in Nat /\ f \in Frames
      BY <1>0 DEF Frames
    <3>2. Ev("ask-user", n) \in Events /\ Ev("ask-user", n).type \in Progress
      BY <3>1 DEF Ev, Events, EventTypes, Progress
    <3>3. Emit(s, f, Ev("ask-user", n), "await") /\ "await" \in Labels
      BY <2>5 DEF AskUser, Labels
    <3>. HIDE DEF n, f
    <3>. QED  BY <3>1, <3>2, <3>3
  <2>6. CASE PopReply(s)
    BY <1>0, <2>6 DEF PopReply, Finish
  <2>7. CASE Dispatch(s)
    <3>. DEFINE f == [frame[s] EXCEPT !.latest = 0, !.result = NoFrame.result]
                calm == [f EXCEPT !.recovering = FALSE]
                done == [calm EXCEPT !.verdict = "completed"]
                unsure == [calm EXCEPT !.verdict = "unverified"]
    <3>1. f \in Frames /\ calm \in Frames
      BY <1>0 DEF Frames, NoFrame, Results
    <3>2. /\ done \in Frames /\ done.verdict = "completed"
          /\ unsure \in Frames /\ unsure.verdict = "unverified"
          /\ [f EXCEPT !.verdict = "failed"].verdict = "failed"
      BY <3>1 DEF Frames, Terminal
    <3>3. /\ Ev("payment-ready", 0) \in Events /\ Ev("payment-ready", 0).type = "payment-ready"
          /\ Ev("payment-unverified", 0) \in Events
          /\ Ev("payment-unverified", 0).type = "payment-unverified" /\ "verdict" \in Labels
      BY DEF Ev, Events, EventTypes, Labels
    <3>4. \/ pc' = [pc EXCEPT ![s] = "ask"] \/ pc' = [pc EXCEPT ![s] = "loop"]
          \/ Emit(s, done, Ev("payment-ready", 0), "verdict")
          \/ Emit(s, unsure, Ev("payment-unverified", 0), "verdict")
          \/ /\ pc' = [pc EXCEPT ![s] = "verdict"]
             /\ frame' = [frame EXCEPT ![s] = [f EXCEPT !.verdict = "failed"]]
      BY <2>7 DEF Dispatch
    <3>. HIDE DEF done, unsure, calm, f
    <3>. QED  BY <1>0, <3>2, <3>3, <3>4 DEF PaymentOf
  <2>. QED  BY <2>1, <2>2, <2>3, <2>4, <2>5, <2>6, <2>7
<1>6. CASE pc'[s] \in {"boot", "loop", "ask", "pop", "finished"}
  BY <1>1, <1>2, <1>3, <1>4, <1>6 DEF Quiet, Where, InEmission, Unsettled
<1>7. CASE pc'[s] = "verdict" /\ frame'[s].verdict = "failed"
  BY <1>1, <1>2, <1>3, <1>4, <1>7 DEF Quiet, Where, InEmission, Unsettled
<1>8. ASSUME NEW f \in Frames, NEW e \in Events, NEW l \in Labels, Emit(s, f, e, l),
             \/ l \in {"auth", "run", "result", "await"} /\ e.type \in Progress
             \/ l = "verdict" /\ f.verdict # "failed" /\ e.type = PaymentOf(f.verdict)
      PROVE  Quiet(s)
  <2>1. /\ pc'[s] = "append" /\ Where(s)' = l
        /\ frame'[s].then = l /\ frame'[s].event = e /\ frame'[s].verdict = f.verdict
    BY <1>0, <1>8, EmitQuiet
  <2>2. Fits(frame'[s])
    BY <1>8, <2>1 DEF Fits
  <2>. QED  BY <1>1, <1>2, <1>3, <1>4, <1>8, <2>1, <2>2 DEF Quiet
<1>. QED
  BY <1>5, <1>6, <1>7, <1>8

LEMMA AfterVerdictTold ==
  ASSUME ToldInv, SlotInv, NEW s \in Sessions,
         \/ EmitVerdict(s) \/ Unexpected(s) \/ StepRaises(s) \/ RowGone(s) \/ DoneCallback(s)
         \/ EmitDuplicate(s) \/ MarkFailed(s) \/ DeliveryError(s) \/ StoreFault(s)
  PROVE  Quiet(s)
<1>. USE DEF Local, stored, Goto
<1>0. /\ TypeOK /\ frame[s] \in Frames /\ frame[s].verdict \in Terminal
      /\ pc \in [Sessions -> Labels] /\ frame \in [Sessions -> Frames]
      /\ status \in [Sessions -> Status]
  BY DEF SlotInv, TypeOK, Frames
<1>1. /\ inbox'[s] = inbox[s] /\ log'[s] = log[s] /\ (s \in analysis' <=> s \in analysis)
      /\ pc[s] # "none"
  BY DEF EmitVerdict, Unexpected, StepRaises, RowGone, DoneCallback, EmitDuplicate, MarkFailed,
     DeliveryError, StoreFault, StoreCalls, ReadsRow, At
<1>2. \/ status'[s] = status[s]
      \/ status[s] # "gone" /\ status'[s] = "failed"
  BY <1>0 DEF EmitVerdict, Unexpected, StepRaises, RowGone, DoneCallback, EmitDuplicate, MarkFailed,
     DeliveryError, StoreFault, At, ReadsRow, SetStatus
<1>3. CASE EmitVerdict(s)
  <2>1. Ev(VerdictType[frame[s].verdict], 0) \in Events /\ "settle" \in Labels
    BY <1>0, EventType DEF Labels
  <2>2. /\ pc'[s] = "append" /\ Where(s)' = "settle" /\ frame'[s].then = "settle"
        /\ frame'[s].event = Ev(VerdictType[frame[s].verdict], 0)
        /\ frame'[s].verdict = frame[s].verdict
    BY <1>0, <1>3, <2>1, EmitQuiet DEF EmitVerdict
  <2>3. Fits(frame'[s])
    BY <2>2 DEF Fits, Ev
  <2>4. frame[s].verdict # "failed" => Received(s, PaymentOf(frame[s].verdict))
    BY <1>3 DEF EmitVerdict, ToldInv, PathInv
  <2>. QED  BY <1>1, <1>2, <2>2, <2>3, <2>4 DEF Quiet, Unsettled
<1>4. CASE Unexpected(s)
  <2>1. pc'[s] = "verdict" /\ frame'[s].verdict = "failed"
    BY <1>0, <1>4 DEF Unexpected, Frames
  <2>. QED  BY <1>1, <1>2, <2>1 DEF Quiet, Where, InEmission, Unsettled
<1>5. CASE StepRaises(s) \/ RowGone(s) \/ EmitDuplicate(s) \/ (StoreFault(s) /\ pc[s] # "creating")
  <2>1. Raise(s) \/ Finish(s)
    BY <1>5 DEF StepRaises, RowGone, EmitDuplicate, StoreFault
  <2>2. /\ pc'[s] \in {"finished", "unexpected"}
        /\ Where(s)' \notin Unsettled /\ Where(s)' # "settle"
    BY <1>0, <2>1, RaiseQuiet
  <2>. QED  BY <1>1, <1>2, <2>2 DEF Quiet
<1>6. CASE DoneCallback(s) \/ MarkFailed(s) \/ DeliveryError(s) \/ (StoreFault(s) /\ pc[s] = "creating")
  <2>1. pc'[s] \in {"none", "delivery_error", "fallback"}
    BY <1>0, <1>6 DEF DoneCallback, MarkFailed, DeliveryError, StoreFault, StoreCalls, ReadsRow
  <2>. QED  BY <1>1, <1>2, <2>1 DEF Quiet, Where, InEmission, Unsettled
<1>. QED
  BY <1>3, <1>4, <1>5, <1>6

-----------------------------------------------------------------------------
(* The steps of _emit_event *)

LEMMA EmitAppendTold ==
  ASSUME ToldInv, TypeOK, NEW s \in Sessions, EmitAppend(s)
  PROVE  (WireInv(s) /\ PathInv(s) /\ RowInv(s))'
<1>1. /\ pc'[s] = "deliver" /\ pc[s] = "append" /\ log'[s] = Append(log[s], frame[s].event)
      /\ UNCHANGED <<status, frame, inbox, analysis>>
  BY DEF EmitAppend, At, Goto, TypeOK
<1>2. log[s] \in Seq(Events) /\ frame[s].event \in Events
  BY DEF TypeOK, Frames
<1>3. /\ \A e : InLog(s, e) => InLog(s, e)'
      /\ InLog(s, frame[s].event)'
  BY <1>1, <1>2 DEF InLog
<1>4. WireInv(s) /\ PathInv(s) /\ RowInv(s)
  BY DEF ToldInv
<1>5. WireInv(s)'
  BY <1>1, <1>3, <1>4 DEF WireInv
<1>6. PathInv(s)'
  BY <1>1, <1>4 DEF PathInv, Where, InEmission, Received
<1>7. RowInv(s)'
  BY <1>1, <1>4 DEF RowInv, Received, Ordered
<1>. QED
  BY <1>5, <1>6, <1>7

(* The receiver takes the event that is on the wire.                       *)
LEMMA ReceiveTold ==
  ASSUME ToldInv, TypeOK, NEW s \in Sessions, pc[s] = "deliver", Receive(s) \/ UNCHANGED inbox
  PROVE  /\ \A y : Received(s, y) => Received(s, y)'
         /\ \A y : Received(s, y)' => Received(s, y) \/ y = frame[s].event.type
         /\ Receive(s) => \A y : y = frame[s].event.type => Received(s, y)'
         /\ \A i \in DOMAIN inbox'[s] :
              (\E j \in DOMAIN inbox[s] : inbox[s][j] = inbox'[s][i]) \/ inbox'[s][i] = frame[s].event
         /\ Ordered(s)'
<1>0. /\ inbox[s] \in Seq(Events) /\ frame[s].event \in Events /\ frame[s] \in Frames
      /\ inbox \in [Sessions -> Seq(Events)]
  BY DEF TypeOK, Frames
<1>1. PathInv(s) /\ RowInv(s)
  BY DEF ToldInv
<1>2. CASE inbox'[s] = inbox[s]
  <2>1. Receive(s) => \E i \in DOMAIN inbox[s] : inbox[s][i] = frame[s].event
    BY <1>0, <1>2 DEF Receive
  <2>2. (\A y : Received(s, y)' <=> Received(s, y)) /\ (Ordered(s)' <=> Ordered(s))
    BY <1>2 DEF Ordered, Received
  <2>3. Receive(s) => \A y : y = frame[s].event.type => Received(s, y)'
    BY <2>1, <2>2 DEF Received
  <2>4. \A i \in DOMAIN inbox'[s] : \E j \in DOMAIN inbox[s] : inbox[s][j] = inbox'[s][i]
    BY <1>2
  <2>. QED  BY <1>1, <2>2, <2>3, <2>4 DEF RowInv
<1>3. CASE inbox'[s] = Append(inbox[s], frame[s].event)
  <2>1. /\ Len(inbox'[s]) = Len(inbox[s]) + 1 /\ DOMAIN inbox'[s] = 1..(Len(inbox[s]) + 1)
        /\ \A i \in 1..Len(inbox[s]) : inbox'[s][i] = inbox[s][i]
        /\ inbox'[s][Len(inbox[s]) + 1] = frame[s].event
        /\ DOMAIN inbox[s] = 1..Len(inbox[s]) /\ Len(inbox[s]) \in Nat
    BY <1>0, <1>3
  <2>2. frame[s].event.type = "scenario-finished" => Received(s, "payment-ready")
    <3>1. pc[s] \in InEmission /\ Where(s) = frame[s].then
      BY DEF InEmission, Where
    <3>2. frame[s].event.type = "scenario-finished" =>
            frame[s].then = "settle" /\ frame[s].verdict = "completed"
      BY <1>0, <1>1, <3>1 DEF PathInv, Fits, PaymentOf, Progress, VerdictType, Frames, Terminal
    <3>. QED  BY <1>1, <3>1, <3>2 DEF PathInv, PaymentOf
  <2>3. Ordered(s)'
    <3>. SUFFICES ASSUME NEW j \in 1..(Len(inbox[s]) + 1),
                         inbox'[s][j].type = "scenario-finished"
         PROVE  \E i \in 1..(j - 1) : inbox'[s][i].type = "payment-ready"
      BY <2>1 DEF Ordered
    <3>1. CASE j = Len(inbox[s]) + 1
      <4>1. PICK i \in 1..Len(inbox[s]) : inbox[s][i].type = "payment-ready"
        BY <2>1, <2>2, <3>1 DEF Received
      <4>. QED  BY <2>1, <3>1, <4>1
    <3>2. CASE j # Len(inbox[s]) + 1
      <4>1. j \in 1..Len(inbox[s])
        BY <2>1, <3>2
      <4>2. PICK i \in 1..(j - 1) : inbox[s][i].type = "payment-ready"
        BY <1>1, <2>1, <4>1 DEF RowInv, Ordered
      <4>. QED  BY <2>1, <4>1, <4>2
    <3>. QED  BY <3>1, <3>2
  <2>4. \A y : Received(s, y) => Received(s, y)'
    BY <2>1 DEF Received
  <2>5. \A y : Received(s, y)' => Received(s, y) \/ y = frame[s].event.type
    BY <2>1 DEF Received
  <2>6. \A y : y = frame[s].event.type => Received(s, y)'
    BY <2>1 DEF Received
  <2>7. \A i \in DOMAIN inbox'[s] :
          (\E j \in DOMAIN inbox[s] : inbox[s][j] = inbox'[s][i]) \/ inbox'[s][i] = frame[s].event
    BY <2>1
  <2>. QED  BY <2>3, <2>4, <2>5, <2>6, <2>7
<1>4. inbox'[s] = inbox[s] \/ inbox'[s] = Append(inbox[s], frame[s].event)
  BY <1>0 DEF Receive
<1>. QED
  BY <1>2, <1>3, <1>4

LEMMA DeliverTold ==
  ASSUME ToldInv, TypeOK, NEW s \in Sessions, Delivered(s) \/ AttemptFails(s)
  PROVE  (WireInv(s) /\ PathInv(s) /\ RowInv(s))'
<1>. DEFINE e == frame[s].event
            then == frame[s].then
            verdict == frame[s].verdict
<1>0. /\ frame[s] \in Frames /\ frame \in [Sessions -> Frames] /\ pc \in [Sessions -> Labels]
      /\ WireInv(s) /\ PathInv(s) /\ RowInv(s)
  BY DEF TypeOK, ToldInv
<1>1. /\ pc[s] = "deliver" /\ (Receive(s) \/ UNCHANGED inbox)
      /\ Delivered(s) => Receive(s)
      /\ UNCHANGED <<status, log, analysis>>
  BY DEF Delivered, AttemptFails, stored
<1>2. /\ pc'[s] \in {"deliver", "mark_delivered", "mark_failed"}
      /\ pc'[s] = "mark_delivered" => Delivered(s)
  BY <1>0, <1>1 DEF Delivered, AttemptFails, Goto
<1>3. frame'[s].event = e /\ frame'[s].then = then /\ frame'[s].verdict = verdict
  <2>1. \/ frame' = [frame EXCEPT ![s] = [frame[s] EXCEPT !.tries = 0]]
        \/ frame' = [frame EXCEPT ![s] = [frame[s] EXCEPT !.tries = frame[s].tries + 1]]
        \/ frame' = frame
    BY <1>0 DEF Delivered, AttemptFails
  <2>. QED  BY <1>0, <2>1 DEF Frames
<1>4. /\ \A y : Received(s, y) => Received(s, y)'
      /\ \A y : Received(s, y)' => Received(s, y) \/ y = e.type
      /\ Receive(s) => \A y : y = e.type => Received(s, y)'
      /\ \A i \in DOMAIN inbox'[s] :
           (\E j \in DOMAIN inbox[s] : inbox[s][j] = inbox'[s][i]) \/ inbox'[s][i] = e
      /\ Ordered(s)'
  BY <1>1, ReceiveTold
<1>5. Fits(frame[s]) /\ Fits(frame'[s]) /\ Where(s) = then
  BY <1>0, <1>1, <1>3 DEF PathInv, Fits, InEmission, Where
<1>6. WireInv(s)'
  <2>1. \A x : InLog(s, x)' <=> InLog(s, x)
    BY <1>1 DEF InLog
  <2>2. status[s] # "gone" => InLog(s, e) /\ \A i \in DOMAIN inbox[s] : InLog(s, inbox[s][i])
    BY <1>0, <1>1 DEF WireInv
  <2>3. status[s] # "gone" => \A i \in DOMAIN inbox'[s] : InLog(s, inbox'[s][i])
    BY <1>4, <2>2
  <2>4. status[s] # "gone" => (\A i \in DOMAIN inbox[s] : InLog(s, inbox[s][i]))'
    BY <1>1, <2>3 DEF InLog
  <2>5. status[s] # "gone" => InLog(s, frame[s].event)'
    BY <1>1, <1>3, <2>2 DEF InLog
  <2>. QED  BY <1>1, <2>4, <2>5 DEF WireInv
<1>7. /\ then \in {"auth", "run", "result", "await"} => \A t \in Payments : ~Received(s, t)'
      /\ then = "verdict" => \A t \in Payments : Received(s, t)' => t = e.type
      /\ then = "settle" => /\ verdict # "failed" => Received(s, PaymentOf(verdict))
                            /\ e.type \notin Payments
  <2>1. CASE then \in {"auth", "run", "result", "await"}
    <3>1. e.type \notin Payments /\ Where(s) \in Unsettled
      BY <1>5, <2>1 DEF Fits, Payments, Progress, Unsettled
    <3>2. \A t \in Payments : ~Received(s, t)
      BY <1>0, <3>1 DEF PathInv
    <3>. QED  BY <1>4, <2>1, <3>1, <3>2
  <2>2. CASE then = "verdict"
    <3>1. \A t \in Payments : Received(s, t) => t = e.type
      BY <1>0, <1>1, <2>2 DEF PathInv, InEmission
    <3>. QED  BY <1>4, <2>2, <3>1
  <2>3. CASE then = "settle"
    <3>1. verdict # "failed" => Received(s, PaymentOf(verdict))
      BY <1>0, <1>5, <2>3 DEF PathInv
    <3>2. e.type \notin Payments
      BY <1>0, <1>5, <2>3 DEF Fits, VerdictType, Payments, Frames, Terminal
    <3>. QED  BY <2>3, <3>1, <3>2
  <2>. QED  BY <1>5, <2>1, <2>2, <2>3 DEF Fits
<1>8. PathInv(s)'
  <2>1. status'[s] # "absent"
    BY <1>0, <1>1 DEF PathInv
  <2>2. pc'[s] = "mark_delivered" => Received(s, frame[s].event.type)'
    BY <1>1, <1>2, <1>3, <1>4 DEF Received
  <2>3. /\ Where(s)' \in Unsettled => then \in {"auth", "run", "result", "await"}
        /\ Where(s)' = "settle" => then = "settle"
        /\ pc'[s] \notin {"verdict", "settle", "schedule"}
    BY <1>2, <1>3, <1>5 DEF Where, InEmission, Unsettled, Fits
  <2>4. then = "settle" /\ verdict # "failed" => Received(s, PaymentOf(frame[s].verdict))'
    <3>1. \A y : y = PaymentOf(verdict) /\ Received(s, y) => Received(s, y)'
      BY <1>4
    <3>. QED  BY <1>3, <1>7, <3>1 DEF Received
  <2>5. then = "verdict" => (\A t \in Payments : Received(s, t) => t = frame[s].event.type)'
    BY <1>3, <1>7
  <2>6. Fits(frame[s])'
    BY <1>5
  <2>7. then \in {"auth", "run", "result", "await"} => (\A t \in Payments : ~Received(s, t))'
    BY <1>7
  <2>. QED  BY <1>3, <2>1, <2>2, <2>3, <2>4, <2>5, <2>6, <2>7 DEF PathInv
<1>9. RowInv(s)'
  <2>1. ~(Received(s, "payment-ready")' /\ Received(s, "payment-unverified")')
    <3>1. CASE then = "settle"
      BY <1>0, <1>4, <1>7, <3>1 DEF RowInv, Payments
    <3>2. CASE then # "settle"
      BY <1>5, <1>7, <3>2 DEF Fits, Payments
    <3>. QED  BY <3>1, <3>2
  <2>2. \A y : y = PaymentOf(status[s]) \/ y = VerdictType[status[s]] =>
          (Received(s, y) => Received(s, y)')
    BY <1>4
  <2>3. status[s] \in {"completed", "unverified"} =>
          Received(s, PaymentOf(status[s]))' /\ Received(s, VerdictType[status[s]])'
    BY <1>0, <1>1, <2>2 DEF RowInv, Received
  <2>. QED  BY <1>0, <1>1, <1>4, <2>1, <2>3 DEF RowInv
<1>. QED
  BY <1>6, <1>8, <1>9

(* The receiver has the event: the coroutine goes on where it wanted to.   *)
LEMMA MarkDeliveredTold ==
  ASSUME ToldInv, TypeOK, NEW s \in Sessions, MarkDelivered(s)
  PROVE  (WireInv(s) /\ PathInv(s) /\ RowInv(s))'
<1>0. /\ frame[s] \in Frames /\ pc \in [Sessions -> Labels]
      /\ WireInv(s) /\ PathInv(s) /\ RowInv(s)
  BY DEF TypeOK, ToldInv
<1>1. /\ pc[s] = "mark_delivered" /\ pc'[s] = frame[s].then
      /\ UNCHANGED <<status, log, frame, inbox, analysis>>
  BY <1>0 DEF MarkDelivered, Goto, Local, stored
<1>2. Fits(frame[s]) /\ Received(s, frame[s].event.type) /\ Where(s) = frame[s].then
  BY <1>0, <1>1 DEF PathInv, InEmission, Where
<1>3. pc'[s] \in {"auth", "run", "result", "await", "verdict", "settle"} /\ Where(s)' = pc'[s]
  BY <1>1, <1>2 DEF Fits, Where, InEmission
<1>4. WireInv(s)' /\ RowInv(s)'
  BY <1>0, <1>1, <1>3 DEF WireInv, InLog, RowInv, Received, Ordered
<1>5. PathInv(s)'
  <2>1. \A y : Received(s, y)' <=> Received(s, y)
    BY <1>1 DEF Received
  <2>2. status'[s] # "absent"
    BY <1>0, <1>1 DEF PathInv
  <2>3. CASE frame[s].then = "verdict"
    BY <1>1, <1>2, <1>3, <2>1, <2>2, <2>3 DEF PathInv, InEmission, Fits, Unsettled
  <2>4. CASE frame[s].then = "settle"
    <3>1. frame[s].event.type = VerdictType[frame[s].verdict]
      BY <1>2, <2>4 DEF Fits
    <3>2. frame[s].verdict # "failed" => Received(s, PaymentOf(frame[s].verdict))
      BY <1>0, <1>2, <2>4 DEF PathInv
    <3>3. /\ Received(s, VerdictType[frame[s].verdict])'
          /\ frame[s].verdict # "failed" => Received(s, PaymentOf(frame[s].verdict))'
      BY <1>1, <1>2, <3>1, <3>2 DEF Received
    <3>. QED  BY <1>1, <1>3, <2>2, <2>4, <3>3 DEF PathInv, InEmission, Unsettled
  <2>5. CASE frame[s].then \in {"auth", "run", "result", "await"}
    <3>1. \A y \in Payments : ~Received(s, y)'
      BY <1>0, <1>2, <2>1, <2>5 DEF PathInv, Unsettled
    <3>. QED  BY <1>1, <1>3, <2>2, <2>5, <3>1 DEF PathInv, InEmission
  <2>. QED  BY <1>2, <2>3, <2>4, <2>5 DEF Fits
<1>. QED
  BY <1>4, <1>5

-----------------------------------------------------------------------------
(* The end of a session *)

LEMMA SettleTold ==
  ASSUME ToldInv, TypeOK, NEW s \in Sessions, Settle(s) \/ ScheduleAnalysis(s)
  PROVE  (WireInv(s) /\ PathInv(s) /\ RowInv(s))'
<1>. DEFINE v == frame[s].verdict
<1>0. /\ pc \in [Sessions -> Labels] /\ status \in [Sessions -> Status] /\ v \in Terminal
      /\ WireInv(s) /\ PathInv(s) /\ RowInv(s)
  BY DEF TypeOK, ToldInv, Frames
<1>1. /\ pc[s] \in {"settle", "schedule"} /\ status[s] # "gone"
      /\ log' = log /\ inbox' = inbox
  BY DEF Settle, ScheduleAnalysis, At, ReadsRow, stored
<1>2. /\ Received(s, VerdictType[v])
      /\ pc[s] = "settle" /\ v # "failed" => Received(s, PaymentOf(v))
      /\ pc[s] = "schedule" => v # "unverified"
  BY <1>0, <1>1 DEF PathInv, Where, InEmission
<1>3. \A y : Received(s, y)' <=> Received(s, y)
  BY <1>1 DEF Received
<1>4. CASE Settle(s)
  <2>1. status'[s] = v /\ analysis' = analysis /\ pc[s] = "settle"
    BY <1>0, <1>4 DEF Settle, SetStatus, At
  <2>2. \/ pc'[s] = "finished"
        \/ pc'[s] = "schedule" /\ frame' = frame /\ v # "unverified"
    BY <1>0, <1>4 DEF Settle, Finish, Goto
  <2>3. WireInv(s)'
    BY <1>0, <1>1, <2>2 DEF WireInv, InLog
  <2>4. PathInv(s)'
    <3>1. status'[s] # "absent"
      BY <1>0, <2>1 DEF Terminal
    <3>2. pc'[s] = "schedule" => Received(s, VerdictType[frame[s].verdict])'
      BY <1>1, <1>2, <2>2 DEF Received
    <3>. QED  BY <2>2, <3>1, <3>2 DEF PathInv, Where, InEmission, Unsettled
  <2>5. RowInv(s)'
    <3>1. v \in {"completed", "unverified"} =>
            Received(s, PaymentOf(status[s]))' /\ Received(s, VerdictType[status[s]])'
      BY <1>1, <1>2, <2>1 DEF Received
    <3>. QED  BY <1>0, <1>1, <1>3, <2>1, <3>1 DEF RowInv, Ordered
  <2>. QED  BY <2>3, <2>4, <2>5
<1>5. CASE ScheduleAnalysis(s)
  <2>1. /\ pc'[s] = "finished" /\ status' = status /\ pc[s] = "schedule"
        /\ analysis' = analysis \cup {s}
    BY <1>0, <1>5 DEF ScheduleAnalysis, Finish, Goto, At, stored
  <2>2. Received(s, "scenario-finished") \/ Received(s, "scenario-failed")
    BY <1>0, <1>2, <2>1 DEF VerdictType, Terminal
  <2>3. WireInv(s)'
    BY <1>0, <1>1, <2>1 DEF WireInv, InLog
  <2>4. PathInv(s)'
    BY <1>0, <2>1 DEF PathInv, Where, InEmission, Unsettled
  <2>5. RowInv(s)'
    BY <1>0, <1>1, <1>3, <2>1, <2>2 DEF RowInv, Ordered, Received
  <2>. QED  BY <2>3, <2>4, <2>5
<1>. QED
  BY <1>4, <1>5

(* An event that is only written, not sent.                                *)
LEMMA FallbackTold ==
  ASSUME ToldInv, TypeOK, NEW s \in Sessions, Fallback(s)
  PROVE  (WireInv(s) /\ PathInv(s) /\ RowInv(s))'
<1>0. WireInv(s) /\ PathInv(s) /\ RowInv(s) /\ log[s] \in Seq(Events) /\ 0 \in Nat
  BY DEF TypeOK, ToldInv
<1>1. /\ pc'[s] = "finished" /\ pc[s] = "fallback"
      /\ UNCHANGED <<status, inbox, analysis>>
      /\ \E e \in Events : log'[s] = Append(log[s], e)
  BY <1>0, EventType DEF Fallback, Finish, Goto, At, TypeOK, Terminal
<1>2. \A e : InLog(s, e) => InLog(s, e)'
  BY <1>0, <1>1 DEF InLog
<1>3. WireInv(s)'
  BY <1>0, <1>1, <1>2 DEF WireInv
<1>4. PathInv(s)'
  BY <1>0, <1>1 DEF PathInv, Where, InEmission, Unsettled
<1>5. RowInv(s)'
  BY <1>0, <1>1 DEF RowInv, Ordered, Received
<1>. QED
  BY <1>3, <1>4, <1>5

-----------------------------------------------------------------------------
(* The rows and the process *)

(* A row is answered or expires, or its coroutine is lost with the process.*)
RowMoves(t) ==
  /\ inbox'[t] = inbox[t] /\ (t \in analysis' <=> t \in analysis)
  /\ (pc'[t] = pc[t] /\ frame'[t] = frame[t]) \/ pc'[t] = "none"
  /\ \/ log'[t] = log[t] /\ status'[t] = status[t]
     \/ log'[t] = log[t] /\ status[t] = "waiting_user" /\ status'[t] = "running"
     \/ status[t] \in Terminal /\ status'[t] = "gone"

LEMMA RowMovesTold ==
  ASSUME ToldInv, NEW t \in Sessions, RowMoves(t)
  PROVE  (WireInv(t) /\ PathInv(t) /\ RowInv(t))'
<1>0. WireInv(t) /\ PathInv(t) /\ RowInv(t)
  BY DEF ToldInv
<1>1. \A y : Received(t, y)' <=> Received(t, y)
  BY DEF RowMoves, Received
<1>2. Ordered(t)' <=> Ordered(t)
  BY DEF RowMoves, Ordered
<1>3. WireInv(t)'
  BY <1>0 DEF RowMoves, WireInv, InLog
<1>4. PathInv(t)'
  <2>1. status'[t] = "absent" => status[t] = "absent"
    BY DEF RowMoves
  <2>2. CASE pc'[t] = "none"
    BY <1>0, <2>1, <2>2 DEF RowMoves, PathInv, Where, InEmission, Unsettled
  <2>3. CASE pc'[t] = pc[t] /\ frame'[t] = frame[t]
    <3>1. Where(t)' = Where(t)
      BY <2>3 DEF Where
    <3>. QED  BY <1>0, <1>1, <2>1, <2>3, <3>1 DEF RowMoves, PathInv
  <2>. QED  BY <2>2, <2>3 DEF RowMoves
<1>5. RowInv(t)'
  BY <1>0, <1>1, <1>2 DEF RowMoves, RowInv
<1>. QED
  BY <1>3, <1>4, <1>5

LEMMA ClientTold ==
  ASSUME ToldInv, TypeOK, NEW s \in Sessions, Client(s)
  PROVE  ToldInv'
<1>1. ASSUME NEW r \in 1..MaxSteps, ApplyReply(s, r) PROVE ToldInv'
  <2>1. RowMoves(s)
    BY <1>1 DEF ApplyReply, MayReply, RowMoves, TypeOK
  <2>2. r \in Nat
    OBVIOUS
  <2>3. \A t \in Sessions \ {s} : Stays(t)
    BY <1>1, <2>2, OthersStay
  <2>. QED  BY <2>1, <2>3, RowMovesTold, StaysTold DEF ToldInv
<1>2. ASSUME NEW E \in SUBSET Expirable, CreateSession(s, E) PROVE ToldInv'
  <2>1. /\ status[s] = "absent" /\ status'[s] = "created" /\ pc'[s] = "creating"
        /\ UNCHANGED <<inbox, analysis, frame>>
    BY <1>2 DEF CreateSession, TypeOK
  <2>2. inbox[s] = <<>> /\ \A y : ~Received(s, y)
    BY <2>1 DEF ToldInv, PathInv, Received
  <2>3. s \notin analysis
    BY <2>2 DEF ToldInv, RowInv
  <2>4. (WireInv(s) /\ PathInv(s) /\ RowInv(s))'
    BY <2>1, <2>2, <2>3 DEF WireInv, PathInv, RowInv, Received, Ordered, InEmission, Where
  <2>5. \A t \in Sessions \ {s} : RowMoves(t)
    BY <1>2 DEF CreateSession, Forget, RowMoves, Expirable, TypeOK
  <2>. QED  BY <2>4, <2>5, RowMovesTold DEF ToldInv
<1>. QED
  BY <1>1, <1>2 DEF Client

LEMMA ToldInvStep == ToldInv /\ SlotInv /\ [Next]_vars => ToldInv'
<1>. SUFFICES ASSUME ToldInv, SlotInv, [Next]_vars PROVE ToldInv'
  OBVIOUS
<1>0. TypeOK /\ 0 \in Nat
  BY DEF SlotInv
<1>1. ASSUME NEW s \in Sessions, Runner(s) \/ StoreFault(s) PROVE ToldInv'
  <2>1. \A t \in Sessions \ {s} : (WireInv(t) /\ PathInv(t) /\ RowInv(t))'
    BY <1>0, <1>1, OthersStay, StaysTold
  <2>2. (WireInv(s) /\ PathInv(s) /\ RowInv(s))'
    BY <1>0, <1>1, BeforeVerdictTold, AfterVerdictTold, QuietTold, EmitAppendTold, DeliverTold,
       MarkDeliveredTold, SettleTold, FallbackTold DEF Runner, Emission
  <2>. QED  BY <2>1, <2>2 DEF ToldInv
<1>2. ASSUME NEW E \in SUBSET Expirable, ListSessions(E) PROVE ToldInv'
  <2>1. \A t \in Sessions : RowMoves(t)
    BY <1>0, <1>2 DEF ListSessions, Forget, RowMoves, Expirable, TypeOK
  <2>. QED  BY <2>1, RowMovesTold DEF ToldInv
<1>3. CASE Restart \/ UNCHANGED vars
  <2>1. \A t \in Sessions : RowMoves(t)
    BY <1>3 DEF Restart, vars, stored, RowMoves
  <2>. QED  BY <2>1, RowMovesTold DEF ToldInv
<1>. QED
  BY <1>0, <1>1, <1>2, <1>3, ClientTold DEF Next

LEMMA SpecToldInv == Spec => []ToldInv
  BY ToldInvInit, ToldInvStep, SpecSlotInv, PTL DEF Spec

(* Nothing reaches the receiver that is not in the outbox of the session:  *)
(* _emit_event appends before it delivers, whatever raises or restarts.    *)
THEOREM OutboxIsBeforeWire == Spec => []OutboxBeforeWire
  BY SpecToldInv, SpecTypeOK, ToldInvImplies, PTL

(* A stored verdict is one that the receiver holds, with its payment.      *)
THEOREM StoredVerdictWasTold == Spec => []StoredVerdictIsTold
  BY SpecToldInv, SpecTypeOK, ToldInvImplies, PTL

(* Never both kinds of payment, and no completed scenario before its       *)
(* payment.                                                                *)
THEOREM PaymentIsToldOnce == Spec => []PaymentToldOnce
  BY SpecToldInv, SpecTypeOK, ToldInvImplies, PTL

(* No analysis of a session whose verdict the receiver does not hold.      *)
THEOREM AnalysisIsAfterVerdict == Spec => []AnalysisAfterVerdict
  BY SpecToldInv, SpecTypeOK, ToldInvImplies, PTL

-----------------------------------------------------------------------------
(* ShownStatus.  The page is a fold over the events: first what the fold   *)
(* says of any sequence of events, by induction over its length, then what *)
(* the coroutine has told the page when it is at its place.                *)

(* Induction over the natural numbers, in the form of a set that holds 0   *)
(* and with every number the next: were one missing, the sets of missing   *)
(* numbers up to a missing one would have a least by inclusion.            *)
LEMMA NatSet ==
  ASSUME NEW S, 0 \in S, \A n \in Nat : n \in S => n + 1 \in S
  PROVE  Nat \subseteq S
<1>. SUFFICES ASSUME NEW n \in Nat, n \notin S PROVE FALSE
  OBVIOUS
<1>. DEFINE Missing(k) == {x \in 0..k : x \notin S}
            T == {Missing(k) : k \in Missing(n)}
<1>1. IsWellFoundedOn(StrictSubsetOrdering(0..n), SUBSET (0..n))
  <2>1. IsFiniteSet(0..n)
    BY FS_Interval
  <2>2. FiniteSubsetsOf(0..n) = SUBSET (0..n)
    BY <2>1, FS_FiniteSubsetsOfFinite
  <2>. QED  BY <2>1, <2>2, FS_StrictSubsetOrderingWellFounded
<1>2. T \subseteq SUBSET (0..n) /\ T # {}
  <2>1. n \in Missing(n) /\ Missing(n) \in T
    OBVIOUS
  <2>2. \A k \in Missing(n) : Missing(k) \in SUBSET (0..n)
    OBVIOUS
  <2>. QED  BY <2>1, <2>2
<1>3. PICK U \in T : \A V \in T : <<V, U>> \notin StrictSubsetOrdering(0..n)
  <2>. HIDE DEF T
  <2>. QED  BY <1>1, <1>2, WFMin
<1>4. PICK m \in Missing(n) : U = Missing(m)
  OBVIOUS
<1>5. m \in Nat /\ m # 0 /\ m <= n /\ m \notin S
  OBVIOUS
<1>6. m - 1 \in Nat /\ m - 1 \notin S /\ m - 1 \in Missing(n)
  BY <1>5
<1>7. Missing(m - 1) \in T
  BY <1>6
<1>8. Missing(m - 1) \subseteq U /\ m \in U /\ m \notin Missing(m - 1)
  BY <1>4, <1>5, <1>6
<1>9. <<Missing(m - 1), U>> \in StrictSubsetOrdering(0..n)
  <2>1. Missing(m - 1) \in SUBSET (0..n) /\ U \in SUBSET (0..n)
    BY <1>2, <1>7
  <2>. HIDE DEF Missing
  <2>. QED  BY <1>8, <2>1 DEF StrictSubsetOrdering
<1>. QED
  BY <1>3, <1>7, <1>9

(* Shows, applied to the first n elements of q one after the other.        *)
Nothing == [status |-> "none", question |-> 0]
IsFold(f, q, n) ==
  f = [i \in 0..n |-> IF i = 0 THEN Nothing ELSE Page!Shows(f[i - 1], q[i])]

LEMMA FoldExists ==
  ASSUME NEW q, NEW n \in Nat
  PROVE  \E f : IsFold(f, q, n)
<1>. DEFINE S == {k \in Nat : \E f : IsFold(f, q, k)}
<1>1. 0 \in S
  <2>. DEFINE f == [i \in 0..0 |-> Nothing]
  <2>1. IsFold(f, q, 0)
    BY DEF IsFold
  <2>. QED  BY <2>1
<1>2. ASSUME NEW k \in Nat, k \in S PROVE k + 1 \in S
  <2>1. PICK f : IsFold(f, q, k)
    BY <1>2
  <2>. DEFINE g == [i \in 0..(k + 1) |-> IF i = k + 1 THEN Page!Shows(f[k], q[k + 1]) ELSE f[i]]
  <2>2. \A i \in 0..k : f[i] = IF i = 0 THEN Nothing ELSE Page!Shows(f[i - 1], q[i])
    BY <2>1 DEF IsFold
  <2>3. ASSUME NEW i \in 0..(k + 1)
        PROVE  g[i] = IF i = 0 THEN Nothing ELSE Page!Shows(g[i - 1], q[i])
    <3>1. CASE i = k + 1
      BY <3>1
    <3>2. CASE i # k + 1
      BY <2>2, <3>2
    <3>. QED  BY <3>1, <3>2
  <2>4. IsFold(g, q, k + 1)
    BY <2>3 DEF IsFold
  <2>. QED  BY <2>4
<1>. HIDE DEF S
<1>3. Nat \subseteq S
  BY <1>1, <1>2, NatSet
<1>. QED
  BY <1>3 DEF S

LEMMA FoldUnique ==
  ASSUME NEW f, NEW q, NEW n \in Nat, IsFold(f, q, n),
         NEW g, NEW r, NEW m \in Nat, IsFold(g, r, m),
         n <= m, \A i \in 1..n : q[i] = r[i]
  PROVE  f[n] = g[n]
<1>. DEFINE S == {k \in Nat : k <= n => f[k] = g[k]}
<1>1. /\ \A i \in 0..n : f[i] = IF i = 0 THEN Nothing ELSE Page!Shows(f[i - 1], q[i])
      /\ \A i \in 0..m : g[i] = IF i = 0 THEN Nothing ELSE Page!Shows(g[i - 1], r[i])
  BY DEF IsFold
<1>2. 0 \in S
  BY <1>1
<1>3. ASSUME NEW k \in Nat, k \in S PROVE k + 1 \in S
  BY <1>1, <1>3
<1>4. Nat \subseteq S
  <2>. HIDE DEF S
  <2>. QED  BY <1>2, <1>3, NatSet
<1>. QED
  BY <1>4

LEMMA ShownFolds ==
  ASSUME NEW q, Len(q) \in Nat
  PROVE  IsFold(Page!ShownAfter(q), q, Len(q))
<1>1. PICK f : IsFold(f, q, Len(q))
  BY FoldExists
<1>. QED
  BY <1>1 DEF IsFold, Page!ShownAfter, Nothing

(* What the fold has of a session whose events are q.                      *)
PageOf(q) == Page!ShownAfter(q)[Len(q)]

LEMMA PageFolds ==
  ASSUME NEW q \in Seq(Events)
  PROVE  \E f : IsFold(f, q, Len(q)) /\ PageOf(q) = f[Len(q)]
  BY ShownFolds DEF PageOf

LEMMA PageAppend ==
  ASSUME NEW q \in Seq(Events), NEW e \in Events
  PROVE  PageOf(Append(q, e)) = Page!Shows(PageOf(q), e)
<1>. DEFINE r == Append(q, e)
            n == Len(q)
<1>1. r \in Seq(Events) /\ Len(r) = n + 1 /\ n \in Nat
  OBVIOUS
<1>2. (\A i \in 1..n : q[i] = r[i]) /\ r[n + 1] = e
  BY <1>1
<1>3. PICK f : IsFold(f, q, n) /\ PageOf(q) = f[n]
  BY PageFolds
<1>4. PICK g : IsFold(g, r, n + 1) /\ PageOf(r) = g[n + 1]
  <2>1. \E g : IsFold(g, r, Len(r)) /\ PageOf(r) = g[Len(r)]
    BY <1>1, PageFolds
  <2>. HIDE DEF r, n
  <2>. QED  BY <1>1, <2>1
<1>5. f[n] = g[n]
  <2>1. PICK m \in Nat : m = n + 1
    BY <1>1
  <2>2. n \in Nat /\ n <= m /\ IsFold(f, q, n) /\ IsFold(g, r, m) /\ \A i \in 1..n : q[i] = r[i]
    BY <1>1, <1>2, <1>3, <1>4, <2>1
  <2>. HIDE DEF r, n
  <2>. QED  BY <2>2, FoldUnique
<1>6. g[n + 1] = Page!Shows(g[n], r[n + 1])
  <2>. HIDE DEF r, n
  <2>. QED  BY <1>1, <1>4 DEF IsFold
<1>. QED
  BY <1>2, <1>3, <1>4, <1>5, <1>6

(* What the status on the page says of the events, however many they are.  *)
PageStatus == {"none", "completed", "unverified", "failed"}
Tells(shown) ==
  [completed |-> {"scenario-finished"}, failed |-> {"scenario-failed"},
   unverified |-> {"payment-unverified", "scenario-unverified"}][shown]

LEMMA StatusOnPage ==
  ASSUME NEW q \in Seq(Events)
  PROVE  /\ PageOf(q).status \in PageStatus
         /\ PageOf(q).status = "none" =>
              \A i \in DOMAIN q : \A v \in PageStatus \ {"none"} : q[i].type \notin Tells(v)
         /\ PageOf(q).status # "none" =>
              \E i \in DOMAIN q : q[i].type \in Tells(PageOf(q).status)
<1>. DEFINE n == Len(q)
<1>1. PICK f : IsFold(f, q, n) /\ PageOf(q) = f[n]
  BY PageFolds
<1>2. n \in Nat /\ DOMAIN q = 1..n
  OBVIOUS
<1>. DEFINE Says(k) ==
       /\ f[k].status \in PageStatus
       /\ f[k].status = "none" =>
            \A i \in 1..k : \A v \in PageStatus \ {"none"} : q[i].type \notin Tells(v)
       /\ f[k].status # "none" => \E i \in 1..k : q[i].type \in Tells(f[k].status)
     S == {k \in Nat : k <= n => Says(k)}
<1>. HIDE DEF n
<1>3. 0 \in S
  <2>1. f[0] = Nothing
    BY <1>1, <1>2 DEF IsFold
  <2>. QED  BY <2>1 DEF Nothing, PageStatus
<1>4. ASSUME NEW k \in Nat, k \in S PROVE k + 1 \in S
  <2>. SUFFICES ASSUME k + 1 <= n PROVE Says(k + 1)
    OBVIOUS
  <2>1. Says(k) /\ k + 1 \in 0..n /\ k + 1 # 0 /\ (k + 1) - 1 = k
    BY <1>2, <1>4
  <2>2. f[k + 1] = Page!Shows(f[k], q[k + 1])
    BY <1>1, <2>1 DEF IsFold
  <2>3. \/ /\ f[k + 1].status = f[k].status
           /\ f[k].status = "none" =>
                \A v \in PageStatus \ {"none"} : q[k + 1].type \notin Tells(v)
        \/ /\ f[k + 1].status \in PageStatus \ {"none"}
           /\ q[k + 1].type \in Tells(f[k + 1].status)
    BY <2>2 DEF Page!Shows, Page!Verdict, Tells, PageStatus
  <2>. QED  BY <2>1, <2>3
<1>5. Nat \subseteq S
  <2>. HIDE DEF S
  <2>. QED  BY <1>3, <1>4, NatSet
<1>6. Says(n)
  BY <1>2, <1>5
<1>. QED
  BY <1>1, <1>2, <1>6

-----------------------------------------------------------------------------
(* The page and the coroutine *)

(* What the page has been told when the coroutine is at its place: no      *)
(* failed scenario before the verdict, the question it waits on, and no    *)
(* question when the agent is at work or the session has its verdict.      *)
OnTheWire(s) == frame[s].event \in {inbox[s][i] : i \in DOMAIN inbox[s]}
Due(s) == IF Where(s) = "await" THEN frame[s].asked ELSE 0
Speech(s) == IF Where(s) = "await" THEN Ev("ask-user", frame[s].asked)
             ELSE Ev("step-started", frame[s].step)
Concluded(s) == \E v \in Terminal : Received(s, VerdictType[v])
PageInv(s) ==
  /\ Where(s) \in Unsettled => ~Received(s, "scenario-failed")
  /\ Received(s, "scenario-unverified") => Received(s, "payment-unverified")
  /\ Concluded(s) => PageOf(inbox[s]).question = 0
  /\ Where(s) \in {"run", "await"} =>
       /\ pc[s] \in InEmission => frame[s].event = Speech(s)
       /\ pc[s] = "deliver" /\ OnTheWire(s) => PageOf(inbox[s]).question = Due(s)
       /\ pc[s] \in {"mark_delivered", "run", "await"} => PageOf(inbox[s]).question = Due(s)
PagesInv == \A s \in Sessions : PageInv(s)

LEMMA PagesInvInit == Init => PagesInv
  BY DEF Init, PagesInv, PageInv, Received, Concluded, Where, InEmission, Unsettled

(* What the invariant says of the page itself.                             *)
LEMMA PageShows ==
  ASSUME PagesInv, ToldInv, TypeOK, NEW s \in Sessions
  PROVE  /\ status[s] \in {"completed", "unverified"} /\ ~Received(s, "scenario-failed") =>
              Shown(s) = [status |-> status[s], question |-> 0]
         /\ pc[s] = "await" /\ frame[s].asked # 0 =>
              Shown(s) = [status |-> "waiting_user", question |-> frame[s].asked]
         /\ pc[s] = "run" => Shown(s) = [status |-> "running", question |-> 0]
<1>. DEFINE q == inbox[s]
            p == PageOf(q)
<1>1. q \in Seq(Events) /\ PageInv(s) /\ PathInv(s) /\ RowInv(s)
  BY DEF TypeOK, PagesInv, ToldInv
<1>2. p = [status |-> p.status, question |-> p.question]
  <2>1. PICK f : IsFold(f, q, Len(q)) /\ p = f[Len(q)] /\ Len(q) \in Nat
    BY <1>1, PageFolds
  <2>2. p = Nothing \/ \E old, e : p = Page!Shows(old, e)
    BY <2>1 DEF IsFold
  <2>3. CASE p = Nothing
    <3>. HIDE DEF p
    <3>. QED  BY <2>3 DEF Nothing
  <2>4. CASE \E old, e : p = Page!Shows(old, e)
    <3>. HIDE DEF p
    <3>. QED  BY <2>4 DEF Page!Shows
  <2>. QED  BY <2>2, <2>3, <2>4
<1>3. Shown(s) = [p EXCEPT !.status = IF p.status # "none" THEN p.status
                                      ELSE IF p.question = 0 THEN "running" ELSE "waiting_user"]
  BY DEF Shown, Page!Summary, PageOf
<1>4. /\ p.status \in PageStatus
      /\ \A v \in PageStatus \ {"none"} :
           p.status = "none" => \A t \in Tells(v) : ~Received(s, t)
      /\ p.status # "none" => \E t \in Tells(p.status) : Received(s, t)
  BY <1>1, StatusOnPage DEF Received
<1>. HIDE DEF p, q
<1>5. Shown(s) = [status |-> IF p.status # "none" THEN p.status
                             ELSE IF p.question = 0 THEN "running" ELSE "waiting_user",
                  question |-> p.question]
  BY <1>2, <1>3
<1>6. Received(s, "scenario-finished") => Received(s, "payment-ready")
  BY <1>1 DEF RowInv, Ordered, Received, q
<1>7. ASSUME status[s] \in {"completed", "unverified"}, ~Received(s, "scenario-failed")
      PROVE  p.status = status[s] /\ p.question = 0
  <2>1. Received(s, PaymentOf(status[s])) /\ Received(s, VerdictType[status[s]])
    BY <1>1, <1>7 DEF RowInv
  <2>2. p.status # "none" /\ p.status # "failed"
    BY <1>4, <1>7, <2>1 DEF Tells, VerdictType, PageStatus
  <2>3. p.question = 0
    BY <1>1, <1>7, <2>1 DEF PageInv, Concluded, Terminal, p, q
  <2>4. CASE status[s] = "completed"
    <3>1. ~Received(s, "payment-unverified") /\ ~Received(s, "scenario-unverified")
      BY <1>1, <2>1, <2>4 DEF RowInv, PageInv, PaymentOf
    <3>. QED  BY <1>4, <2>2, <2>3, <2>4, <3>1 DEF Tells, PageStatus
  <2>5. CASE status[s] = "unverified"
    <3>1. ~Received(s, "payment-ready") /\ ~Received(s, "scenario-finished")
      BY <1>1, <1>6, <2>1, <2>5 DEF RowInv, PaymentOf
    <3>. QED  BY <1>4, <2>2, <2>3, <2>5, <3>1 DEF Tells, PageStatus
  <2>. QED  BY <1>7, <2>4, <2>5
<1>8. ASSUME pc[s] \in {"run", "await"} PROVE p.status = "none" /\ p.question = Due(s)
  <2>1. Where(s) = pc[s] /\ Where(s) \in Unsettled
    BY <1>8 DEF Where, InEmission, Unsettled
  <2>2. /\ ~Received(s, "payment-ready") /\ ~Received(s, "payment-unverified")
        /\ ~Received(s, "scenario-failed") /\ ~Received(s, "scenario-unverified")
        /\ ~Received(s, "scenario-finished")
    BY <1>1, <1>6, <2>1 DEF PathInv, PageInv, Payments
  <2>3. p.status = "none"
    BY <1>4, <2>2 DEF Tells, PageStatus
  <2>. QED  BY <1>1, <1>8, <2>1, <2>3 DEF PageInv, p, q
<1>. QED
  BY <1>5, <1>7, <1>8 DEF Due, Where, InEmission

(* A step that tells the receiver nothing.                                 *)
Untold(s) ==
  /\ inbox'[s] = inbox[s]
  /\ Where(s)' \in Unsettled => Where(s) \in Unsettled
  /\ Where(s)' \in {"run", "await"} =>
       \/ pc'[s] = pc[s] /\ frame'[s] = frame[s]
       \/ pc'[s] = "append" /\ frame'[s].event = Speech(s)'
       \/ pc[s] = "mark_delivered" /\ pc'[s] = frame[s].then /\ frame'[s] = frame[s]

LEMMA UntoldPage ==
  ASSUME PagesInv, NEW s \in Sessions, Untold(s)
  PROVE  PageInv(s)'
<1>1. PageInv(s)
  BY DEF PagesInv
<1>2. (\A y : Received(s, y)' <=> Received(s, y)) /\ (Concluded(s)' <=> Concluded(s))
  BY DEF Untold, Received, Concluded
<1>3. PageOf(inbox[s])' = PageOf(inbox[s])
  BY DEF Untold
<1>4. Where(s)' \in {"run", "await"} =>
        /\ pc'[s] \in InEmission => frame'[s].event = Speech(s)'
        /\ pc'[s] = "deliver" /\ OnTheWire(s)' => PageOf(inbox[s]).question = Due(s)'
        /\ pc'[s] \in {"mark_delivered", "run", "await"} => PageOf(inbox[s]).question = Due(s)'
  <2>. SUFFICES ASSUME Where(s)' \in {"run", "await"}
       PROVE  /\ pc'[s] \in InEmission => frame'[s].event = Speech(s)'
              /\ pc'[s] = "deliver" /\ OnTheWire(s)' => PageOf(inbox[s]).question = Due(s)'
              /\ pc'[s] \in {"mark_delivered", "run", "await"} =>
                   PageOf(inbox[s]).question = Due(s)'
    OBVIOUS
  <2>1. CASE pc'[s] = pc[s] /\ frame'[s] = frame[s]
    <3>1. /\ Where(s)' = Where(s) /\ (OnTheWire(s)' <=> OnTheWire(s))
          /\ Due(s)' = Due(s) /\ Speech(s)' = Speech(s)
      BY <2>1 DEF Untold, Where, OnTheWire, Due, Speech
    <3>. QED  BY <1>1, <2>1, <3>1 DEF PageInv
  <2>2. CASE pc'[s] = "append" /\ frame'[s].event = Speech(s)'
    BY <2>2
  <2>3. CASE pc[s] = "mark_delivered" /\ pc'[s] = frame[s].then /\ frame'[s] = frame[s]
    <3>1. pc'[s] \in {"run", "await"} /\ Where(s) = pc'[s] /\ Where(s)' = pc'[s]
      <4>1. Where(s) = pc'[s]
        BY <2>3 DEF Where, InEmission
      <4>2. pc'[s] \in InEmission => Where(s)' = Where(s)
        BY <2>3, <4>1 DEF Where
      <4>. QED  BY <4>1, <4>2 DEF Where, InEmission
    <3>2. Due(s)' = Due(s)
      BY <2>3, <3>1 DEF Due
    <3>. QED  BY <1>1, <2>3, <3>1, <3>2 DEF PageInv, InEmission
  <2>. QED  BY <2>1, <2>2, <2>3 DEF Untold
<1>. QED
  BY <1>1, <1>2, <1>3, <1>4 DEF PageInv, Untold

LEMMA BeforeVerdictUntold ==
  ASSUME ToldInv, SlotInv, NEW s \in Sessions,
         \/ StartTask(s) \/ Boot(s) \/ Authenticate(s) \/ BeginStep(s) \/ RunStep(s)
         \/ Dispatch(s) \/ AskUser(s) \/ Woken(s) \/ PopReply(s)
  PROVE  Untold(s)
<1>. USE DEF Local, stored, At, Goto
<1>0. /\ TypeOK /\ frame[s] \in Frames /\ 0 \in Nat
      /\ pc \in [Sessions -> Labels] /\ frame \in [Sessions -> Frames]
  BY DEF SlotInv, TypeOK
<1>1. Quiet(s)
  BY BeforeVerdictTold
<1>2. SUFFICES ASSUME Where(s)' \in {"run", "await"}
      PROVE  pc'[s] = "append" /\ frame'[s].event = Speech(s)'
  BY <1>1 DEF Quiet, Untold
<1>3. ASSUME NEW f \in Frames, NEW e, NEW l, Emit(s, f, e, l)
      PROVE  /\ pc'[s] = "append" /\ Where(s)' = l /\ frame'[s].event = e
             /\ frame'[s].step = f.step /\ frame'[s].asked = f.asked
  <2>1. frame'[s] = Emitting(f, e, l) /\ pc'[s] = "append"
    BY <1>0, <1>3 DEF Emit
  <2>2. /\ Emitting(f, e, l).then = l /\ Emitting(f, e, l).event = e
        /\ Emitting(f, e, l).step = f.step /\ Emitting(f, e, l).asked = f.asked
    BY DEF Emitting, Frames
  <2>. QED  BY <2>1, <2>2 DEF Where, InEmission
<1>4. CASE AskUser(s)
  <2>. DEFINE n == frame[s].asked + 1
              f == [frame[s] EXCEPT !.asked = n]
  <2>1. f \in Frames /\ f.asked = n
    BY <1>0 DEF Frames
  <2>2. Emit(s, f, Ev("ask-user", n), "await")
    BY <1>4 DEF AskUser
  <2>. HIDE DEF n, f
  <2>. QED  BY <1>3, <2>1, <2>2 DEF Speech
<1>5. CASE BeginStep(s)
  <2>. DEFINE n == frame[s].step + 1
              f == [frame[s] EXCEPT !.step = n]
  <2>1. f \in Frames /\ f.step = n
    BY <1>0 DEF Frames
  <2>2. Emit(s, f, Ev("step-started", n), "run")
    BY <1>5 DEF BeginStep
  <2>. HIDE DEF n, f
  <2>. QED  BY <1>3, <2>1, <2>2 DEF Speech
<1>6. CASE StartTask(s) \/ Authenticate(s) \/ Woken(s) \/ PopReply(s)
  <2>1. pc'[s] \in {"boot", "loop", "pop", "finished"}
    BY <1>0, <1>6 DEF StartTask, Authenticate, Woken, PopReply, Finish
  <2>. QED  BY <1>2, <2>1 DEF Where, InEmission
<1>7. CASE Boot(s)
  BY <1>0, <1>2, <1>3, <1>7 DEF Boot
<1>8. CASE RunStep(s)
  <2>1. \A r \in Results : [frame[s] EXCEPT !.result = r] \in Frames
    BY <1>0 DEF Frames
  <2>. QED  BY <1>2, <1>3, <1>8, <2>1 DEF RunStep
<1>9. CASE Dispatch(s)
  <2>. DEFINE f == [frame[s] EXCEPT !.latest = 0, !.result = NoFrame.result]
              calm == [f EXCEPT !.recovering = FALSE]
  <2>1. f \in Frames /\ calm \in Frames
    BY <1>0 DEF Frames, NoFrame, Results
  <2>2. /\ [calm EXCEPT !.verdict = "completed"] \in Frames
        /\ [calm EXCEPT !.verdict = "unverified"] \in Frames
    BY <2>1 DEF Frames, Terminal
  <2>3. \/ pc' = [pc EXCEPT ![s] = "ask"] \/ pc' = [pc EXCEPT ![s] = "loop"]
        \/ pc' = [pc EXCEPT ![s] = "verdict"]
        \/ Emit(s, [calm EXCEPT !.verdict = "completed"], Ev("payment-ready", 0), "verdict")
        \/ Emit(s, [calm EXCEPT !.verdict = "unverified"], Ev("payment-unverified", 0), "verdict")
    BY <1>9 DEF Dispatch
  <2>4. pc'[s] \in {"ask", "loop", "verdict"} \/ Where(s)' = "verdict"
    <3>. HIDE DEF calm, f
    <3>. QED  BY <1>0, <1>3, <2>2, <2>3
  <2>. QED  BY <1>2, <2>4 DEF Where, InEmission
<1>. QED
  BY <1>4, <1>5, <1>6, <1>7, <1>8, <1>9

LEMMA AfterVerdictUntold ==
  ASSUME ToldInv, SlotInv, NEW s \in Sessions,
         \/ EmitVerdict(s) \/ Unexpected(s) \/ StepRaises(s) \/ RowGone(s) \/ DoneCallback(s)
         \/ EmitDuplicate(s) \/ MarkFailed(s) \/ DeliveryError(s) \/ StoreFault(s)
         \/ Settle(s) \/ ScheduleAnalysis(s) \/ Fallback(s)
  PROVE  Untold(s)
<1>. USE DEF Local, stored, Goto
<1>0. /\ TypeOK /\ frame[s] \in Frames
      /\ pc \in [Sessions -> Labels] /\ frame \in [Sessions -> Frames]
  BY DEF SlotInv, TypeOK
<1>1. inbox'[s] = inbox[s]
  BY DEF EmitVerdict, Unexpected, StepRaises, RowGone, DoneCallback, EmitDuplicate, MarkFailed,
     DeliveryError, StoreFault, Settle, ScheduleAnalysis, Fallback
<1>2. Where(s)' \notin Unsettled
  <2>1. CASE Raise(s) \/ Finish(s)
    BY <1>0, <2>1, RaiseQuiet
  <2>2. CASE EmitVerdict(s)
    <3>1. pc'[s] = "append" /\ frame'[s].then = "settle"
      BY <1>0, <2>2 DEF EmitVerdict, Emit, Emitting, Frames
    <3>. QED  BY <3>1 DEF Where, InEmission, Unsettled
  <2>3. CASE \/ Unexpected(s) \/ DoneCallback(s) \/ MarkFailed(s) \/ DeliveryError(s)
             \/ Settle(s) /\ ~Finish(s)
             \/ StoreFault(s) /\ ~Raise(s) /\ ~Finish(s)
    <3>1. pc'[s] \in {"verdict", "none", "delivery_error", "fallback", "schedule"}
      BY <1>0, <2>3 DEF Unexpected, DoneCallback, MarkFailed, DeliveryError, Settle, StoreFault
    <3>. QED  BY <3>1 DEF Where, InEmission, Unsettled
  <2>. QED
    BY <2>1, <2>2, <2>3 DEF StepRaises, RowGone, EmitDuplicate, StoreFault, Settle,
       ScheduleAnalysis, Fallback
<1>. QED
  BY <1>1, <1>2 DEF Untold, Unsettled

(* An event is written before it is sent, and its key is new: the receiver *)
(* does not hold it yet.                                                   *)
LEMMA EmitAppendPage ==
  ASSUME PagesInv, ToldInv, TypeOK, NEW s \in Sessions, EmitAppend(s)
  PROVE  PageInv(s)'
<1>1. PageInv(s) /\ WireInv(s)
  BY DEF PagesInv, ToldInv
<1>2. /\ pc[s] = "append" /\ pc'[s] = "deliver" /\ status[s] # "gone"
      /\ frame' = frame /\ inbox' = inbox /\ ~InLog(s, frame[s].event)
  BY DEF EmitAppend, At, ReadsRow, Goto, TypeOK, InLog
<1>3. ~OnTheWire(s)'
  BY <1>1, <1>2 DEF WireInv, OnTheWire
<1>4. /\ Where(s)' = Where(s) /\ \A y : Received(s, y)' <=> Received(s, y)
      /\ Concluded(s)' <=> Concluded(s)
  BY <1>2 DEF Where, InEmission, Received, Concluded
<1>5. Speech(s)' = Speech(s)
  BY <1>2, <1>4 DEF Speech
<1>. QED
  BY <1>1, <1>2, <1>3, <1>4, <1>5 DEF PageInv, InEmission

LEMMA DeliverPage ==
  ASSUME PagesInv, ToldInv, TypeOK, NEW s \in Sessions, Delivered(s) \/ AttemptFails(s)
  PROVE  PageInv(s)'
<1>. DEFINE e == frame[s].event
<1>0. /\ frame[s] \in Frames /\ frame \in [Sessions -> Frames] /\ pc \in [Sessions -> Labels]
      /\ inbox[s] \in Seq(Events) /\ inbox \in [Sessions -> Seq(Events)] /\ e \in Events
      /\ PathInv(s) /\ RowInv(s) /\ PageInv(s)
  BY DEF TypeOK, ToldInv, PagesInv, Frames
<1>1. pc[s] = "deliver" /\ (Receive(s) \/ UNCHANGED inbox) /\ (Delivered(s) => Receive(s))
  BY DEF Delivered, AttemptFails
<1>2. /\ pc'[s] \in {"deliver", "mark_delivered", "mark_failed"}
      /\ pc'[s] = "mark_delivered" => Delivered(s)
  BY <1>0, <1>1 DEF Delivered, AttemptFails, Goto
<1>3. /\ frame'[s].event = e /\ frame'[s].then = frame[s].then
      /\ frame'[s].step = frame[s].step /\ frame'[s].asked = frame[s].asked
  <2>1. \/ frame' = [frame EXCEPT ![s] = [frame[s] EXCEPT !.tries = 0]]
        \/ frame' = [frame EXCEPT ![s] = [frame[s] EXCEPT !.tries = frame[s].tries + 1]]
        \/ frame' = frame
    BY <1>0 DEF Delivered, AttemptFails
  <2>. QED  BY <1>0, <2>1 DEF Frames
<1>4. /\ \A y : Received(s, y) => Received(s, y)'
      /\ \A y : Received(s, y)' => Received(s, y) \/ y = e.type
  BY <1>1, ReceiveTold
<1>5. Fits(frame[s]) /\ Where(s) = frame[s].then
  BY <1>0, <1>1 DEF PathInv, InEmission, Where
<1>6. /\ pc'[s] \in InEmission => Where(s)' = Where(s)
      /\ pc'[s] \notin InEmission => Where(s)' = "mark_failed"
  BY <1>2, <1>3, <1>5 DEF Where, InEmission
<1>7. inbox'[s] = inbox[s] \/ inbox'[s] = Append(inbox[s], e)
  BY <1>0, <1>1 DEF Receive
<1>8. Where(s)' \in Unsettled => ~Received(s, "scenario-failed")'
  <2>. SUFFICES ASSUME Where(s)' \in Unsettled PROVE ~Received(s, "scenario-failed")'
    OBVIOUS
  <2>1. Where(s) \in Unsettled
    BY <1>6 DEF Unsettled
  <2>2. e.type \in Progress
    BY <1>5, <2>1 DEF Fits, Unsettled
  <2>. QED  BY <1>0, <1>4, <2>1, <2>2 DEF PageInv, Progress
<1>9. Received(s, "scenario-unverified")' => Received(s, "payment-unverified")'
  <2>1. CASE Received(s, "scenario-unverified")
    BY <1>0, <1>4, <2>1 DEF PageInv
  <2>2. CASE e.type = "scenario-unverified"
    <3>1. frame[s].then = "settle" /\ frame[s].verdict = "unverified"
      BY <1>0, <1>5, <2>2 DEF Fits, Progress, PaymentOf, VerdictType, Frames, Terminal
    <3>2. Received(s, "payment-unverified")
      BY <1>0, <1>5, <3>1 DEF PathInv, PaymentOf
    <3>. QED  BY <1>4, <3>2
  <2>. QED  BY <1>4, <2>1, <2>2
<1>10. Concluded(s)' => PageOf(inbox'[s]).question = 0
  <2>. SUFFICES ASSUME Concluded(s)' PROVE PageOf(inbox'[s]).question = 0
    OBVIOUS
  <2>1. Concluded(s) \/ \E v \in Terminal : e.type = VerdictType[v]
    BY <1>4 DEF Concluded
  <2>2. CASE inbox'[s] = inbox[s]
    <3>1. Concluded(s)' <=> Concluded(s)
      BY <2>2 DEF Concluded, Received
    <3>. QED  BY <1>0, <2>2, <3>1 DEF PageInv
  <2>3. CASE inbox'[s] = Append(inbox[s], e)
    <3>1. PageOf(inbox'[s]) = Page!Shows(PageOf(inbox[s]), e)
      BY <1>0, <2>3, PageAppend
    <3>2. \A p : Page!Shows(p, e).question = IF e.type = "ask-user" THEN e.n
                                            ELSE IF e.type \in Page!Clears THEN 0 ELSE p.question
      BY DEF Page!Shows
    <3>3. e.type # "ask-user"
      <4>1. SUFFICES ASSUME e.type = "ask-user" PROVE FALSE
        OBVIOUS
      <4>2. Where(s) \in Unsettled
        BY <1>0, <1>5, <4>1 DEF Fits, PaymentOf, VerdictType, Frames, Terminal, Unsettled
      <4>3. /\ ~Received(s, "payment-ready") /\ ~Received(s, "payment-unverified")
            /\ ~Received(s, "scenario-failed") /\ ~Received(s, "scenario-unverified")
        BY <1>0, <4>2 DEF PathInv, PageInv, Payments
      <4>4. ~Received(s, "scenario-finished")
        BY <1>0, <4>3 DEF RowInv, Ordered, Received
      <4>. QED  BY <2>1, <4>1, <4>3, <4>4 DEF Concluded, VerdictType, Terminal
    <3>4. (\E v \in Terminal : e.type = VerdictType[v]) => e.type \in Page!Clears
      BY DEF Terminal, VerdictType, Page!Clears
    <3>5. Concluded(s) => PageOf(inbox[s]).question = 0
      BY <1>0 DEF PageInv
    <3>. QED  BY <2>1, <3>1, <3>2, <3>3, <3>4, <3>5
  <2>. QED  BY <1>7, <2>2, <2>3
<1>11. ASSUME Where(s)' \in {"run", "await"}
       PROVE  /\ pc'[s] \in InEmission /\ frame'[s].event = Speech(s)'
              /\ OnTheWire(s)' => PageOf(inbox'[s]).question = Due(s)'
              /\ pc'[s] = "mark_delivered" => OnTheWire(s)'
  <2>1. /\ Where(s) = Where(s)' /\ pc'[s] \in InEmission /\ e = Speech(s)
        /\ Speech(s)' = Speech(s) /\ Due(s)' = Due(s)
    BY <1>0, <1>1, <1>3, <1>6, <1>11 DEF PageInv, InEmission, Speech, Due
  <2>2. OnTheWire(s)' => PageOf(inbox'[s]).question = Due(s)
    <3>1. CASE inbox'[s] = inbox[s]
      <4>1. OnTheWire(s)' <=> OnTheWire(s)
        BY <1>3, <3>1 DEF OnTheWire
      <4>. QED  BY <1>0, <1>1, <1>11, <2>1, <3>1, <4>1 DEF PageInv
    <3>2. CASE inbox'[s] = Append(inbox[s], e)
      <4>1. PageOf(inbox'[s]) = Page!Shows(PageOf(inbox[s]), e)
        BY <1>0, <3>2, PageAppend
      <4>2. \A p, n : /\ Page!Shows(p, Ev("ask-user", n)).question = n
                      /\ Page!Shows(p, Ev("step-started", n)).question = 0
        BY DEF Page!Shows, Page!Clears, Ev
      <4>. QED  BY <1>11, <2>1, <4>1, <4>2 DEF Speech, Due
    <3>. QED  BY <1>7, <3>1, <3>2
  <2>3. Receive(s) => OnTheWire(s)'
    <3>1. CASE inbox'[s] = inbox[s]
      <4>1. Receive(s) => \E i \in DOMAIN inbox[s] : inbox[s][i] = e
        BY <1>0, <3>1 DEF Receive
      <4>. QED  BY <1>3, <3>1, <4>1 DEF OnTheWire
    <3>2. CASE inbox'[s] = Append(inbox[s], e)
      <4>1. Len(inbox[s]) + 1 \in DOMAIN inbox'[s] /\ inbox'[s][Len(inbox[s]) + 1] = e
        BY <1>0, <3>2
      <4>. QED  BY <1>3, <4>1 DEF OnTheWire
    <3>. QED  BY <1>7, <3>1, <3>2
  <2>. QED  BY <1>1, <1>2, <1>3, <2>1, <2>2, <2>3
<1>. QED
  BY <1>8, <1>9, <1>10, <1>11 DEF PageInv, InEmission

LEMMA StaysPage ==
  ASSUME PagesInv, NEW t \in Sessions, Stays(t) \/ RowMoves(t)
  PROVE  PageInv(t)'
<1>1. \/ pc'[t] = pc[t] /\ frame'[t] = frame[t] /\ Where(t)' = Where(t)
      \/ Where(t)' = "none"
  BY DEF Stays, RowMoves, Where, InEmission
<1>. QED
  BY <1>1, UntoldPage DEF Untold, Stays, RowMoves, Unsettled

LEMMA PagesInvStep == PagesInv /\ ToldInv /\ SlotInv /\ [Next]_vars => PagesInv'
<1>. SUFFICES ASSUME PagesInv, ToldInv, SlotInv, [Next]_vars PROVE PagesInv'
  OBVIOUS
<1>0. TypeOK /\ 0 \in Nat
  BY DEF SlotInv
<1>1. ASSUME NEW s \in Sessions, Runner(s) \/ StoreFault(s) PROVE PagesInv'
  <2>1. \A t \in Sessions \ {s} : PageInv(t)'
    BY <1>0, <1>1, OthersStay, StaysPage
  <2>2. MarkDelivered(s) => Untold(s)
    <3>1. ASSUME MarkDelivered(s) PROVE Untold(s)
      <4>1. /\ pc[s] = "mark_delivered" /\ pc'[s] = frame[s].then
            /\ frame' = frame /\ inbox' = inbox /\ Fits(frame[s])
        BY <1>0, <3>1 DEF MarkDelivered, Goto, Local, TypeOK, ToldInv, PathInv, InEmission
      <4>2. Where(s)' = Where(s)
        BY <4>1 DEF Where, InEmission, Fits
      <4>. QED  BY <4>1, <4>2 DEF Untold
    <3>. QED  BY <3>1
  <2>3. PageInv(s)'
    BY <1>0, <1>1, <2>2, BeforeVerdictUntold, AfterVerdictUntold, UntoldPage, EmitAppendPage,
       DeliverPage DEF Runner, Emission
  <2>. QED  BY <2>1, <2>3 DEF PagesInv
<1>2. ASSUME NEW s \in Sessions, NEW r \in 1..MaxSteps, ApplyReply(s, r) PROVE PagesInv'
  <2>1. RowMoves(s) /\ r \in Nat
    BY <1>0, <1>2 DEF ApplyReply, MayReply, RowMoves, TypeOK
  <2>2. \A t \in Sessions \ {s} : Stays(t)
    BY <1>0, <1>2, <2>1, OthersStay
  <2>. QED  BY <2>1, <2>2, StaysPage DEF PagesInv
<1>3. ASSUME NEW s \in Sessions, NEW E \in SUBSET Expirable, CreateSession(s, E) PROVE PagesInv'
  <2>1. status[s] = "absent" /\ pc'[s] = "creating" /\ inbox' = inbox
    BY <1>0, <1>3 DEF CreateSession, TypeOK
  <2>2. \A y : ~Received(s, y)'
    BY <2>1 DEF ToldInv, PathInv, Received
  <2>3. PageInv(s)'
    BY <2>1, <2>2 DEF PageInv, Concluded, Where, InEmission
  <2>4. \A t \in Sessions \ {s} : RowMoves(t)
    BY <1>0, <1>3 DEF CreateSession, Forget, RowMoves, Expirable, TypeOK
  <2>. QED  BY <2>3, <2>4, StaysPage DEF PagesInv
<1>4. ASSUME NEW E \in SUBSET Expirable, ListSessions(E) PROVE PagesInv'
  <2>1. \A t \in Sessions : RowMoves(t)
    BY <1>0, <1>4 DEF ListSessions, Forget, RowMoves, Expirable, TypeOK
  <2>. QED  BY <2>1, StaysPage DEF PagesInv
<1>5. CASE Restart \/ UNCHANGED vars
  <2>1. \A t \in Sessions : RowMoves(t)
    BY <1>5 DEF Restart, vars, stored, RowMoves
  <2>. QED  BY <2>1, StaysPage DEF PagesInv
<1>. QED
  BY <1>1, <1>2, <1>3, <1>4, <1>5 DEF Next, Client

LEMMA SpecPagesInv == Spec => []PagesInv
  BY PagesInvInit, PagesInvStep, SpecToldInv, SpecSlotInv, PTL DEF Spec
=============================================================================
