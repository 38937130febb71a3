------------------------ MODULE BuyerSessionReplies ------------------------
(***************************************************************************)
(* The theorem about the handshake of set_waiting_question, apply_reply    *)
(* and pop_reply: the agent hears the answer of every question, once and   *)
(* in order, for any number of questions, old replies, faults and          *)
(* restarts.                                                               *)
(***************************************************************************)
EXTENDS BuyerSessionProofs

(* given[s] counts the answers the agent has heard; every question before  *)
(* the last one is among them.                                             *)
Heard(s) == Len(given[s])

(* No question is open: the last answer was heard, or the coroutine holds  *)
(* it for the next step.                                                   *)
Held(s) ==
  /\ question[s] = 0 /\ pending[s] = 0
  /\ \/ frame[s].latest = 0 /\ frame[s].asked = Heard(s)
     \/ /\ frame[s].latest = Heard(s) + 1 /\ frame[s].asked = Heard(s) + 1
        /\ Heard(s) + 1 \in accepted[s]

(* One question is open, or its answer was accepted and is in the row.     *)
Open(s) ==
  /\ frame[s].asked = Heard(s) + 1
  /\ \/ question[s] = Heard(s) + 1 /\ pending[s] = 0
     \/ question[s] = 0 /\ pending[s] = Heard(s) + 1 /\ Heard(s) + 1 \in accepted[s]

InOrder(s) == \A i \in DOMAIN given[s] : given[s][i] = i /\ i \in accepted[s]

BeforeStep == {"creating", "boot", "auth", "loop", "run"}
AfterStep == {"result", "ask"}
Waiting == {"await", "pop"}

AnsInv(s) ==
  /\ InOrder(s)
  /\ status[s] = "absent" =>
       pc[s] = "none" /\ Held(s) /\ Heard(s) = 0 /\ frame[s].latest = 0
  /\ Where(s) \in BeforeStep => Held(s)
  /\ Where(s) \in AfterStep =>
       question[s] = 0 /\ pending[s] = 0 /\ frame[s].asked = Heard(s)
  /\ Where(s) \in Waiting => Open(s)

Places == BeforeStep \cup AfterStep \cup Waiting

AnswersInv == \A s \in Sessions : AnsInv(s)

LEMMA AnswersInvInit == Init => AnswersInv
  BY DEF Init, AnswersInv, AnsInv, InOrder, Held, Heard, Where, InEmission, NoFrame, BeforeStep,
     AfterStep, Waiting

LEMMA AnswersInvImplies == AnswersInv => AnswersMatchQuestions
  BY DEF AnswersInv, AnsInv, InOrder, AnswersMatchQuestions

-----------------------------------------------------------------------------
(* What a step may leave to the invariant *)

(* The handshake of session t is where it was, and so is what is heard.    *)
SameTalk(t) ==
  /\ question'[t] = question[t] /\ pending'[t] = pending[t] /\ given'[t] = given[t]
  /\ accepted'[t] = accepted[t]

(* Nothing that the invariant looks at changes for session t.              *)
Still(t) ==
  /\ SameTalk(t) /\ status'[t] = status[t] /\ pc'[t] = pc[t] /\ frame'[t] = frame[t]

LEMMA StillAns ==
  ASSUME AnswersInv, NEW t \in Sessions, Still(t)
  PROVE  AnsInv(t)'
<1>1. Heard(t)' = Heard(t) /\ Where(t)' = Where(t)
  BY DEF Still, SameTalk, Heard, Where
<1>2. (Held(t)' <=> Held(t)) /\ (Open(t)' <=> Open(t)) /\ (InOrder(t)' <=> InOrder(t))
  BY <1>1 DEF Still, SameTalk, Held, Open, InOrder
<1>. QED
  BY <1>1, <1>2 DEF AnswersInv, AnsInv, Still, SameTalk

LEMMA OthersStill ==
  ASSUME TypeOK, NEW s \in Sessions, NEW r \in Nat,
         Runner(s) \/ StoreFault(s) \/ ApplyReply(s, r),
         NEW t \in Sessions \ {s}
  PROVE  Still(t)
<1>. USE DEF Still, SameTalk, stored, Local, Goto, Emit, Finish, Raise, SetStatus
<1>1. CASE StartTask(s) \/ Boot(s) \/ Authenticate(s) \/ BeginStep(s) \/ RunStep(s)
  BY <1>1 DEF TypeOK, StartTask, Boot, Authenticate, BeginStep, RunStep
<1>2. CASE StepRaises(s) \/ AskUser(s) \/ Woken(s) \/ PopReply(s)
  BY <1>2 DEF TypeOK, StepRaises, AskUser, Woken, PopReply
<1>3. CASE Dispatch(s)
  BY <1>3 DEF TypeOK, Dispatch
<1>4. CASE EmitVerdict(s) \/ Settle(s) \/ ScheduleAnalysis(s) \/ Unexpected(s) \/ RowGone(s)
           \/ DoneCallback(s)
  BY <1>4 DEF TypeOK, EmitVerdict, Settle, ScheduleAnalysis, Unexpected, RowGone, DoneCallback
<1>5. CASE EmitAppend(s) \/ EmitDuplicate(s) \/ Delivered(s) \/ AttemptFails(s)
  BY <1>5 DEF TypeOK, EmitAppend, EmitDuplicate, Delivered, AttemptFails, Receive
<1>6. CASE MarkDelivered(s) \/ MarkFailed(s) \/ DeliveryError(s) \/ Fallback(s)
  BY <1>6 DEF TypeOK, MarkDelivered, MarkFailed, DeliveryError, Fallback
<1>7. CASE StoreFault(s)
  BY <1>7 DEF TypeOK, StoreFault
<1>8. CASE ApplyReply(s, r)
  BY <1>8 DEF TypeOK, ApplyReply
<1>. QED
  BY <1>1, <1>2, <1>3, <1>4, <1>5, <1>6, <1>7, <1>8 DEF Runner, Emission

(* A coroutine that asks no more: the row may even be gone.                *)
LEMMA OverAns ==
  ASSUME AnswersInv, NEW s \in Sessions,
         given'[s] = given[s], accepted[s] \subseteq accepted'[s],
         status'[s] # "absent", Where(s)' \notin Places
  PROVE  AnsInv(s)'
<1>1. InOrder(s)'
  BY DEF AnswersInv, AnsInv, InOrder
<1>. QED
  BY <1>1 DEF AnsInv, Places

(* A coroutine that moves on within the same part of the handshake.        *)
LEMMA MovesAns ==
  ASSUME AnswersInv, NEW s \in Sessions, SameTalk(s), status'[s] # "absent",
         frame'[s].asked = frame[s].asked, frame'[s].latest = frame[s].latest,
         Where(s)' \in BeforeStep => Where(s) \in BeforeStep,
         Where(s)' \in AfterStep => Where(s) \in AfterStep,
         Where(s)' \in Waiting => Where(s) \in Waiting
  PROVE  AnsInv(s)'
<1>1. Heard(s)' = Heard(s)
  BY DEF SameTalk, Heard
<1>2. (Held(s)' <=> Held(s)) /\ (Open(s)' <=> Open(s)) /\ (InOrder(s)' <=> InOrder(s))
  BY <1>1 DEF SameTalk, Held, Open, InOrder
<1>. QED
  BY <1>1, <1>2 DEF AnswersInv, AnsInv, SameTalk

-----------------------------------------------------------------------------
(* The steps of the coroutine *)

(* Where a coroutine goes on, and with what, when it enters _emit_event.   *)
LEMMA EmitAns ==
  ASSUME TypeOK, NEW s \in Sessions, NEW f \in Frames, NEW e, NEW l, Emit(s, f, e, l)
  PROVE  /\ Where(s)' = l
         /\ frame'[s].asked = f.asked /\ frame'[s].latest = f.latest
<1>1. frame' = [frame EXCEPT ![s] = Emitting(f, e, l)] /\ pc' = [pc EXCEPT ![s] = "append"]
  BY DEF Emit, Goto
<1>2. frame'[s] = Emitting(f, e, l) /\ pc'[s] = "append"
  BY <1>1 DEF TypeOK
<1>3. /\ Emitting(f, e, l).then = l /\ Emitting(f, e, l).asked = f.asked
      /\ Emitting(f, e, l).latest = f.latest
  BY DEF Emitting, Frames
<1>. QED
  BY <1>2, <1>3 DEF Where, InEmission

LEMMA ToStepAns ==
  ASSUME AnswersInv, TypeOK, NEW s \in Sessions,
         StartTask(s) \/ Boot(s) \/ Authenticate(s) \/ BeginStep(s) \/ Woken(s)
  PROVE  AnsInv(s)'
<1>. USE DEF stored, Local, Goto, At
<1>0. /\ frame[s] \in Frames /\ pc \in [Sessions -> Labels] /\ AnsInv(s)
      /\ status \in [Sessions -> Status]
  BY DEF TypeOK, AnswersInv
<1>1. SameTalk(s) /\ pc[s] # "none" /\ status'[s] # "absent"
  BY <1>0 DEF StartTask, Boot, Authenticate, BeginStep, Woken, SameTalk, AnsInv
<1>2. frame'[s].asked = frame[s].asked /\ frame'[s].latest = frame[s].latest /\
      \/ pc[s] \in {"creating", "boot", "auth", "loop"} /\ Where(s)' \in BeforeStep
      \/ pc[s] = "await" /\ Where(s)' = "pop"
  <2>1. CASE StartTask(s)
    BY <1>0, <2>1 DEF StartTask, Where, InEmission, BeforeStep
  <2>2. CASE Authenticate(s)
    BY <1>0, <2>2 DEF Authenticate, Where, InEmission, BeforeStep
  <2>3. CASE Woken(s)
    BY <1>0, <2>3 DEF Woken, Where, InEmission
  <2>4. CASE Boot(s)
    BY <1>0, <2>4, EmitAns DEF Boot, BeforeStep
  <2>5. CASE BeginStep(s)
    <3>. DEFINE n == frame[s].step + 1
                f == [frame[s] EXCEPT !.step = n]
    <3>1. f \in Frames /\ f.asked = frame[s].asked /\ f.latest = frame[s].latest
      BY <1>0 DEF Frames
    <3>2. pc[s] = "loop" /\ Emit(s, f, Ev("step-started", n), "run")
      BY <2>5 DEF BeginStep
    <3>. HIDE DEF n, f
    <3>. QED  BY <1>0, <3>1, <3>2, EmitAns DEF BeforeStep
  <2>. QED  BY <2>1, <2>2, <2>3, <2>4, <2>5
<1>3. Where(s) = pc[s]
  BY <1>2 DEF Where, InEmission
<1>. QED
  BY <1>1, <1>2, <1>3, MovesAns DEF BeforeStep, AfterStep, Waiting

(* The answer that the coroutine holds is heard.                           *)
LEMMA RunStepAns ==
  ASSUME AnswersInv, TypeOK, NEW s \in Sessions, RunStep(s)
  PROVE  AnsInv(s)'
<1>0. /\ frame[s] \in Frames /\ AnsInv(s) /\ given[s] \in Seq(Nat)
      /\ given \in [Sessions -> Seq(Nat)]
  BY DEF TypeOK, AnswersInv
<1>1. /\ UNCHANGED <<question, pending, accepted, status>>
      /\ given'[s] = IF frame[s].latest = 0 THEN given[s] ELSE Append(given[s], frame[s].latest)
      /\ pc[s] = "run"
  BY <1>0 DEF RunStep, stored
<1>2. Held(s) /\ status'[s] # "absent" /\ InOrder(s)
  BY <1>0, <1>1 DEF AnsInv, Where, InEmission, BeforeStep
<1>3. Where(s)' = "result" /\ frame'[s].asked = frame[s].asked
  <2>1. PICK x \in Results :
          Emit(s, [frame[s] EXCEPT !.result = x], Ev("step-finished", frame[s].step), "result")
    BY DEF RunStep
  <2>2. /\ [frame[s] EXCEPT !.result = x] \in Frames
        /\ [frame[s] EXCEPT !.result = x].asked = frame[s].asked
    BY <1>0 DEF Frames
  <2>. QED  BY <2>1, <2>2, EmitAns
<1>4. frame[s].asked = Len(given'[s]) /\ \A i \in DOMAIN given'[s] : given'[s][i] = i /\ i \in accepted[s]
  <2>1. CASE frame[s].latest = 0
    BY <1>1, <1>2, <2>1 DEF Held, Heard, InOrder
  <2>2. CASE frame[s].latest # 0
    <3>1. /\ frame[s].latest = Len(given[s]) + 1 /\ frame[s].asked = Len(given[s]) + 1
          /\ Len(given[s]) + 1 \in accepted[s]
      BY <1>2, <2>2 DEF Held, Heard
    <3>2. /\ Len(given'[s]) = Len(given[s]) + 1 /\ DOMAIN given'[s] = 1..(Len(given[s]) + 1)
          /\ \A i \in 1..Len(given[s]) : given'[s][i] = given[s][i]
          /\ given'[s][Len(given[s]) + 1] = frame[s].latest /\ DOMAIN given[s] = 1..Len(given[s])
          /\ Len(given[s]) \in Nat
      BY <1>0, <1>1, <2>2, <3>1
    <3>. QED  BY <1>2, <3>1, <3>2 DEF InOrder
  <2>. QED  BY <2>1, <2>2
<1>. QED
  BY <1>1, <1>2, <1>3, <1>4 DEF AnsInv, InOrder, Held, Heard, BeforeStep, AfterStep, Waiting

LEMMA DispatchAns ==
  ASSUME AnswersInv, TypeOK, NEW s \in Sessions, Dispatch(s)
  PROVE  AnsInv(s)'
<1>. DEFINE f == [frame[s] EXCEPT !.latest = 0, !.result = NoFrame.result]
            calm == [f EXCEPT !.recovering = FALSE]
            again == [f EXCEPT !.recovering = TRUE]
            done == [calm EXCEPT !.verdict = "completed"]
            unsure == [calm EXCEPT !.verdict = "unverified"]
<1>0. /\ frame[s] \in Frames /\ AnsInv(s) /\ frame \in [Sessions -> Frames]
      /\ pc \in [Sessions -> Labels]
  BY DEF TypeOK, AnswersInv
<1>1. SameTalk(s) /\ pc[s] = "result" /\ status' = status
  BY DEF Dispatch, Local, stored, SameTalk
<1>2. /\ status'[s] # "absent" /\ InOrder(s)
      /\ question[s] = 0 /\ pending[s] = 0 /\ frame[s].asked = Heard(s)
  BY <1>0, <1>1 DEF AnsInv, Where, InEmission, AfterStep
<1>3. /\ f \in Frames /\ calm \in Frames /\ done \in Frames /\ unsure \in Frames
      /\ calm.asked = frame[s].asked /\ calm.latest = 0
      /\ again.asked = frame[s].asked /\ again.latest = 0
  BY <1>0 DEF Frames, NoFrame, Results, Terminal
<1>4. \/ pc'[s] = "ask" /\ frame'[s] = calm
      \/ pc'[s] = "loop" /\ frame'[s] = again
      \/ pc'[s] = "verdict"
      \/ Emit(s, done, Ev("payment-ready", 0), "verdict")
      \/ Emit(s, unsure, Ev("payment-unverified", 0), "verdict")
  BY <1>0 DEF Dispatch, Goto
<1>. HIDE DEF f, calm, again, done, unsure
<1>5. \/ Where(s)' = "verdict"
      \/ /\ Where(s)' \in {"ask", "loop"}
         /\ frame'[s].asked = frame[s].asked /\ frame'[s].latest = 0
  BY <1>3, <1>4, EmitAns DEF Where, InEmission
<1>6. CASE Where(s)' = "verdict"
  <2>1. Where(s)' \notin Places
    BY <1>6 DEF Places, BeforeStep, AfterStep, Waiting
  <2>. QED  BY <1>1, <1>2, <2>1, OverAns DEF SameTalk
<1>7. CASE /\ Where(s)' \in {"ask", "loop"}
           /\ frame'[s].asked = frame[s].asked /\ frame'[s].latest = 0
  <2>1. Heard(s)' = Heard(s) /\ InOrder(s)'
    BY <1>1, <1>2 DEF SameTalk, Heard, InOrder
  <2>2. Held(s)'
    BY <1>1, <1>2, <1>7, <2>1 DEF Held, SameTalk
  <2>. QED  BY <1>1, <1>2, <1>7, <2>1, <2>2 DEF AnsInv, SameTalk, BeforeStep, AfterStep, Waiting
<1>. QED
  BY <1>5, <1>6, <1>7

(* The next question: the one after the answers that were heard.           *)
LEMMA AskUserAns ==
  ASSUME AnswersInv, TypeOK, NEW s \in Sessions, AskUser(s)
  PROVE  AnsInv(s)'
<1>. DEFINE n == frame[s].asked + 1
            f == [frame[s] EXCEPT !.asked = n]
<1>0. /\ frame[s] \in Frames /\ AnsInv(s)
      /\ question \in [Sessions -> Nat] /\ pending \in [Sessions -> Nat]
      /\ status \in [Sessions -> Status]
  BY DEF TypeOK, AnswersInv
<1>1. /\ pc[s] = "ask" /\ given' = given /\ accepted' = accepted
      /\ question'[s] = n /\ pending'[s] = 0 /\ status'[s] = "waiting_user"
      /\ Emit(s, f, Ev("ask-user", n), "await")
  BY <1>0 DEF AskUser, At
<1>2. InOrder(s) /\ frame[s].asked = Heard(s)
  BY <1>0, <1>1 DEF AnsInv, Where, InEmission, AfterStep
<1>3. f \in Frames /\ f.asked = n
  BY <1>0 DEF Frames
<1>4. Where(s)' = "await" /\ frame'[s].asked = n
  <2>. HIDE DEF f, n
  <2>. QED  BY <1>1, <1>3, EmitAns
<1>5. Open(s)' /\ InOrder(s)'
  BY <1>1, <1>2, <1>4 DEF Open, Heard, InOrder
<1>. QED
  BY <1>1, <1>4, <1>5 DEF AnsInv, BeforeStep, AfterStep, Waiting

(* The coroutine takes the answer of the open question.                    *)
LEMMA PopReplyAns ==
  ASSUME AnswersInv, TypeOK, NEW s \in Sessions, PopReply(s)
  PROVE  AnsInv(s)'
<1>0. /\ frame[s] \in Frames /\ AnsInv(s) /\ frame \in [Sessions -> Frames]
      /\ pc \in [Sessions -> Labels] /\ pending \in [Sessions -> Nat]
      /\ given[s] \in Seq(Nat)
  BY DEF TypeOK, AnswersInv
<1>1. /\ pc[s] = "pop"
      /\ UNCHANGED <<given, accepted, question, status>>
  BY DEF PopReply, At
<1>2. status'[s] # "absent" /\ InOrder(s) /\ Open(s) /\ Heard(s) \in Nat
  BY <1>0, <1>1 DEF AnsInv, Where, InEmission, Waiting, Heard
<1>3. CASE pending[s] = 0
  <2>1. pc'[s] = "finished"
    BY <1>0, <1>3 DEF PopReply, Finish, Goto
  <2>2. Where(s)' \notin Places
    BY <2>1 DEF Where, InEmission, Places, BeforeStep, AfterStep, Waiting
  <2>. QED  BY <1>1, <1>2, <2>2, OverAns
<1>4. CASE pending[s] # 0
  <2>1. /\ frame' = [frame EXCEPT ![s] = [frame[s] EXCEPT !.latest = pending[s]]]
        /\ pending'[s] = 0 /\ pc'[s] = "loop"
    BY <1>0, <1>4 DEF PopReply, Goto
  <2>2. frame'[s].asked = frame[s].asked /\ frame'[s].latest = pending[s]
    BY <1>0, <2>1 DEF Frames
  <2>3. Held(s)' /\ InOrder(s)'
    BY <1>1, <1>2, <1>4, <2>1, <2>2 DEF Open, Held, Heard, InOrder
  <2>. QED
    BY <1>1, <1>2, <2>1, <2>3 DEF AnsInv, Where, InEmission, BeforeStep, AfterStep, Waiting
<1>. QED
  BY <1>3, <1>4

(* _emit_event and the steps after the last question ask nothing.          *)
LEMMA RestAns ==
  ASSUME AnswersInv, TypeOK, NEW s \in Sessions,
         \/ Emission(s) \/ StoreFault(s) \/ StepRaises(s) \/ EmitVerdict(s) \/ Settle(s)
         \/ ScheduleAnalysis(s) \/ Unexpected(s) \/ RowGone(s) \/ DoneCallback(s)
  PROVE  AnsInv(s)'
<1>. USE DEF stored, Local, Goto, Emission, At, ReadsRow, StoreCalls
<1>0. /\ frame[s] \in Frames /\ frame[s].verdict \in Terminal /\ 0 \in Nat
      /\ pc \in [Sessions -> Labels] /\ frame \in [Sessions -> Frames]
      /\ status \in [Sessions -> Status] /\ AnsInv(s)
  BY DEF TypeOK, Frames, AnswersInv
<1>1. SameTalk(s) /\ pc[s] # "none"
  BY DEF EmitAppend, EmitDuplicate, Delivered, AttemptFails, MarkDelivered, MarkFailed,
     DeliveryError, Fallback, StoreFault, StepRaises, EmitVerdict, Settle, ScheduleAnalysis,
     Unexpected, RowGone, DoneCallback, SameTalk
<1>2. status'[s] = status[s] \/ status'[s] \in Terminal
  BY <1>0 DEF EmitAppend, EmitDuplicate, Delivered, AttemptFails, MarkDelivered, MarkFailed,
     DeliveryError, Fallback, StoreFault, StepRaises, EmitVerdict, Settle, ScheduleAnalysis,
     Unexpected, RowGone, DoneCallback, SetStatus, Terminal
<1>3. status'[s] # "absent"
  BY <1>0, <1>1, <1>2 DEF AnsInv, Terminal
<1>4. CASE EmitAppend(s) \/ Delivered(s) \/ AttemptFails(s) \/ MarkDelivered(s)
  <2>1. pc[s] \in InEmission
    BY <1>4 DEF EmitAppend, Delivered, AttemptFails, MarkDelivered, InEmission
  <2>2. /\ \/ frame' = [frame EXCEPT ![s] = [frame[s] EXCEPT !.tries = 0]]
           \/ frame' = [frame EXCEPT ![s] = [frame[s] EXCEPT !.tries = frame[s].tries + 1]]
           \/ frame' = frame
        /\ pc'[s] \in InEmission \cup {"mark_failed", frame[s].then}
    BY <1>0, <1>4 DEF EmitAppend, Delivered, AttemptFails, MarkDelivered, InEmission
  <2>3. /\ frame'[s].asked = frame[s].asked /\ frame'[s].latest = frame[s].latest
        /\ frame'[s].then = frame[s].then
    BY <1>0, <2>2 DEF Frames
  <2>4. Where(s) = frame[s].then /\ Where(s)' \in {frame[s].then, "mark_failed"}
    BY <2>1, <2>2, <2>3 DEF Where
  <2>. QED  BY <1>1, <1>3, <2>3, <2>4, MovesAns DEF BeforeStep, AfterStep, Waiting
<1>5. CASE ~(EmitAppend(s) \/ Delivered(s) \/ AttemptFails(s) \/ MarkDelivered(s))
  <2>1. \/ pc'[s] \in {"none", "finished", "unexpected", "delivery_error", "fallback", "verdict",
                      "schedule"}
        \/ Emit(s, frame[s], Ev(VerdictType[frame[s].verdict], 0), "settle")
    <3>1. CASE StoreFault(s) \/ StepRaises(s) \/ EmitDuplicate(s) \/ RowGone(s)
      BY <1>0, <3>1 DEF StoreFault, StepRaises, EmitDuplicate, RowGone, Raise, Finish
    <3>2. CASE Settle(s) \/ ScheduleAnalysis(s) \/ Fallback(s)
      BY <1>0, <3>2 DEF Settle, ScheduleAnalysis, Fallback, Finish
    <3>3. CASE EmitVerdict(s) \/ Unexpected(s) \/ DoneCallback(s) \/ MarkFailed(s) \/ DeliveryError(s)
      BY <1>0, <3>3 DEF EmitVerdict, Unexpected, DoneCallback, MarkFailed, DeliveryError
    <3>. QED  BY <1>5, <3>1, <3>2, <3>3
  <2>2. Where(s)' \notin Places
    <3>1. Where(s)' \in {"none", "finished", "unexpected", "delivery_error", "fallback", "verdict",
                         "schedule", "settle"}
      BY <1>0, <2>1, EmitAns DEF Where, InEmission
    <3>. QED  BY <3>1 DEF Places, BeforeStep, AfterStep, Waiting
  <2>. QED  BY <1>1, <1>3, <2>2, OverAns DEF SameTalk
<1>. QED
  BY <1>4, <1>5

-----------------------------------------------------------------------------
(* The operator, the rows and the process *)

(* Only the answer of the open question is taken.                          *)
LEMMA ApplyReplyAns ==
  ASSUME AnswersInv, TypeOK, NEW s \in Sessions, NEW r \in 1..MaxSteps, ApplyReply(s, r)
  PROVE  AnsInv(s)'
<1>0. /\ AnsInv(s) /\ given[s] \in Seq(Nat) /\ accepted \in [Sessions -> SUBSET Nat]
      /\ question \in [Sessions -> Nat] /\ pending \in [Sessions -> Nat]
      /\ status \in [Sessions -> Status]
  BY DEF TypeOK, AnswersInv
<1>1. /\ question[s] = r /\ r # 0 /\ question'[s] = 0 /\ pending'[s] = r /\ status'[s] = "running"
      /\ accepted'[s] = accepted[s] \cup {r}
      /\ UNCHANGED <<given, pc, frame>>
  BY <1>0 DEF ApplyReply, MayReply
<1>2. InOrder(s)' /\ Where(s)' = Where(s) /\ Heard(s)' = Heard(s)
  BY <1>0, <1>1 DEF AnsInv, InOrder, Where, Heard
<1>3. Where(s) \notin BeforeStep \cup AfterStep
  BY <1>0, <1>1 DEF AnsInv, Held
<1>4. Where(s) \in Waiting => Open(s)'
  BY <1>0, <1>1, <1>2 DEF AnsInv, Open
<1>. QED
  BY <1>1, <1>2, <1>3, <1>4 DEF AnsInv

(* Rows that expire are not asking.                                        *)
LEMMA ExpiredAns ==
  ASSUME AnswersInv, SlotInv, NEW E \in SUBSET Expirable, NEW t \in E, NEW u,
         Forget(E, u), status'[t] = "gone", pc'[t] = pc[t],
         UNCHANGED <<frame, accepted, given>>
  PROVE  AnsInv(t)'
<1>1. t \in Sessions /\ status[t] \in Terminal
  BY DEF Expirable
<1>2. Where(t) \notin Unsettled
  BY <1>1 DEF SlotInv, ActiveStatus, Terminal
<1>3. Where(t)' \notin Places
  BY <1>2 DEF Where, Places, BeforeStep, AfterStep, Waiting, Unsettled
<1>. QED
  BY <1>1, <1>3, OverAns

LEMMA ClientAns ==
  ASSUME AnswersInv, SlotInv, NEW s \in Sessions, Client(s)
  PROVE  AnswersInv'
<1>0. TypeOK
  BY DEF SlotInv
<1>1. ASSUME NEW r \in 1..MaxSteps, ApplyReply(s, r) PROVE AnswersInv'
  <2>1. r \in Nat
    OBVIOUS
  <2>2. \A t \in Sessions \ {s} : Still(t)
    BY <1>0, <1>1, <2>1, OthersStill
  <2>3. AnsInv(s)'
    BY <1>0, <1>1, ApplyReplyAns
  <2>. QED  BY <2>2, <2>3, StillAns DEF AnswersInv
<1>2. ASSUME NEW E \in SUBSET Expirable, CreateSession(s, E) PROVE AnswersInv'
  <2>1. /\ Forget(E, {s}) /\ UNCHANGED <<frame, accepted, given>> /\ status[s] = "absent"
        /\ pc' = [pc EXCEPT ![s] = "creating"]
        /\ status' = [t \in Sessions |-> IF t = s THEN "created"
                                         ELSE IF t \in E THEN "gone" ELSE status[t]]
        /\ s \notin E
    BY <1>2 DEF CreateSession, Expirable, Terminal
  <2>2. \A t \in E : t \in Sessions /\ t # s /\ status'[t] = "gone" /\ pc'[t] = pc[t]
    BY <1>0, <2>1 DEF Expirable, TypeOK
  <2>3. \A t \in E : AnsInv(t)'
    BY <2>1, <2>2, ExpiredAns
  <2>4. \A t \in Sessions \ (E \cup {s}) : Still(t)
    BY <1>0, <2>1 DEF Still, SameTalk, Forget, TypeOK
  <2>5. AnsInv(s)'
    <3>1. InOrder(s) /\ Held(s)
      BY <2>1 DEF AnswersInv, AnsInv
    <3>2. SameTalk(s) /\ pc'[s] = "creating" /\ status'[s] = "created" /\ frame'[s] = frame[s]
      BY <1>0, <2>1 DEF SameTalk, Forget, TypeOK
    <3>3. InOrder(s)' /\ Held(s)'
      BY <3>1, <3>2 DEF InOrder, Held, SameTalk, Heard
    <3>. QED
      BY <3>2, <3>3 DEF AnsInv, Where, InEmission, AfterStep, Waiting
  <2>. QED  BY <2>3, <2>4, <2>5, StillAns DEF AnswersInv
<1>. QED
  BY <1>1, <1>2 DEF Client

LEMMA RestartAns ==
  ASSUME AnswersInv, Restart
  PROVE  AnswersInv'
<1>. SUFFICES ASSUME NEW t \in Sessions PROVE AnsInv(t)'
  BY DEF AnswersInv
<1>1. /\ pc'[t] = "none" /\ frame'[t] = NoFrame /\ SameTalk(t) /\ status'[t] = status[t]
      /\ AnsInv(t)
  BY DEF Restart, stored, SameTalk, AnswersInv
<1>2. CASE status[t] # "absent"
  <2>1. Where(t)' \notin Places
    BY <1>1 DEF Where, InEmission, Places, BeforeStep, AfterStep, Waiting
  <2>. QED  BY <1>1, <1>2, <2>1, OverAns DEF SameTalk
<1>3. CASE status[t] = "absent"
  <2>1. Held(t) /\ Heard(t) = 0 /\ Heard(t)' = 0 /\ InOrder(t)'
    BY <1>1, <1>3 DEF AnsInv, SameTalk, Heard, InOrder
  <2>2. Held(t)'
    BY <1>1, <2>1 DEF Held, SameTalk, NoFrame
  <2>. QED
    BY <1>1, <2>1, <2>2 DEF AnsInv, Where, InEmission, BeforeStep, AfterStep, Waiting, NoFrame
<1>. QED
  BY <1>2, <1>3

LEMMA AnswersInvStep == AnswersInv /\ SlotInv /\ [Next]_vars => AnswersInv'
<1>. SUFFICES ASSUME AnswersInv, SlotInv, [Next]_vars PROVE AnswersInv'
  OBVIOUS
<1>0. TypeOK /\ 0 \in Nat
  BY DEF SlotInv
<1>1. ASSUME NEW s \in Sessions, Runner(s) \/ StoreFault(s) PROVE AnswersInv'
  <2>1. \A t \in Sessions \ {s} : Still(t)
    BY <1>0, <1>1, OthersStill
  <2>2. AnsInv(s)'
    BY <1>0, <1>1, ToStepAns, RunStepAns, DispatchAns, AskUserAns, PopReplyAns, RestAns DEF Runner
  <2>. QED  BY <2>1, <2>2, StillAns DEF AnswersInv
<1>2. ASSUME NEW E \in SUBSET Expirable, ListSessions(E) PROVE AnswersInv'
  <2>1. /\ Forget(E, {}) /\ UNCHANGED <<pc, frame, accepted, given>>
        /\ status' = [t \in Sessions |-> IF t \in E THEN "gone" ELSE status[t]]
    BY <1>2 DEF ListSessions
  <2>2. \A t \in E : t \in Sessions /\ status'[t] = "gone"
    BY <2>1 DEF Expirable
  <2>3. \A t \in E : AnsInv(t)'
    BY <2>1, <2>2, ExpiredAns
  <2>4. \A t \in Sessions \ E : Still(t)
    BY <2>1 DEF Still, SameTalk, Forget
  <2>. QED  BY <2>3, <2>4, StillAns DEF AnswersInv
<1>3. CASE UNCHANGED vars
  <2>1. \A t \in Sessions : Still(t)
    BY <1>3 DEF vars, stored, Still, SameTalk
  <2>. QED  BY <2>1, StillAns DEF AnswersInv
<1>. QED
  BY <1>1, <1>2, <1>3, ClientAns, RestartAns DEF Next

(* The agent is handed the answer of every question it asked, once, in the *)
(* order of the questions, and only answers that POST /v1/replies took.    *)
THEOREM AnswersAlwaysMatch == Spec => []AnswersMatchQuestions
<1>1. Spec => []AnswersInv
  BY AnswersInvInit, AnswersInvStep, SpecSlotInv, PTL DEF Spec
<1>. QED
  BY <1>1, AnswersInvImplies, PTL
=============================================================================
