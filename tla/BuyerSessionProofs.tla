------------------------- MODULE BuyerSessionProofs -------------------------
(***************************************************************************)
(* Theorems about BuyerSession, for any set of sessions, any limit, any    *)
(* number of attempts, of repository faults and of restarts.               *)
(***************************************************************************)
EXTENDS BuyerSession, FiniteSetTheorems, TLAPS

(* Entering _emit_event keeps the frame and the label well-typed.          *)
LEMMA EmitType ==
  ASSUME TypeOK, NEW s \in Sessions, NEW f \in Frames, NEW e \in Events,
         NEW l \in Labels, Emit(s, f, e, l)
  PROVE  frame' \in [Sessions -> Frames] /\ pc' \in [Sessions -> Labels]
<1>1. 0 \in 0..(MaxAttempts - 1)
  BY ConstantsAssumption DEF ConstantsAssumption
<1>2. Emitting(f, e, l) \in Frames
  BY <1>1 DEF Emitting, Frames
<1>. QED
  BY <1>2 DEF Emit, Goto, TypeOK, Labels

(* So does the end of a coroutine.                                         *)
LEMMA FinishType ==
  ASSUME TypeOK, NEW s \in Sessions, Finish(s)
  PROVE  /\ frame' \in [Sessions -> Frames] /\ pc' \in [Sessions -> Labels]
         /\ task' \in [Sessions -> {"none", "live", "done"}]
<1>1. NoFrame \in Frames
  BY ConstantsAssumption DEF ConstantsAssumption, NoFrame, Frames, Results, Terminal, Events, EventTypes,
     Ev, Labels
<1>. QED
  BY <1>1 DEF Finish, Goto, TypeOK, Labels

(* And an exception.                                                       *)
LEMMA RaiseType ==
  ASSUME TypeOK, NEW s \in Sessions, Raise(s)
  PROVE  /\ frame' \in [Sessions -> Frames] /\ pc' \in [Sessions -> Labels]
         /\ task' \in [Sessions -> {"none", "live", "done"}]
<1>1. CASE frame[s].handling
  BY <1>1, FinishType DEF Raise
<1>2. CASE ~frame[s].handling
  <2>1. /\ frame \in [Sessions -> Frames] /\ pc \in [Sessions -> Labels]
        /\ task \in [Sessions -> {"none", "live", "done"}]
    BY DEF TypeOK
  <2>2. [frame[s] EXCEPT !.handling = TRUE] \in Frames
    <3>1. frame[s] \in Frames
      BY <2>1
    <3>. QED  BY <3>1 DEF Frames
  <2>3. /\ pc' = [pc EXCEPT ![s] = "unexpected"] /\ task' = task
        /\ frame' = [frame EXCEPT ![s] = [frame[s] EXCEPT !.handling = TRUE]]
    BY <1>2 DEF Raise, Goto
  <2>4. "unexpected" \in Labels
    BY DEF Labels
  <2>. QED  BY <2>1, <2>2, <2>3, <2>4
<1>. QED
  BY <1>1, <1>2

(* The events the runner emits are events.                                 *)
LEMMA EventType ==
  ASSUME NEW n \in Nat, NEW v \in Terminal
  PROVE  /\ Ev("start", n) \in Events /\ Ev("step-started", n) \in Events
         /\ Ev("step-finished", n) \in Events /\ Ev("ask-user", n) \in Events
         /\ Ev("payment-ready", n) \in Events /\ Ev("payment-unverified", n) \in Events
         /\ Ev("scenario-failed-callback-delivery", n) \in Events
         /\ Ev("scenario-failed-unhandled", n) \in Events
         /\ Ev(VerdictType[v], n) \in Events
  BY DEF Ev, Events, EventTypes

LEMMA InitType == Init => TypeOK
<1>1. NoFrame \in Frames
  BY ConstantsAssumption DEF ConstantsAssumption, NoFrame, Frames, Results, Terminal,
     Events, EventTypes, Ev, Labels
<1>. QED
  BY <1>1 DEF Init, TypeOK, Status, Labels

(* The store's actions, which touch no frame.                              *)
LEMMA StoreType ==
  ASSUME TypeOK, NEW s \in Sessions, NEW E \in SUBSET Expirable, NEW r \in Nat,
         CreateSession(s, E) \/ ListSessions(E) \/ ApplyReply(s, r)
  PROVE  TypeOK'
<1>1. CASE CreateSession(s, E)
  <2>1. status' \in [Sessions -> Status] /\ pc' \in [Sessions -> Labels]
    BY <1>1 DEF CreateSession, TypeOK, Status, ActiveStatus, Labels
  <2>2. /\ question' \in [Sessions -> Nat] /\ pending' \in [Sessions -> Nat]
        /\ log' \in [Sessions -> Seq(Events)] /\ wake' \in [Sessions -> BOOLEAN]
        /\ task' \in [Sessions -> {"none", "live", "done"}] /\ runtime' \in SUBSET Sessions
    BY <1>1 DEF CreateSession, Forget, TypeOK
  <2>. QED  BY <1>1, <2>1, <2>2 DEF CreateSession, TypeOK
<1>2. CASE ListSessions(E)
  <2>1. status' \in [Sessions -> Status]
    BY <1>2 DEF ListSessions, TypeOK, Status
  <2>2. /\ question' \in [Sessions -> Nat] /\ pending' \in [Sessions -> Nat]
        /\ log' \in [Sessions -> Seq(Events)] /\ wake' \in [Sessions -> BOOLEAN]
        /\ task' \in [Sessions -> {"none", "live", "done"}] /\ runtime' \in SUBSET Sessions
    BY <1>2 DEF ListSessions, Forget, TypeOK
  <2>. QED  BY <1>2, <2>1, <2>2 DEF ListSessions, TypeOK
<1>3. CASE ApplyReply(s, r)
  BY <1>3 DEF ApplyReply, TypeOK, Status, ActiveStatus
<1>. QED
  BY <1>1, <1>2, <1>3

(* The steps that enter _emit_event or move on to the next label.          *)
LEMMA StepType ==
  ASSUME TypeOK, NEW s \in Sessions,
         \/ StartTask(s) \/ Boot(s) \/ Authenticate(s) \/ BeginStep(s) \/ RunStep(s)
         \/ Dispatch(s) \/ AskUser(s) \/ Woken(s) \/ EmitVerdict(s) \/ Unexpected(s)
         \/ DoneCallback(s)
  PROVE  TypeOK'
<1>. USE DEF Local, stored
<1>0. frame[s] \in Frames /\ 0 \in Nat
  BY DEF TypeOK
<1>1. CASE StartTask(s)
  BY <1>1 DEF StartTask, TypeOK, Status, ActiveStatus, Labels
<1>2. CASE Boot(s)
  <2>1. frame' \in [Sessions -> Frames] /\ pc' \in [Sessions -> Labels]
    BY <1>0, <1>2, EmitType, EventType DEF Boot, Labels, Terminal
  <2>. QED  BY <1>2, <2>1 DEF Boot, TypeOK
<1>3. CASE Authenticate(s)
  BY <1>3 DEF Authenticate, Goto, TypeOK, Labels
<1>4. CASE BeginStep(s)
  <2>. DEFINE n == frame[s].step + 1
              f == [frame[s] EXCEPT !.step = n]
  <2>1. n \in Nat /\ f \in Frames
    BY <1>0 DEF Frames
  <2>2. Ev("step-started", n) \in Events /\ "run" \in Labels
    BY <2>1 DEF Ev, Events, EventTypes, Labels
  <2>3. Emit(s, f, Ev("step-started", n), "run")
    BY <1>4 DEF BeginStep
  <2>4. frame' \in [Sessions -> Frames] /\ pc' \in [Sessions -> Labels]
    <3>. HIDE DEF n, f
    <3>. QED  BY <2>1, <2>2, <2>3, EmitType
  <2>. QED  BY <1>4, <2>4 DEF BeginStep, TypeOK
<1>5. CASE RunStep(s)
  <2>1. PICK r \in Results :
          Emit(s, [frame[s] EXCEPT !.result = r], Ev("step-finished", frame[s].step), "result")
    BY <1>5 DEF RunStep
  <2>2. [frame[s] EXCEPT !.result = r] \in Frames /\ frame[s].step \in Nat
        /\ frame[s].latest \in Nat
    BY <1>0 DEF Frames
  <2>3. Ev("step-finished", frame[s].step) \in Events /\ "result" \in Labels
    BY <2>2 DEF Ev, Events, EventTypes, Labels
  <2>4. frame' \in [Sessions -> Frames] /\ pc' \in [Sessions -> Labels]
    BY <2>1, <2>2, <2>3, EmitType
  <2>5. given' \in [Sessions -> Seq(Nat)]
    BY <1>5, <2>2 DEF RunStep, TypeOK
  <2>. QED  BY <1>5, <2>4, <2>5 DEF RunStep, TypeOK
<1>6. CASE Dispatch(s)
  <2>. DEFINE f == [frame[s] EXCEPT !.latest = 0, !.result = NoFrame.result]
              calm == [f EXCEPT !.recovering = FALSE]
  <2>1. NoFrame.result \in Results
    BY DEF NoFrame, Results
  <2>2. f \in Frames
    BY <1>0, <2>1 DEF Frames
  <2>3. /\ calm \in Frames
        /\ [calm EXCEPT !.verdict = "completed"] \in Frames
        /\ [calm EXCEPT !.verdict = "unverified"] \in Frames
        /\ [f EXCEPT !.recovering = TRUE] \in Frames
        /\ [f EXCEPT !.verdict = "failed"] \in Frames
    <3>. HIDE DEF f
    <3>. QED  BY <2>2 DEF Frames, Terminal
  <2>4. /\ Ev("payment-ready", 0) \in Events /\ Ev("payment-unverified", 0) \in Events
        /\ {"ask", "verdict", "loop"} \subseteq Labels
    BY DEF Ev, Events, EventTypes, Labels
  <2>5. \/ frame' = [frame EXCEPT ![s] = calm] /\ Goto(s, "ask")
        \/ Emit(s, [calm EXCEPT !.verdict = "completed"], Ev("payment-ready", 0), "verdict")
        \/ Emit(s, [calm EXCEPT !.verdict = "unverified"], Ev("payment-unverified", 0), "verdict")
        \/ frame' = [frame EXCEPT ![s] = [f EXCEPT !.recovering = TRUE]] /\ Goto(s, "loop")
        \/ frame' = [frame EXCEPT ![s] = [f EXCEPT !.verdict = "failed"]] /\ Goto(s, "verdict")
    BY <1>6 DEF Dispatch
  <2>6. frame' \in [Sessions -> Frames] /\ pc' \in [Sessions -> Labels]
    <3>. HIDE DEF f, calm
    <3>1. CASE frame' = [frame EXCEPT ![s] = calm] /\ Goto(s, "ask")
      BY <2>3, <2>4, <3>1 DEF Goto, TypeOK
    <3>2. CASE Emit(s, [calm EXCEPT !.verdict = "completed"], Ev("payment-ready", 0), "verdict")
      BY <2>3, <2>4, <3>2, EmitType
    <3>3. CASE Emit(s, [calm EXCEPT !.verdict = "unverified"], Ev("payment-unverified", 0),
                    "verdict")
      BY <2>3, <2>4, <3>3, EmitType
    <3>4. CASE /\ frame' = [frame EXCEPT ![s] = [f EXCEPT !.recovering = TRUE]]
               /\ Goto(s, "loop")
      BY <2>3, <2>4, <3>4 DEF Goto, TypeOK
    <3>5. CASE /\ frame' = [frame EXCEPT ![s] = [f EXCEPT !.verdict = "failed"]]
               /\ Goto(s, "verdict")
      BY <2>3, <2>4, <3>5 DEF Goto, TypeOK
    <3>. QED  BY <2>5, <3>1, <3>2, <3>3, <3>4, <3>5
  <2>. QED  BY <1>6, <2>6 DEF Dispatch, TypeOK
<1>7. CASE AskUser(s)
  <2>. DEFINE n == frame[s].asked + 1
              f == [frame[s] EXCEPT !.asked = n]
  <2>1. n \in Nat /\ f \in Frames
    BY <1>0 DEF Frames
  <2>2. Ev("ask-user", n) \in Events /\ "await" \in Labels
    BY <2>1 DEF Ev, Events, EventTypes, Labels
  <2>3. Emit(s, f, Ev("ask-user", n), "await") /\ question' = [question EXCEPT ![s] = n]
    BY <1>7 DEF AskUser
  <2>4. frame' \in [Sessions -> Frames] /\ pc' \in [Sessions -> Labels]
        /\ question' \in [Sessions -> Nat]
    <3>. HIDE DEF n, f
    <3>. QED  BY <2>1, <2>2, <2>3, EmitType DEF TypeOK
  <2>. QED  BY <1>7, <2>4 DEF AskUser, TypeOK, Status, ActiveStatus
<1>8. CASE Woken(s)
  BY <1>8 DEF Woken, Goto, TypeOK, Labels
<1>9. CASE EmitVerdict(s)
  <2>1. frame[s].verdict \in Terminal
    BY <1>0 DEF Frames
  <2>2. frame' \in [Sessions -> Frames] /\ pc' \in [Sessions -> Labels]
    BY <1>0, <1>9, <2>1, EmitType, EventType DEF EmitVerdict, Labels
  <2>. QED  BY <1>9, <2>2 DEF EmitVerdict, TypeOK
<1>10. CASE Unexpected(s)
  <2>1. [frame[s] EXCEPT !.verdict = "failed"] \in Frames
    BY <1>0 DEF Frames, Terminal
  <2>. QED  BY <1>10, <2>1 DEF Unexpected, Goto, TypeOK, Labels
<1>11. CASE DoneCallback(s)
  BY <1>11 DEF DoneCallback, Goto, TypeOK, Labels
<1>. QED
  BY <1>1, <1>2, <1>3, <1>4, <1>5, <1>6, <1>7, <1>8, <1>9, <1>10, <1>11

(* The steps that can end the coroutine, and those of _emit_event.         *)
LEMMA EndType ==
  ASSUME TypeOK, NEW s \in Sessions,
         \/ StepRaises(s) \/ PopReply(s) \/ Settle(s) \/ ScheduleAnalysis(s)
         \/ RowGone(s) \/ StoreFault(s)
  PROVE  TypeOK'
<1>. USE DEF stored
<1>0. frame[s] \in Frames
  BY DEF TypeOK
<1>1. CASE StepRaises(s)
  BY <1>1, RaiseType DEF StepRaises, TypeOK
<1>2. CASE PopReply(s)
  <2>1. CASE pending[s] = 0
    BY <1>2, <2>1, FinishType DEF PopReply, TypeOK
  <2>2. CASE pending[s] # 0
    <3>1. [frame[s] EXCEPT !.latest = pending[s]] \in Frames
      BY <1>0 DEF Frames, TypeOK
    <3>2. /\ frame' = [frame EXCEPT ![s] = [frame[s] EXCEPT !.latest = pending[s]]]
          /\ pending' = [pending EXCEPT ![s] = 0] /\ pc' = [pc EXCEPT ![s] = "loop"]
          /\ UNCHANGED <<task, status, question, log, wake, runtime, analysis, inbox,
                         accepted, given, faults, restarts>>
      BY <1>2, <2>2 DEF PopReply, Goto
    <3>. QED  BY <3>1, <3>2 DEF TypeOK, Labels
  <2>. QED  BY <2>1, <2>2
<1>3. CASE Settle(s)
  <2>1. frame[s].verdict \in Status
    BY <1>0 DEF Frames, Status
  <2>2. status' \in [Sessions -> Status] /\ runtime' \in SUBSET Sessions
    BY <1>3, <2>1 DEF Settle, SetStatus, TypeOK
  <2>3. /\ frame' \in [Sessions -> Frames] /\ pc' \in [Sessions -> Labels]
        /\ task' \in [Sessions -> {"none", "live", "done"}]
    BY <1>3, FinishType DEF Settle, Goto, TypeOK, Labels
  <2>4. UNCHANGED <<question, pending, log, wake, analysis, inbox, accepted, given,
                    faults, restarts>>
    BY <1>3 DEF Settle
  <2>. QED  BY <2>2, <2>3, <2>4 DEF TypeOK
<1>4. CASE ScheduleAnalysis(s)
  BY <1>4, FinishType DEF ScheduleAnalysis, TypeOK
<1>5. CASE RowGone(s)
  BY <1>5, FinishType DEF RowGone, TypeOK
<1>6. CASE StoreFault(s)
  <2>1. /\ frame' \in [Sessions -> Frames] /\ pc' \in [Sessions -> Labels]
        /\ task' \in [Sessions -> {"none", "live", "done"}]
    BY <1>6, FinishType, RaiseType DEF StoreFault, Goto, TypeOK, Labels
  <2>. QED  BY <1>6, <2>1 DEF StoreFault, TypeOK
<1>. QED
  BY <1>1, <1>2, <1>3, <1>4, <1>5, <1>6

LEMMA EmissionType ==
  ASSUME TypeOK, NEW s \in Sessions, Emission(s)
  PROVE  TypeOK'
<1>. USE DEF stored, Local
<1>0. /\ frame[s] \in Frames /\ frame[s].event \in Events /\ frame[s].then \in Labels
      /\ frame[s].tries \in 0..(MaxAttempts - 1)
  BY DEF TypeOK, Frames
<1>1. CASE EmitAppend(s)
  BY <1>0, <1>1 DEF EmitAppend, Goto, TypeOK, Labels
<1>2. CASE EmitDuplicate(s)
  BY <1>2, RaiseType DEF EmitDuplicate, TypeOK
<1>3. CASE Delivered(s)
  <2>1. 0 \in 0..(MaxAttempts - 1)
    BY ConstantsAssumption DEF ConstantsAssumption
  <2>2. [frame[s] EXCEPT !.tries = 0] \in Frames
    BY <1>0, <2>1 DEF Frames
  <2>3. inbox' \in [Sessions -> Seq(Events)]
    BY <1>0, <1>3 DEF Delivered, Receive, TypeOK
  <2>4. frame' \in [Sessions -> Frames] /\ pc' \in [Sessions -> Labels]
    BY <1>3, <2>2 DEF Delivered, Goto, TypeOK, Labels
  <2>. QED  BY <1>3, <2>3, <2>4 DEF Delivered, TypeOK
<1>4. CASE AttemptFails(s)
  <2>1. inbox' \in [Sessions -> Seq(Events)]
    <3>1. inbox \in [Sessions -> Seq(Events)] /\ (Receive(s) \/ UNCHANGED inbox)
      BY <1>4 DEF AttemptFails, TypeOK
    <3>2. Append(inbox[s], frame[s].event) \in Seq(Events) /\ inbox[s] \in Seq(Events)
      BY <1>0, <3>1
    <3>. QED  BY <3>1, <3>2 DEF Receive
  <2>2. CASE frame[s].tries + 1 = MaxAttempts
    BY <1>4, <2>1, <2>2 DEF AttemptFails, Goto, TypeOK, Labels
  <2>3. CASE frame[s].tries + 1 # MaxAttempts
    <3>1. frame[s].tries + 1 \in 0..(MaxAttempts - 1)
      BY <1>0, <2>3, ConstantsAssumption DEF ConstantsAssumption
    <3>2. [frame[s] EXCEPT !.tries = frame[s].tries + 1] \in Frames
      BY <1>0, <3>1 DEF Frames
    <3>. QED  BY <1>4, <2>1, <2>3, <3>2 DEF AttemptFails, TypeOK
  <2>. QED  BY <2>2, <2>3
<1>5. CASE MarkDelivered(s)
  BY <1>0, <1>5 DEF MarkDelivered, Goto, TypeOK
<1>6. CASE MarkFailed(s)
  BY <1>6 DEF MarkFailed, Goto, TypeOK, Labels
<1>7. CASE DeliveryError(s)
  BY <1>7 DEF DeliveryError, SetStatus, Goto, TypeOK, Labels, Status, Terminal
<1>8. CASE Fallback(s)
  <2>1. Ev(IF frame[s].handling THEN "scenario-failed-unhandled"
           ELSE "scenario-failed-callback-delivery", 0) \in Events
    BY DEF Ev, Events, EventTypes
  <2>. QED  BY <1>8, <2>1, FinishType DEF Fallback, TypeOK
<1>. QED
  BY <1>1, <1>2, <1>3, <1>4, <1>5, <1>6, <1>7, <1>8 DEF Emission

LEMMA RestartType == TypeOK /\ Restart => TypeOK'
<1>1. NoFrame \in Frames
  BY ConstantsAssumption DEF ConstantsAssumption, NoFrame, Frames, Results, Terminal,
     Events, EventTypes, Ev, Labels
<1>. QED
  BY <1>1 DEF Restart, TypeOK, Labels, stored

(* Every reachable state is well-typed.                                    *)
THEOREM SpecTypeOK == Spec => []TypeOK
<1>1. TypeOK /\ [Next]_vars => TypeOK'
  <2>. SUFFICES ASSUME TypeOK, [Next]_vars PROVE TypeOK'
    OBVIOUS
  <2>1. ASSUME NEW s \in Sessions, Runner(s) PROVE TypeOK'
    BY <2>1, StepType, EndType, EmissionType DEF Runner
  <2>2. ASSUME NEW s \in Sessions, Client(s) PROVE TypeOK'
    BY <2>2, StoreType DEF Client
  <2>3. ASSUME NEW s \in Sessions, StoreFault(s) PROVE TypeOK'
    BY <2>3, EndType
  <2>4. ASSUME NEW E \in SUBSET Expirable, ListSessions(E) PROVE TypeOK'
    BY <2>4 DEF ListSessions, Forget, TypeOK, Status, Expirable
  <2>5. CASE UNCHANGED vars
    BY <2>5 DEF vars, stored, TypeOK
  <2>. QED
    BY <2>1, <2>2, <2>3, <2>4, <2>5, RestartType DEF Next
<1>. QED
  BY <1>1, InitType, PTL DEF Spec

-----------------------------------------------------------------------------
(* BrowserNotShared.  The store counts rows and runtime entries; the       *)
(* browser is driven by coroutines.  The invariant ties the two: where the *)
(* coroutine is before it settles, the row is open, and an open row whose  *)
(* coroutine runs has its entries, so it is counted.                       *)

InEmission == {"append", "deliver", "mark_delivered"}
Where(s) == IF pc[s] \in InEmission THEN frame[s].then ELSE pc[s]
Unsettled == {"creating", "boot", "auth", "loop", "run", "result", "ask", "await", "pop"}
Active == {s \in Sessions : IsActive(s)}

SlotInv ==
  /\ TypeOK
  /\ \A s \in Sessions : Where(s) \in Unsettled => status[s] \in ActiveStatus
  /\ \A s \in Sessions : HasRunner(s) /\ status[s] \in ActiveStatus => IsActive(s)
  /\ Cardinality(Active) <= MaxActive

LEMMA ActiveFinite == \A S \in SUBSET Sessions : IsFiniteSet(S) /\ Cardinality(S) \in Nat
  BY ConstantsAssumption, FS_Subset, FS_CardinalityType DEF ConstantsAssumption

(* The invariant bounds the coroutines that drive the browser.             *)
LEMMA SlotInvImplies == SlotInv => BrowserNotShared
<1>. SUFFICES ASSUME SlotInv PROVE BrowserNotShared
  OBVIOUS
<1>. DEFINE D == {s \in Sessions : HasRunner(s) /\ status[s] \in ActiveStatus}
<1>1. D \subseteq Active /\ Active \subseteq Sessions
  BY DEF SlotInv, Active
<1>2. Cardinality(D) <= Cardinality(Active)
  BY <1>1, ActiveFinite, FS_Subset
<1>. QED
  BY <1>1, <1>2, ActiveFinite, ConstantsAssumption DEF SlotInv, BrowserNotShared,
     ConstantsAssumption

LEMMA SlotInvInit == Init => SlotInv
<1>. SUFFICES ASSUME Init PROVE SlotInv
  OBVIOUS
<1>1. Active = {}
  BY DEF Init, Active, IsActive, ActiveStatus
<1>2. Cardinality(Active) <= MaxActive
  BY <1>1, FS_EmptySet, ConstantsAssumption DEF ConstantsAssumption
<1>3. \A s \in Sessions : ~(Where(s) \in Unsettled) /\ ~HasRunner(s)
  BY DEF Init, Where, Unsettled, InEmission, HasRunner
<1>. QED
  BY <1>2, <1>3, InitType DEF SlotInv

(* A step under which no session becomes active keeps the count.           *)
LEMMA CountKept ==
  ASSUME SlotInv, \A s \in Sessions : IsActive(s)' => IsActive(s)
  PROVE  (Cardinality(Active) <= MaxActive)'
<1>1. Active' \subseteq Active /\ Active \subseteq Sessions
  BY DEF Active
<1>2. Cardinality(Active') <= Cardinality(Active)
  BY <1>1, ActiveFinite, FS_Subset
<1>. QED
  BY <1>1, <1>2, ActiveFinite, ConstantsAssumption DEF SlotInv, ConstantsAssumption

(* A step of one session that makes it no more active than it was.         *)
OnlyMoves(s) ==
  \A t \in Sessions \ {s} :
    /\ pc'[t] = pc[t] /\ frame'[t] = frame[t] /\ status'[t] = status[t]
    /\ task'[t] = task[t] /\ (t \in runtime' <=> t \in runtime)

LEMMA SlotStep ==
  ASSUME SlotInv, TypeOK', NEW s \in Sessions, OnlyMoves(s),
         Where(s)' \in Unsettled => status'[s] \in ActiveStatus,
         HasRunner(s)' /\ status'[s] \in ActiveStatus => IsActive(s)',
         IsActive(s)' => IsActive(s)
  PROVE  SlotInv'
<1>1. \A t \in Sessions : IsActive(t)' => IsActive(t)
  BY DEF OnlyMoves, IsActive
<1>2. \A t \in Sessions : Where(t)' \in Unsettled => status'[t] \in ActiveStatus
  BY DEF SlotInv, OnlyMoves, Where
<1>3. \A t \in Sessions : HasRunner(t)' /\ status'[t] \in ActiveStatus => IsActive(t)'
  BY DEF SlotInv, OnlyMoves, HasRunner, IsActive
<1>. QED
  BY <1>1, <1>2, <1>3, CountKept DEF SlotInv

(* The steps that change no row and no runtime entry.                      *)
LEMMA QuietSlot ==
  ASSUME SlotInv, TypeOK', NEW s \in Sessions,
         UNCHANGED <<status, task, runtime>>, HasRunner(s),
         \E l \in Labels : pc' = [pc EXCEPT ![s] = l],
         \E f : frame' = [frame EXCEPT ![s] = f],
         Where(s)' \in Unsettled => Where(s) \in Unsettled
  PROVE  SlotInv'
<1>1. OnlyMoves(s)
  BY DEF OnlyMoves, SlotInv, TypeOK
<1>2. IsActive(s)' <=> IsActive(s)
  BY DEF IsActive
<1>. QED
  BY <1>1, <1>2, SlotStep DEF SlotInv

(* The end of a coroutine takes the session out of the count, if anything. *)
LEMMA FinishSlot ==
  ASSUME SlotInv, TypeOK', NEW s \in Sessions, Finish(s), UNCHANGED <<status, runtime>>
  PROVE  SlotInv'
<1>1. OnlyMoves(s) /\ pc'[s] = "finished"
  BY DEF OnlyMoves, SlotInv, TypeOK, Finish, Goto
<1>2. Where(s)' \notin Unsettled /\ ~HasRunner(s)'
  BY <1>1 DEF Where, Unsettled, InEmission, HasRunner
<1>3. task'[s] = task[s] \/ task'[s] = "done"
  BY DEF Finish, SlotInv, TypeOK
<1>4. IsActive(s)' => IsActive(s)
  BY <1>3 DEF IsActive
<1>. QED
  BY <1>1, <1>2, <1>4, SlotStep

LEMMA RaiseSlot ==
  ASSUME SlotInv, TypeOK', NEW s \in Sessions, Raise(s), HasRunner(s),
         UNCHANGED <<status, runtime>>
  PROVE  SlotInv'
<1>1. CASE frame[s].handling
  BY <1>1, FinishSlot DEF Raise
<1>2. CASE ~frame[s].handling
  <2>1. /\ pc' = [pc EXCEPT ![s] = "unexpected"] /\ UNCHANGED task
        /\ frame' = [frame EXCEPT ![s] = [frame[s] EXCEPT !.handling = TRUE]]
    BY <1>2 DEF Raise, Goto
  <2>2. pc'[s] = "unexpected" /\ "unexpected" \in Labels
    BY <2>1 DEF SlotInv, TypeOK, Labels
  <2>3. Where(s)' \notin Unsettled
    BY <2>2 DEF Where, Unsettled, InEmission
  <2>. QED  BY <2>1, <2>2, <2>3, QuietSlot
<1>. QED
  BY <1>1, <1>2

(* The label a session moves to in Emit is "append", and Where is then the *)
(* continuation.                                                           *)
LEMMA EmitSlot ==
  ASSUME SlotInv, TypeOK', NEW s \in Sessions, NEW f \in Frames, NEW e \in Events,
         NEW l \in Labels, Emit(s, f, e, l),
         HasRunner(s), UNCHANGED <<status, task, runtime>>,
         l \in Unsettled => Where(s) \in Unsettled
  PROVE  SlotInv'
<1>1. /\ pc' = [pc EXCEPT ![s] = "append"] /\ "append" \in Labels
      /\ frame' = [frame EXCEPT ![s] = Emitting(f, e, l)]
  BY DEF Emit, Goto, Labels
<1>2. Emitting(f, e, l).then = l
  BY DEF Emitting, Frames
<1>3. pc'[s] = "append" /\ frame'[s].then = l
  BY <1>1, <1>2 DEF SlotInv, TypeOK
<1>4. Where(s)' = l
  BY <1>3 DEF Where, InEmission
<1>. QED
  BY <1>1, <1>4, QuietSlot

LEMMA RunnerQuietSlot ==
  ASSUME SlotInv, TypeOK', NEW s \in Sessions,
         \/ Boot(s) \/ Authenticate(s) \/ BeginStep(s) \/ RunStep(s) \/ Dispatch(s)
         \/ Woken(s) \/ EmitVerdict(s) \/ Unexpected(s)
  PROVE  SlotInv'
<1>. USE DEF Local, stored, At, Goto
<1>0. /\ TypeOK /\ frame[s] \in Frames /\ frame[s].verdict \in Terminal
      /\ frame' \in [Sessions -> Frames] /\ pc \in [Sessions -> Labels]
      /\ frame \in [Sessions -> Frames]
  BY DEF SlotInv, TypeOK, Frames
<1>1. CASE Boot(s)
  <2>1. HasRunner(s) /\ Where(s) \in Unsettled
    BY <1>1 DEF Boot, HasRunner, Where, InEmission, Unsettled
  <2>. QED  BY <1>0, <1>1, <2>1, EmitSlot, EventType DEF Boot, Labels
<1>2. CASE Authenticate(s)
  <2>1. HasRunner(s) /\ Where(s) \in Unsettled
    BY <1>2 DEF Authenticate, HasRunner, Where, InEmission, Unsettled
  <2>2. frame' = [frame EXCEPT ![s] = frame[s]] /\ "loop" \in Labels
    BY <1>0, <1>2 DEF Authenticate, Labels
  <2>. QED  BY <1>2, <2>1, <2>2, QuietSlot DEF Authenticate
<1>3. CASE BeginStep(s)
  <2>1. HasRunner(s) /\ Where(s) \in Unsettled
    BY <1>3 DEF BeginStep, HasRunner, Where, InEmission, Unsettled
  <2>. DEFINE n == frame[s].step + 1
              f == [frame[s] EXCEPT !.step = n]
  <2>2. n \in Nat /\ f \in Frames
    BY <1>0 DEF Frames
  <2>3. Ev("step-started", n) \in Events /\ "run" \in Labels
    BY <2>2 DEF Ev, Events, EventTypes, Labels
  <2>4. Emit(s, f, Ev("step-started", n), "run") /\ UNCHANGED <<status, task, runtime>>
    BY <1>3 DEF BeginStep
  <2>. HIDE DEF n, f
  <2>. QED  BY <2>1, <2>2, <2>3, <2>4, EmitSlot
<1>4. CASE RunStep(s)
  <2>1. HasRunner(s) /\ Where(s) \in Unsettled
    BY <1>4 DEF RunStep, HasRunner, Where, InEmission, Unsettled
  <2>2. PICK r \in Results :
          Emit(s, [frame[s] EXCEPT !.result = r], Ev("step-finished", frame[s].step), "result")
    BY <1>4 DEF RunStep
  <2>3. [frame[s] EXCEPT !.result = r] \in Frames /\ frame[s].step \in Nat
    BY <1>0 DEF Frames
  <2>4. Ev("step-finished", frame[s].step) \in Events /\ "result" \in Labels
    BY <2>3 DEF Ev, Events, EventTypes, Labels
  <2>5. UNCHANGED <<status, task, runtime>>
    BY <1>4 DEF RunStep
  <2>. QED  BY <2>1, <2>2, <2>3, <2>4, <2>5, EmitSlot
<1>5. CASE Dispatch(s)
  <2>1. HasRunner(s) /\ Where(s) \in Unsettled
    BY <1>5 DEF Dispatch, HasRunner, Where, InEmission, Unsettled
  <2>2. \E l \in {"append", "ask", "loop", "verdict"} : pc' = [pc EXCEPT ![s] = l]
    BY <1>5 DEF Dispatch, Emit
  <2>3. \E f : frame' = [frame EXCEPT ![s] = f]
    BY <1>5 DEF Dispatch, Emit
  <2>4. UNCHANGED <<status, task, runtime>>
    BY <1>5 DEF Dispatch
  <2>. QED  BY <2>1, <2>2, <2>3, <2>4, QuietSlot DEF Labels
<1>6. CASE Woken(s)
  <2>1. HasRunner(s) /\ Where(s) \in Unsettled
    BY <1>6 DEF Woken, HasRunner, Where, InEmission, Unsettled
  <2>2. frame' = [frame EXCEPT ![s] = frame[s]] /\ "pop" \in Labels
    BY <1>0, <1>6 DEF Woken, Labels
  <2>. QED  BY <1>6, <2>1, <2>2, QuietSlot DEF Woken
<1>7. CASE EmitVerdict(s)
  <2>1. HasRunner(s) /\ "settle" \in Labels /\ "settle" \notin Unsettled
    BY <1>7 DEF EmitVerdict, HasRunner, Labels, Unsettled
  <2>. QED  BY <1>0, <1>7, <2>1, EmitSlot, EventType DEF EmitVerdict
<1>8. CASE Unexpected(s)
  <2>1. HasRunner(s)
    BY <1>8 DEF Unexpected, HasRunner
  <2>2. frame' = [frame EXCEPT ![s] = [frame[s] EXCEPT !.verdict = "failed"]]
        /\ pc' = [pc EXCEPT ![s] = "verdict"] /\ "verdict" \in Labels
    BY <1>8 DEF Unexpected, Labels
  <2>3. Where(s)' \notin Unsettled
    BY <1>0, <2>2 DEF Where, InEmission, Unsettled
  <2>. QED  BY <1>8, <2>1, <2>2, <2>3, QuietSlot DEF Unexpected
<1>. QED
  BY <1>1, <1>2, <1>3, <1>4, <1>5, <1>6, <1>7, <1>8

LEMMA EmissionSlot ==
  ASSUME SlotInv, TypeOK', NEW s \in Sessions, Emission(s)
  PROVE  SlotInv'
<1>. USE DEF Local, stored, At, Goto
<1>0. /\ TypeOK /\ frame[s] \in Frames /\ frame[s].then \in Labels
      /\ pc \in [Sessions -> Labels] /\ frame \in [Sessions -> Frames]
  BY DEF SlotInv, TypeOK, Frames
<1>1. CASE EmitAppend(s)
  <2>1. HasRunner(s) /\ Where(s) = frame[s].then
    BY <1>1 DEF EmitAppend, HasRunner, Where, InEmission
  <2>2. /\ pc' = [pc EXCEPT ![s] = "deliver"] /\ "deliver" \in Labels
        /\ frame' = [frame EXCEPT ![s] = frame[s]] /\ UNCHANGED <<status, task, runtime>>
    BY <1>0, <1>1 DEF EmitAppend, Labels
  <2>3. Where(s)' = frame[s].then
    BY <1>0, <2>2 DEF Where, InEmission
  <2>. QED  BY <2>1, <2>2, <2>3, QuietSlot
<1>2. CASE EmitDuplicate(s)
  <2>1. HasRunner(s) /\ UNCHANGED <<status, runtime>> /\ Raise(s)
    BY <1>2 DEF EmitDuplicate, HasRunner
  <2>. QED  BY <2>1, RaiseSlot
<1>3. CASE Delivered(s)
  <2>1. HasRunner(s) /\ Where(s) = frame[s].then
    BY <1>3 DEF Delivered, HasRunner, Where, InEmission
  <2>2. /\ pc' = [pc EXCEPT ![s] = "mark_delivered"] /\ "mark_delivered" \in Labels
        /\ frame' = [frame EXCEPT ![s] = [frame[s] EXCEPT !.tries = 0]]
        /\ UNCHANGED <<status, task, runtime>>
    BY <1>3 DEF Delivered, Labels
  <2>3. frame'[s].then = frame[s].then
    BY <1>0, <2>2 DEF Frames
  <2>4. Where(s)' = frame[s].then
    BY <1>0, <2>2, <2>3 DEF Where, InEmission
  <2>. QED  BY <2>1, <2>2, <2>4, QuietSlot
<1>4. CASE AttemptFails(s)
  <2>1. HasRunner(s) /\ Where(s) = frame[s].then /\ pc[s] = "deliver"
        /\ UNCHANGED <<status, task, runtime>>
    BY <1>4 DEF AttemptFails, HasRunner, Where, InEmission
  <2>2. CASE frame[s].tries + 1 = MaxAttempts
    <3>1. /\ pc' = [pc EXCEPT ![s] = "mark_failed"] /\ "mark_failed" \in Labels
          /\ frame' = [frame EXCEPT ![s] = frame[s]]
      BY <1>0, <1>4, <2>2 DEF AttemptFails, Labels
    <3>2. Where(s)' \notin Unsettled
      BY <1>0, <3>1 DEF Where, InEmission, Unsettled
    <3>. QED  BY <2>1, <3>1, <3>2, QuietSlot
  <2>3. CASE frame[s].tries + 1 # MaxAttempts
    <3>1. /\ pc' = [pc EXCEPT ![s] = "deliver"] /\ "deliver" \in Labels
          /\ frame' = [frame EXCEPT ![s] = [frame[s] EXCEPT !.tries = frame[s].tries + 1]]
      BY <1>0, <1>4, <2>1, <2>3 DEF AttemptFails, Labels
    <3>2. frame'[s].then = frame[s].then
      BY <1>0, <3>1 DEF Frames
    <3>3. Where(s)' = frame[s].then
      BY <1>0, <3>1, <3>2 DEF Where, InEmission
    <3>. QED  BY <2>1, <3>1, <3>3, QuietSlot
  <2>. QED  BY <2>2, <2>3
<1>5. CASE MarkDelivered(s)
  <2>1. HasRunner(s) /\ Where(s) = frame[s].then
    BY <1>5 DEF MarkDelivered, HasRunner, Where, InEmission
  <2>2. /\ pc' = [pc EXCEPT ![s] = frame[s].then]
        /\ frame' = [frame EXCEPT ![s] = frame[s]] /\ UNCHANGED <<status, task, runtime>>
    BY <1>0, <1>5 DEF MarkDelivered
  <2>3. Where(s)' = frame[s].then
    BY <1>0, <2>2 DEF Where
  <2>. QED  BY <1>0, <2>1, <2>2, <2>3, QuietSlot
<1>6. CASE MarkFailed(s)
  <2>1. HasRunner(s)
    BY <1>6 DEF MarkFailed, HasRunner
  <2>2. /\ pc' = [pc EXCEPT ![s] = "delivery_error"] /\ "delivery_error" \in Labels
        /\ frame' = [frame EXCEPT ![s] = frame[s]] /\ UNCHANGED <<status, task, runtime>>
    BY <1>0, <1>6 DEF MarkFailed, Labels
  <2>3. Where(s)' \notin Unsettled
    BY <1>0, <2>2 DEF Where, InEmission, Unsettled
  <2>. QED  BY <2>1, <2>2, <2>3, QuietSlot
<1>7. CASE DeliveryError(s)
  <2>1. /\ pc' = [pc EXCEPT ![s] = "fallback"] /\ UNCHANGED <<frame, task>>
        /\ status' = [status EXCEPT ![s] = "failed"] /\ runtime' = runtime \ {s}
    BY <1>7 DEF DeliveryError, SetStatus, Terminal
  <2>2. status'[s] \notin ActiveStatus /\ Where(s)' \notin Unsettled /\ OnlyMoves(s)
    BY <1>0, <2>1 DEF TypeOK, ActiveStatus, Where, InEmission, Unsettled, OnlyMoves
  <2>. QED  BY <2>2, SlotStep DEF IsActive
<1>8. CASE Fallback(s)
  BY <1>8, FinishSlot DEF Fallback
<1>. QED
  BY <1>1, <1>2, <1>3, <1>4, <1>5, <1>6, <1>7, <1>8 DEF Emission

LEMMA RunnerEndSlot ==
  ASSUME SlotInv, TypeOK', NEW s \in Sessions,
         \/ StepRaises(s) \/ PopReply(s) \/ Settle(s) \/ ScheduleAnalysis(s)
         \/ RowGone(s) \/ StoreFault(s) \/ DoneCallback(s)
  PROVE  SlotInv'
<1>. USE DEF stored, Goto
<1>0. /\ TypeOK /\ frame[s] \in Frames /\ frame[s].verdict \in Terminal
      /\ pc \in [Sessions -> Labels] /\ frame \in [Sessions -> Frames]
  BY DEF SlotInv, TypeOK, Frames
<1>1. CASE StepRaises(s)
  <2>1. HasRunner(s) /\ UNCHANGED <<status, runtime>> /\ Raise(s)
    BY <1>1 DEF StepRaises, HasRunner
  <2>. QED  BY <2>1, RaiseSlot
<1>2. CASE PopReply(s)
  <2>1. CASE pending[s] = 0
    BY <1>2, <2>1, FinishSlot DEF PopReply
  <2>2. CASE pending[s] # 0
    <3>1. HasRunner(s) /\ Where(s) \in Unsettled
      BY <1>2 DEF PopReply, At, HasRunner, Where, InEmission, Unsettled
    <3>2. /\ pc' = [pc EXCEPT ![s] = "loop"] /\ "loop" \in Labels
          /\ frame' = [frame EXCEPT ![s] = [frame[s] EXCEPT !.latest = pending[s]]]
          /\ UNCHANGED <<status, task, runtime>>
      BY <1>2, <2>2 DEF PopReply, Labels
    <3>. QED  BY <3>1, <3>2, QuietSlot
  <2>. QED  BY <2>1, <2>2
<1>3. CASE Settle(s)
  <2>1. /\ status' = [status EXCEPT ![s] = frame[s].verdict] /\ runtime' = runtime \ {s}
        /\ \E l \in {"finished", "schedule"} : pc' = [pc EXCEPT ![s] = l]
        /\ \E f : frame' = [frame EXCEPT ![s] = f]
        /\ \E t : task' = [task EXCEPT ![s] = t]
    <3>1. frame = [frame EXCEPT ![s] = frame[s]] /\ task = [task EXCEPT ![s] = task[s]]
      BY <1>0 DEF TypeOK
    <3>2. CASE frame[s].verdict = "unverified"
      BY <1>0, <1>3, <3>1, <3>2 DEF Settle, SetStatus, Finish, Goto
    <3>3. CASE frame[s].verdict # "unverified"
      BY <1>0, <1>3, <3>1, <3>3 DEF Settle, SetStatus, Goto
    <3>. QED  BY <3>2, <3>3
  <2>2. status'[s] \notin ActiveStatus
    BY <1>0, <2>1 DEF TypeOK, Terminal, ActiveStatus
  <2>3. OnlyMoves(s)
    BY <1>0, <2>1 DEF TypeOK, OnlyMoves
  <2>4. pc'[s] \in {"finished", "schedule"}
    BY <1>0, <2>1 DEF TypeOK
  <2>5. Where(s)' \notin Unsettled
    BY <2>4 DEF Where, InEmission, Unsettled
  <2>. QED  BY <2>2, <2>3, <2>5, SlotStep DEF IsActive
<1>4. CASE ScheduleAnalysis(s)
  BY <1>4, FinishSlot DEF ScheduleAnalysis
<1>5. CASE RowGone(s)
  BY <1>5, FinishSlot DEF RowGone
<1>6. CASE StoreFault(s)
  <2>1. UNCHANGED <<status, runtime>>
    BY <1>6 DEF StoreFault
  <2>2. CASE pc[s] = "creating" /\ pc' = [pc EXCEPT ![s] = "none"] /\ UNCHANGED <<task, frame>>
    <3>1. OnlyMoves(s) /\ Where(s)' \notin Unsettled /\ ~HasRunner(s)'
      BY <1>0, <2>1, <2>2 DEF OnlyMoves, Where, InEmission, Unsettled, HasRunner
    <3>. QED  BY <2>1, <2>2, <3>1, SlotStep DEF IsActive
  <2>3. CASE Finish(s)
    BY <2>1, <2>3, FinishSlot
  <2>4. CASE pc[s] \in StoreCalls /\ Raise(s)
    <3>1. HasRunner(s)
      BY <2>4 DEF StoreCalls, ReadsRow, HasRunner
    <3>. QED  BY <2>1, <2>4, <3>1, RaiseSlot
  <2>. QED  BY <1>6, <2>2, <2>3, <2>4 DEF StoreFault
<1>7. CASE DoneCallback(s)
  <2>1. /\ pc' = [pc EXCEPT ![s] = "none"] /\ runtime' = runtime \ {s}
        /\ UNCHANGED <<status, task, frame>>
    BY <1>7 DEF DoneCallback
  <2>2. OnlyMoves(s) /\ Where(s)' \notin Unsettled /\ ~HasRunner(s)'
    BY <1>0, <2>1 DEF OnlyMoves, Where, InEmission, Unsettled, HasRunner
  <2>. QED  BY <2>1, <2>2, SlotStep DEF IsActive
<1>. QED
  BY <1>1, <1>2, <1>3, <1>4, <1>5, <1>6, <1>7

(* A row that becomes running or waiting was open, and counted, before.    *)
LEMMA RowSlot ==
  ASSUME SlotInv, TypeOK', NEW s \in Sessions, NEW r \in Nat,
         StartTask(s) \/ AskUser(s) \/ ApplyReply(s, r)
  PROVE  SlotInv'
<1>. USE DEF stored, Goto
<1>0. /\ TypeOK /\ pc \in [Sessions -> Labels] /\ frame \in [Sessions -> Frames]
      /\ status \in [Sessions -> Status] /\ task \in [Sessions -> {"none", "live", "done"}]
      /\ frame[s] \in Frames
  BY DEF SlotInv, TypeOK
<1>1. CASE StartTask(s)
  <2>1. /\ pc[s] = "creating" /\ status' = [status EXCEPT ![s] = "running"]
        /\ task' = [task EXCEPT ![s] = "live"] /\ runtime' = runtime \cup {s}
        /\ pc' = [pc EXCEPT ![s] = "boot"] /\ UNCHANGED frame
    BY <1>1 DEF StartTask
  <2>2. HasRunner(s) /\ Where(s) \in Unsettled
    BY <2>1 DEF HasRunner, Where, InEmission, Unsettled
  <2>3. OnlyMoves(s) /\ status'[s] \in ActiveStatus /\ IsActive(s)'
    BY <1>0, <2>1 DEF OnlyMoves, ActiveStatus, IsActive
  <2>. QED  BY <2>2, <2>3, SlotStep DEF SlotInv
<1>2. CASE AskUser(s)
  <2>1. /\ pc[s] = "ask" /\ status' = [status EXCEPT ![s] = "waiting_user"]
        /\ UNCHANGED <<runtime, task>>
        /\ \E l : pc' = [pc EXCEPT ![s] = l] /\ \E f : frame' = [frame EXCEPT ![s] = f]
    BY <1>2 DEF AskUser, At, Emit
  <2>2. HasRunner(s) /\ Where(s) \in Unsettled
    BY <2>1 DEF HasRunner, Where, InEmission, Unsettled
  <2>3. IsActive(s)
    BY <2>2 DEF SlotInv
  <2>4. OnlyMoves(s) /\ status'[s] \in ActiveStatus /\ IsActive(s)'
    BY <1>0, <2>1, <2>3 DEF OnlyMoves, ActiveStatus, IsActive
  <2>. QED  BY <2>3, <2>4, SlotStep
<1>3. CASE ApplyReply(s, r)
  <2>1. /\ IsActive(s) /\ status' = [status EXCEPT ![s] = "running"]
        /\ UNCHANGED <<runtime, task, pc, frame>>
    BY <1>3 DEF ApplyReply, MayReply
  <2>2. OnlyMoves(s) /\ status'[s] \in ActiveStatus /\ IsActive(s)'
    BY <1>0, <2>1 DEF OnlyMoves, ActiveStatus, IsActive
  <2>. QED  BY <2>1, <2>2, SlotStep
<1>. QED
  BY <1>1, <1>2, <1>3

(* Pruning takes no session out of the hands of its coroutine: it forgets  *)
(* settled rows and tasks that are done.                                   *)
LEMMA ForgetSlot ==
  ASSUME SlotInv, NEW E \in SUBSET Expirable, NEW U, Forget(E, U),
         NEW t \in Sessions, t \notin U
  PROVE  /\ t \in runtime' => t \in runtime
         /\ task'[t] # "done"
         /\ task'[t] = "live" => task[t] = "live"
         /\ t \in runtime' => task[t] # "done"
         /\ IsActive(t) => t \in runtime' /\ t \notin E
  BY DEF SlotInv, TypeOK, Forget, Finished, Expirable, IsActive, ActiveStatus, Terminal

LEMMA CreateSlot ==
  ASSUME SlotInv, TypeOK', NEW s \in Sessions, NEW E \in SUBSET Expirable,
         CreateSession(s, E)
  PROVE  SlotInv'
<1>1. /\ Forget(E, {s}) /\ UNCHANGED frame /\ status[s] = "absent"
      /\ status' = [t \in Sessions |-> IF t = s THEN "created"
                                       ELSE IF t \in E THEN "gone" ELSE status[t]]
      /\ pc' = [pc EXCEPT ![s] = "creating"] /\ Cardinality(Active) < MaxActive
  BY DEF CreateSession, Goto, Active
<1>2. \A t \in Sessions \ {s} : pc'[t] = pc[t]
  BY <1>1 DEF SlotInv, TypeOK
<1>3. \A t \in Sessions \ {s} : status'[t] \in ActiveStatus => status'[t] = status[t]
  BY <1>1 DEF ActiveStatus
<1>4. \A t \in Sessions \ {s} : IsActive(t)' => IsActive(t)
  BY <1>1, <1>3, ForgetSlot DEF IsActive
<1>5. \A t \in Sessions \ {s} : IsActive(t) => IsActive(t)'
  <2>. SUFFICES ASSUME NEW t \in Sessions \ {s}, IsActive(t) PROVE IsActive(t)'
    OBVIOUS
  <2>1. t \in runtime' /\ t \notin E /\ task'[t] # "done"
    BY <1>1, ForgetSlot
  <2>. QED  BY <1>1, <2>1 DEF IsActive
<1>6. pc'[s] = "creating" /\ status'[s] = "created"
  BY <1>1 DEF SlotInv, TypeOK
<1>7. IsActive(s)'
  <2>1. s \in runtime' /\ task'[s] # "done"
    BY <1>1 DEF Forget, Finished, SlotInv, TypeOK
  <2>. QED  BY <1>6, <2>1 DEF IsActive, ActiveStatus
<1>8. \A t \in Sessions : Where(t)' \in Unsettled => status'[t] \in ActiveStatus
  <2>1. \A t \in Sessions \ {s} : Where(t)' = Where(t)
    BY <1>1, <1>2 DEF Where
  <2>2. \A t \in Sessions \ {s} : status[t] \in ActiveStatus => status'[t] = status[t]
    BY <1>1 DEF Expirable, Terminal, ActiveStatus
  <2>. QED  BY <1>6, <2>1, <2>2 DEF SlotInv, ActiveStatus
<1>9. \A t \in Sessions : HasRunner(t)' /\ status'[t] \in ActiveStatus => IsActive(t)'
  <2>1. \A t \in Sessions \ {s} : HasRunner(t)' => HasRunner(t)
    BY <1>2 DEF HasRunner
  <2>. QED  BY <1>3, <1>5, <1>7, <2>1 DEF SlotInv
<1>10. (Cardinality(Active) <= MaxActive)'
  <2>1. Active' \subseteq Active \cup {s} /\ Active \subseteq Sessions
    BY <1>4 DEF Active
  <2>2. /\ IsFiniteSet(Active) /\ Cardinality(Active) \in Nat
        /\ Cardinality(Active \cup {s}) <= Cardinality(Active) + 1
    BY <2>1, ActiveFinite, FS_AddElement
  <2>3. /\ Cardinality(Active') <= Cardinality(Active \cup {s})
        /\ Cardinality(Active') \in Nat /\ Cardinality(Active \cup {s}) \in Nat
    <3>1. Active \cup {s} \in SUBSET Sessions /\ Active' \in SUBSET Sessions
      BY <2>1
    <3>. QED  BY <2>1, <3>1, ActiveFinite, FS_Subset
  <2>. QED  BY <1>1, <2>2, <2>3, ConstantsAssumption DEF ConstantsAssumption
<1>. QED
  BY <1>8, <1>9, <1>10 DEF SlotInv

LEMMA ListSlot ==
  ASSUME SlotInv, TypeOK', NEW E \in SUBSET Expirable, ListSessions(E)
  PROVE  SlotInv'
<1>1. /\ Forget(E, {}) /\ UNCHANGED <<frame, pc>>
      /\ status' = [t \in Sessions |-> IF t \in E THEN "gone" ELSE status[t]]
  BY DEF ListSessions
<1>2. \A t \in Sessions : status'[t] \in ActiveStatus <=> status[t] \in ActiveStatus
  BY <1>1 DEF Expirable, ActiveStatus, Terminal
<1>3. \A t \in Sessions : IsActive(t)' <=> IsActive(t)
  BY <1>1, <1>2, ForgetSlot DEF IsActive
<1>4. \A t \in Sessions : Where(t)' = Where(t) /\ (HasRunner(t)' <=> HasRunner(t))
  BY <1>1 DEF Where, HasRunner
<1>. QED
  BY <1>2, <1>3, <1>4, CountKept DEF SlotInv

LEMMA RestartSlot ==
  ASSUME SlotInv, TypeOK', Restart
  PROVE  SlotInv'
<1>1. \A t \in Sessions : pc'[t] = "none" /\ t \notin runtime'
  BY DEF Restart
<1>2. \A t \in Sessions : /\ Where(t)' \notin Unsettled /\ ~HasRunner(t)'
                          /\ IsActive(t)' => IsActive(t)
  BY <1>1 DEF Where, InEmission, Unsettled, HasRunner, IsActive
<1>. QED
  BY <1>2, CountKept DEF SlotInv

LEMMA SpecSlotInv == Spec => []SlotInv
<1>1. SlotInv /\ TypeOK' /\ [Next]_vars => SlotInv'
  <2>. SUFFICES ASSUME SlotInv, TypeOK', [Next]_vars PROVE SlotInv'
    OBVIOUS
  <2>1. ASSUME NEW s \in Sessions, Runner(s) PROVE SlotInv'
    BY <2>1, RowSlot, RunnerQuietSlot, RunnerEndSlot, EmissionSlot DEF Runner
  <2>2. ASSUME NEW s \in Sessions, Client(s) PROVE SlotInv'
    BY <2>2, CreateSlot, RowSlot DEF Client
  <2>3. ASSUME NEW s \in Sessions, StoreFault(s) PROVE SlotInv'
    BY <2>3, RunnerEndSlot
  <2>4. CASE UNCHANGED vars
    <3>1. \A t \in Sessions : /\ Where(t)' = Where(t) /\ (IsActive(t)' <=> IsActive(t))
                              /\ (HasRunner(t)' <=> HasRunner(t)) /\ status'[t] = status[t]
      BY <2>4 DEF vars, stored, Where, IsActive, HasRunner
    <3>. QED  BY <3>1, CountKept DEF SlotInv
  <2>. QED
    BY <2>1, <2>2, <2>3, <2>4, ListSlot, RestartSlot DEF Next
<1>. QED
  BY <1>1, SlotInvInit, SpecTypeOK, PTL DEF Spec

(* The shared browser is never driven by more than MaxActive sessions.     *)
THEOREM BrowserIsNotShared == Spec => []BrowserNotShared
  BY SpecSlotInv, SlotInvImplies, PTL
=============================================================================
