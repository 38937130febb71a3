-------------------------- MODULE BuyerSessionCalm --------------------------
(***************************************************************************)
(* Theorems about BuyerSession while no repository call has raised: the    *)
(* receiver misses nothing, hears one verdict, no coroutine ends without   *)
(* one, and a verdict is final; for any set of sessions and all bounds,    *)
(* whatever the network loses and whenever the process restarts.           *)
(***************************************************************************)
EXTENDS BuyerSessionTold

Busy == {"boot", "auth", "loop", "run", "result", "ask", "pop"}
Over == Terminal \cup {"gone"}
Ended == {"schedule", "fallback", "finished"}
(* Where the receiver may still lack the last event of the outbox.         *)
Behind == {"none", "deliver", "mark_failed", "delivery_error", "fallback", "finished"}
VerdictTypes == {VerdictType[v] : v \in Terminal}

(* The status of the row follows the place of its coroutine, also when the *)
(* operator has answered and the coroutine has not woken up yet.           *)
PlaceInv(s) ==
  /\ status[s] = "absent" => pc[s] = "none" /\ log[s] = <<>> /\ inbox[s] = <<>>
  /\ Where(s) = "creating" => status[s] = "created"
  /\ Where(s) \in Busy => status[s] = "running"
  /\ Where(s) = "pop" => pending[s] # 0
  /\ Where(s) = "await" => IF wake[s] THEN status[s] = "running" /\ pending[s] # 0
                           ELSE status[s] = "waiting_user" /\ pending[s] = 0

PlacesInv == \A s \in Sessions : PlaceInv(s)

-----------------------------------------------------------------------------
(* PlacesInv *)

LEMMA PlacesInvInit == Init => PlacesInv
  BY DEF Init, PlacesInv, PlaceInv, Where, InEmission, Busy

Keeps(t) == Stays(t) /\ wake'[t] = wake[t] /\ pending'[t] = pending[t]

LEMMA KeepsPlace ==
  ASSUME PlacesInv, NEW t \in Sessions, Keeps(t)
  PROVE  PlaceInv(t)'
<1>1. Where(t)' = Where(t)
  BY DEF Keeps, Stays, Where
<1>. QED
  BY <1>1 DEF PlacesInv, PlaceInv, Keeps, Stays

LEMMA OthersKeep ==
  ASSUME TypeOK, NEW s \in Sessions, NEW r \in Nat,
         Runner(s) \/ StoreFault(s) \/ ApplyReply(s, r),
         NEW t \in Sessions \ {s}
  PROVE  Keeps(t)
<1>. USE DEF stored, Local
<1>. SUFFICES wake'[t] = wake[t] /\ pending'[t] = pending[t]
  BY OthersStay DEF Keeps
<1>1. CASE StartTask(s) \/ Boot(s) \/ Authenticate(s) \/ BeginStep(s) \/ RunStep(s)
  BY <1>1 DEF TypeOK, StartTask, Boot, Authenticate, BeginStep, RunStep
<1>2. CASE StepRaises(s) \/ AskUser(s) \/ Woken(s) \/ PopReply(s) \/ Dispatch(s)
  BY <1>2 DEF TypeOK, StepRaises, AskUser, Woken, PopReply, Dispatch
<1>3. CASE EmitVerdict(s) \/ Settle(s) \/ ScheduleAnalysis(s) \/ Unexpected(s) \/ RowGone(s)
           \/ DoneCallback(s)
  BY <1>3 DEF TypeOK, EmitVerdict, Settle, ScheduleAnalysis, Unexpected, RowGone, DoneCallback
<1>4. CASE EmitAppend(s) \/ EmitDuplicate(s) \/ Delivered(s) \/ AttemptFails(s)
  BY <1>4 DEF TypeOK, EmitAppend, EmitDuplicate, Delivered, AttemptFails
<1>5. CASE MarkDelivered(s) \/ MarkFailed(s) \/ DeliveryError(s) \/ Fallback(s)
  BY <1>5 DEF TypeOK, MarkDelivered, MarkFailed, DeliveryError, Fallback
<1>6. CASE StoreFault(s) \/ ApplyReply(s, r)
  BY <1>6 DEF TypeOK, StoreFault, ApplyReply
<1>. QED
  BY <1>1, <1>2, <1>3, <1>4, <1>5, <1>6 DEF Runner, Emission

(* A coroutine that has nothing more to do with the handshake.             *)
LEMMA AwayPlace ==
  ASSUME NEW s \in Sessions, status'[s] # "absent", Where(s)' \notin Unsettled
  PROVE  PlaceInv(s)'
  BY DEF PlaceInv, Unsettled, Busy

(* A coroutine that goes on while the row and the wake event stay.         *)
LEMMA MovesPlace ==
  ASSUME PlacesInv, NEW s \in Sessions, status'[s] = status[s], wake'[s] = wake[s],
         pending'[s] = pending[s], pc[s] # "none",
         \/ Where(s)' = Where(s)
         \/ Where(s) \in Busy /\ Where(s)' \in Busy \ {"pop"}
         \/ Where(s)' \notin Unsettled
  PROVE  PlaceInv(s)'
<1>1. PlaceInv(s) /\ status'[s] # "absent"
  BY DEF PlacesInv, PlaceInv
<1>2. CASE Where(s)' \notin Unsettled
  BY <1>1, <1>2, AwayPlace
<1>3. CASE Where(s)' = Where(s)
  BY <1>1, <1>3 DEF PlaceInv
<1>4. CASE Where(s) \in Busy /\ Where(s)' \in Busy \ {"pop"}
  BY <1>1, <1>4 DEF PlaceInv, Busy
<1>. QED
  BY <1>2, <1>3, <1>4

(* The place of a coroutine that is not sending an event is its label.     *)
LEMMA WhereIs ==
  ASSUME NEW s \in Sessions, pc[s] \notin InEmission
  PROVE  Where(s) = pc[s]
  BY DEF Where

LEMMA RunnerPlace ==
  ASSUME PlacesInv, SlotInv, NEW s \in Sessions,
         \/ Boot(s) \/ Authenticate(s) \/ BeginStep(s) \/ RunStep(s) \/ Dispatch(s)
         \/ EmitVerdict(s) \/ Unexpected(s) \/ MarkDelivered(s) \/ MarkFailed(s)
         \/ EmitAppend(s) \/ Delivered(s) \/ AttemptFails(s)
  PROVE  PlaceInv(s)'
<1>. USE DEF Local, stored, At, Goto
<1>0. /\ TypeOK /\ frame[s] \in Frames /\ frame[s].verdict \in Terminal /\ frame[s].then \in Labels
      /\ pc \in [Sessions -> Labels] /\ frame \in [Sessions -> Frames]
  BY DEF SlotInv, TypeOK, Frames
<1>1. /\ status'[s] = status[s] /\ wake'[s] = wake[s] /\ pending'[s] = pending[s]
      /\ pc[s] # "none"
  BY DEF Boot, Authenticate, BeginStep, RunStep, Dispatch, EmitVerdict, Unexpected,
         MarkDelivered, MarkFailed, EmitAppend, Delivered, AttemptFails
<1>2. ASSUME pc[s] \in Busy,
             \/ \E l \in Busy \ {"pop"} : pc' = [pc EXCEPT ![s] = l]
             \/ pc' = [pc EXCEPT ![s] = "verdict"]
             \/ \E f, e, l : Emit(s, f, e, l) /\ l \in (Busy \ {"pop"}) \cup {"verdict"}
      PROVE  PlaceInv(s)'
  <2>1. Where(s) \in Busy
    BY <1>2, WhereIs DEF Busy, InEmission
  <2>2. Where(s)' \in (Busy \ {"pop"}) \cup {"verdict"}
    <3>1. ASSUME NEW l \in (Busy \ {"pop"}) \cup {"verdict"}, pc' = [pc EXCEPT ![s] = l]
          PROVE  Where(s)' = l
      BY <1>0, <3>1 DEF Where, InEmission, Busy
    <3>2. ASSUME NEW f, NEW e, NEW l, Emit(s, f, e, l)
          PROVE  Where(s)' = l
      BY <1>0, <3>2 DEF Emit, Emitting, Where, InEmission
    <3>. QED  BY <1>2, <3>1, <3>2
  <2>. QED  BY <1>1, <2>1, <2>2, MovesPlace DEF Unsettled
<1>3. CASE Boot(s) \/ BeginStep(s) \/ RunStep(s) \/ Dispatch(s) \/ Authenticate(s)
  <2>1. pc[s] \in Busy
    BY <1>3 DEF Boot, BeginStep, RunStep, Dispatch, Authenticate, Busy
  <2>2. CASE Boot(s)
    BY <1>2, <2>1, <2>2 DEF Boot, Busy
  <2>3. CASE BeginStep(s)
    <3>1. \E f, e : Emit(s, f, e, "run")
      BY <2>3 DEF BeginStep
    <3>. QED  BY <1>2, <2>1, <3>1 DEF Busy
  <2>4. CASE RunStep(s)
    <3>1. \E f, e : Emit(s, f, e, "result")
      BY <2>4 DEF RunStep
    <3>. QED  BY <1>2, <2>1, <3>1 DEF Busy
  <2>5. CASE Dispatch(s)
    <3>1. \/ pc' = [pc EXCEPT ![s] = "ask"] \/ pc' = [pc EXCEPT ![s] = "loop"]
          \/ pc' = [pc EXCEPT ![s] = "verdict"]
          \/ \E f, e : Emit(s, f, e, "verdict")
      BY <2>5 DEF Dispatch
    <3>. QED  BY <1>2, <2>1, <3>1 DEF Busy
  <2>6. CASE Authenticate(s)
    BY <1>2, <2>1, <2>6 DEF Authenticate, Busy
  <2>. QED
    BY <1>3, <2>2, <2>3, <2>4, <2>5, <2>6
<1>4. CASE EmitVerdict(s) \/ Unexpected(s) \/ MarkFailed(s)
  <2>1. Where(s)' \in {"settle", "verdict", "delivery_error"}
    <3>1. CASE EmitVerdict(s)
      <4>1. Ev(VerdictType[frame[s].verdict], 0) \in Events /\ "settle" \in Labels
        BY <1>0, EventType DEF Labels
      <4>. QED  BY <1>0, <3>1, <4>1, EmitQuiet DEF EmitVerdict
    <3>2. CASE Unexpected(s)
      BY <1>0, <3>2 DEF Unexpected, Where, InEmission
    <3>3. CASE MarkFailed(s)
      BY <1>0, <3>3 DEF MarkFailed, Where, InEmission
    <3>. QED  BY <1>4, <3>1, <3>2, <3>3
  <2>. QED  BY <1>1, <2>1, MovesPlace DEF Unsettled
<1>5. CASE MarkDelivered(s) \/ EmitAppend(s)
  <2>1. Where(s)' = Where(s)
    <3>1. CASE MarkDelivered(s)
      <4>1. pc[s] = "mark_delivered" /\ pc'[s] = frame[s].then /\ frame' = frame
        BY <1>0, <3>1 DEF MarkDelivered
      <4>. QED  BY <4>1 DEF Where, InEmission
    <3>2. CASE EmitAppend(s)
      <4>1. pc[s] = "append" /\ pc'[s] = "deliver" /\ frame' = frame
        BY <1>0, <3>2 DEF EmitAppend
      <4>. QED  BY <4>1 DEF Where, InEmission
    <3>. QED  BY <1>5, <3>1, <3>2
  <2>. QED  BY <1>1, <2>1, MovesPlace
<1>6. CASE Delivered(s) \/ AttemptFails(s)
  <2>1. Where(s) = frame[s].then /\ frame'[s].then = frame[s].then
        /\ pc'[s] \in {"mark_delivered", "mark_failed", "deliver"}
    <3>1. pc[s] = "deliver" /\ pc'[s] \in {"mark_delivered", "mark_failed", "deliver"}
      BY <1>0, <1>6 DEF Delivered, AttemptFails
    <3>2. \E n : frame' = [frame EXCEPT ![s] = [frame[s] EXCEPT !.tries = n]] \/ frame' = frame
      BY <1>6 DEF Delivered, AttemptFails
    <3>3. frame'[s].then = frame[s].then
      BY <1>0, <3>2 DEF Frames
    <3>. QED  BY <3>1, <3>3 DEF Where, InEmission
  <2>2. Where(s)' = Where(s) \/ Where(s)' = "mark_failed"
    BY <2>1 DEF Where, InEmission
  <2>. QED  BY <1>1, <2>2, MovesPlace DEF Unsettled
<1>. QED
  BY <1>3, <1>4, <1>5, <1>6

LEMMA HandshakePlace ==
  ASSUME PlacesInv, SlotInv, NEW s \in Sessions, NEW r \in Nat \ {0},
         \/ StartTask(s) \/ AskUser(s) \/ Woken(s) \/ ApplyReply(s, r)
         \/ PopReply(s)
  PROVE  PlaceInv(s)'
<1>. USE DEF Local, stored, At, Goto
<1>0. /\ TypeOK /\ frame[s] \in Frames /\ pc \in [Sessions -> Labels]
      /\ frame \in [Sessions -> Frames] /\ status \in [Sessions -> Status]
      /\ wake \in [Sessions -> BOOLEAN] /\ pending \in [Sessions -> Nat] /\ PlaceInv(s)
  BY DEF SlotInv, TypeOK, PlacesInv
<1>1. CASE StartTask(s)
  <2>1. Where(s)' = "boot" /\ status'[s] = "running"
    BY <1>0, <1>1 DEF StartTask, Where, InEmission
  <2>. QED  BY <2>1 DEF PlaceInv, Busy
<1>2. CASE AskUser(s)
  <2>1. Where(s)' = "await" /\ status'[s] = "waiting_user" /\ ~wake'[s] /\ pending'[s] = 0
    BY <1>0, <1>2 DEF AskUser, Emit, Emitting, Where, InEmission
  <2>. QED  BY <2>1 DEF PlaceInv, Busy
<1>3. CASE Woken(s)
  <2>1. Where(s) = "await" /\ wake[s] /\ Where(s)' = "pop"
    BY <1>0, <1>3 DEF Woken, Where, InEmission
  <2>2. status'[s] = status[s] /\ pending'[s] = pending[s]
    BY <1>3 DEF Woken
  <2>. QED  BY <1>0, <2>1, <2>2 DEF PlaceInv, Busy
<1>4. CASE ApplyReply(s, r)
  <2>1. /\ status[s] = "waiting_user" /\ status'[s] = "running" /\ wake'[s] /\ pending'[s] = r
        /\ Where(s)' = Where(s)
    BY <1>0, <1>4 DEF ApplyReply, MayReply, Where
  <2>2. Where(s) \notin Busy \cup {"creating"}
    BY <1>0, <2>1 DEF PlaceInv
  <2>. QED  BY <2>1, <2>2 DEF PlaceInv, Busy
<1>5. CASE PopReply(s)
  <2>1. pc[s] = "pop" /\ Where(s) = "pop" /\ status[s] = "running" /\ pending[s] # 0
    BY <1>0, <1>5 DEF PopReply, Where, InEmission, PlaceInv, Busy
  <2>2. Where(s)' = "loop" /\ status'[s] = status[s]
    BY <1>0, <1>5, <2>1 DEF PopReply, Where, InEmission
  <2>. QED  BY <2>1, <2>2 DEF PlaceInv, Busy
<1>. QED
  BY <1>1, <1>2, <1>3, <1>4, <1>5

LEMMA AwayStepsPlace ==
  ASSUME PlacesInv, SlotInv, NEW s \in Sessions,
         \/ StepRaises(s) \/ Settle(s) \/ ScheduleAnalysis(s) \/ RowGone(s)
         \/ DoneCallback(s) \/ EmitDuplicate(s) \/ DeliveryError(s) \/ Fallback(s)
         \/ StoreFault(s)
  PROVE  PlaceInv(s)'
<1>. USE DEF stored, Local, At, Goto
<1>0. /\ TypeOK /\ frame[s] \in Frames /\ frame[s].verdict \in Terminal
      /\ pc \in [Sessions -> Labels] /\ status \in [Sessions -> Status] /\ PlaceInv(s)
  BY DEF SlotInv, TypeOK, PlacesInv, Frames
<1>1. pc[s] # "none"
  BY DEF StepRaises, Settle, ScheduleAnalysis, RowGone, DoneCallback, EmitDuplicate,
         DeliveryError, Fallback, StoreFault, StoreCalls, ReadsRow
<1>2. status'[s] # "absent"
  <2>1. status[s] # "absent"
    BY <1>0, <1>1 DEF PlaceInv
  <2>. QED
    BY <1>0, <2>1 DEF StepRaises, Settle, ScheduleAnalysis, RowGone, DoneCallback, EmitDuplicate,
       DeliveryError, Fallback, StoreFault, SetStatus, Terminal
<1>3. Raise(s) \/ Finish(s) \/ \E l \in {"none", "schedule", "fallback"} : pc' = [pc EXCEPT ![s] = l]
  BY DEF StepRaises, Settle, ScheduleAnalysis, RowGone, DoneCallback, EmitDuplicate,
         DeliveryError, Fallback, StoreFault
<1>4. Where(s)' \notin Unsettled
  <2>1. CASE Raise(s) \/ Finish(s)
    BY <1>0, <2>1, RaiseQuiet
  <2>2. CASE \E l \in {"none", "schedule", "fallback"} : pc' = [pc EXCEPT ![s] = l]
    BY <1>0, <2>2 DEF Where, InEmission, Unsettled
  <2>. QED  BY <1>3, <2>1, <2>2
<1>. QED
  BY <1>2, <1>4, AwayPlace

LEMMA ForgetKeeps ==
  ASSUME TypeOK, NEW E, NEW used, Forget(E, used), NEW t \in Sessions, t \notin E
  PROVE  log'[t] = log[t] /\ wake'[t] = wake[t] /\ pending'[t] = pending[t]
<1>1. log'[t] = log[t] /\ pending'[t] = pending[t]
  BY DEF Forget
<1>2. wake'[t] = wake[t]
  BY DEF Forget, TypeOK
<1>. QED
  BY <1>1, <1>2

(* Rows that expire are settled, and their coroutines past the handshake.  *)
LEMMA ClientPlace ==
  ASSUME PlacesInv, SlotInv, NEW E \in SUBSET Expirable,
         ListSessions(E) \/ \E s \in Sessions : CreateSession(s, E)
  PROVE  PlacesInv'
<1>. SUFFICES ASSUME NEW t \in Sessions PROVE PlaceInv(t)'
  BY DEF PlacesInv
<1>0. TypeOK /\ pc \in [Sessions -> Labels] /\ PlaceInv(t) /\ frame' = frame /\ inbox' = inbox
  BY DEF SlotInv, TypeOK, PlacesInv, ListSessions, CreateSession
<1>1. CASE CreateSession(t, E)
  <2>1. pc'[t] = "creating" /\ status'[t] = "created"
    BY <1>0, <1>1 DEF CreateSession, Goto
  <2>. QED  BY <2>1, WhereIs DEF PlaceInv, Where, InEmission, Busy
<1>2. CASE ~CreateSession(t, E)
  <2>1. /\ pc'[t] = pc[t] /\ Where(t)' = Where(t)
        /\ status'[t] = IF t \in E THEN "gone" ELSE status[t]
        /\ t \notin E => /\ log'[t] = log[t] /\ wake'[t] = wake[t]
                         /\ pending'[t] = pending[t]
    <3>1. CASE ListSessions(E)
      <4>1. Forget(E, {}) /\ pc' = pc /\ frame' = frame
            /\ status' = [x \in Sessions |-> IF x \in E THEN "gone" ELSE status[x]]
        BY <3>1 DEF ListSessions
      <4>. QED  BY <1>0, <4>1, ForgetKeeps DEF Where
    <3>2. ASSUME NEW s \in Sessions, CreateSession(s, E)
          PROVE  /\ pc'[t] = pc[t] /\ Where(t)' = Where(t)
                 /\ status'[t] = IF t \in E THEN "gone" ELSE status[t]
                 /\ t \notin E => /\ log'[t] = log[t] /\ wake'[t] = wake[t]
                                  /\ pending'[t] = pending[t]
      <4>1. s # t
        BY <1>2, <3>2
      <4>3. pc' = [pc EXCEPT ![s] = "creating"] /\ frame' = frame
        BY <3>2 DEF CreateSession, Goto
      <4>4. pc'[t] = pc[t]
        BY <1>0, <4>1, <4>3
      <4>5. Where(t)' = Where(t)
        BY <4>3, <4>4 DEF Where
      <4>6. status'[t] = IF t \in E THEN "gone" ELSE status[t]
        BY <3>2, <4>1 DEF CreateSession
      <4>7. Forget(E, {s})
        BY <3>2 DEF CreateSession
      <4>. QED  BY <1>0, <4>4, <4>5, <4>6, <4>7, ForgetKeeps
    <3>. QED  BY <3>1, <3>2
  <2>2. CASE t \in E
    <3>1. Where(t) \notin Unsettled
      BY <2>2 DEF SlotInv, Expirable, Terminal, ActiveStatus
    <3>. QED  BY <2>1, <2>2, <3>1, AwayPlace
  <2>3. CASE t \notin E
    BY <1>0, <2>1, <2>3 DEF PlaceInv
  <2>. QED  BY <2>2, <2>3
<1>. QED
  BY <1>1, <1>2

LEMMA RestartPlace == PlacesInv /\ Restart => PlacesInv'
<1>. SUFFICES ASSUME PlacesInv, Restart, NEW t \in Sessions PROVE PlaceInv(t)'
  BY DEF PlacesInv
<1>1. Where(t)' = "none" /\ pc'[t] = "none" /\ UNCHANGED <<status, log, inbox>>
  BY DEF Restart, Where, InEmission, stored
<1>. QED
  BY <1>1 DEF PlacesInv, PlaceInv, Busy

LEMMA PlacesInvStep == PlacesInv /\ SlotInv /\ [Next]_vars => PlacesInv'
<1>. SUFFICES ASSUME PlacesInv, SlotInv, [Next]_vars PROVE PlacesInv'
  OBVIOUS
<1>0. TypeOK
  BY DEF SlotInv
<1>1. ASSUME NEW s \in Sessions, Runner(s) \/ StoreFault(s) PROVE PlacesInv'
  <2>1. PlaceInv(s)'
    BY <1>1, RunnerPlace, HandshakePlace, AwayStepsPlace DEF Runner, Emission
  <2>2. \A t \in Sessions \ {s} : PlaceInv(t)'
    BY <1>0, <1>1, OthersKeep, KeepsPlace
  <2>. QED  BY <2>1, <2>2 DEF PlacesInv
<1>2. ASSUME NEW s \in Sessions, NEW r \in 1..MaxSteps, ApplyReply(s, r) PROVE PlacesInv'
  <2>1. r \in Nat \ {0}
    BY ConstantsAssumption DEF ConstantsAssumption
  <2>2. PlaceInv(s)'
    BY <1>2, <2>1, HandshakePlace
  <2>3. \A t \in Sessions \ {s} : PlaceInv(t)'
    BY <1>0, <1>2, <2>1, OthersKeep, KeepsPlace
  <2>. QED  BY <2>2, <2>3 DEF PlacesInv
<1>3. CASE UNCHANGED vars
  <2>1. \A t \in Sessions : Keeps(t)
    BY <1>3 DEF vars, stored, Keeps, Stays
  <2>. QED  BY <2>1, KeepsPlace DEF PlacesInv
<1>. QED
  BY <1>1, <1>2, <1>3, ClientPlace, RestartPlace DEF Next, Client

LEMMA SpecPlacesInv == Spec => []PlacesInv
  BY PlacesInvInit, PlacesInvStep, SpecSlotInv, PTL DEF Spec

-----------------------------------------------------------------------------
(* What is true of a session while no repository call has raised           *)

(* No verdict is in the outbox yet.                                        *)
Before(s) ==
  \/ Where(s) \in Unsettled \cup {"verdict", "unexpected"}
  \/ pc[s] = "append" /\ frame[s].then = "settle"

NoVerdict(q) == \A i \in DOMAIN q : q[i].type \notin VerdictTypes
OneVerdict(q) ==
  \A i, j \in DOMAIN q :
    q[i].type \in VerdictTypes /\ q[j].type \in VerdictTypes => q[i].type = q[j].type

(* The receiver holds the outbox, or all of it but the event on the wire.  *)
OutboxInv(s) ==
  /\ Len(inbox[s]) <= Len(log[s])
  /\ \A i \in DOMAIN inbox[s] : inbox[s][i] = log[s][i]
  /\ pc[s] \notin Behind => Len(inbox[s]) = Len(log[s])
  /\ pc[s] = "deliver" =>
       /\ log[s] # <<>> /\ log[s][Len(log[s])] = frame[s].event
       /\ Len(inbox[s]) >= Len(log[s]) - 1
       /\ \A i \in 1..(Len(log[s]) - 1) : log[s][i] # frame[s].event
  /\ Before(s) => NoVerdict(log[s])
  /\ OneVerdict(log[s])

(* A row is over exactly when its coroutine has settled it; the handler    *)
(* that reports an unexpected exception starts from nothing.               *)
Calm(s) ==
  /\ status[s] \in Over => pc[s] \in Ended \cup {"none"}
  /\ pc[s] \in Ended => status[s] \in Over
  /\ frame[s].handling =>
       /\ Where(s) \notin Unsettled \cup {"none", "finished"}
       /\ ~(pc[s] \in InEmission /\ frame[s].then = "verdict")
  /\ status[s] # "gone" => OutboxInv(s)
  /\ OneVerdict(inbox[s])

CalmInv == faults = 0 => \A s \in Sessions : Calm(s)

LEMMA CalmInvInit == Init => CalmInv
  BY DEF Init, CalmInv, Calm, OutboxInv, Before, NoVerdict, OneVerdict, Where, InEmission,
     NoFrame, Over, Ended, Behind, Terminal, Unsettled

(* The events of a session do not change, and its coroutine goes on in     *)
(* step with its row.                                                      *)
CalmMoves(s) ==
  /\ log'[s] = log[s] /\ inbox'[s] = inbox[s]
  /\ status'[s] \in Over => pc'[s] \in Ended \cup {"none"}
  /\ pc'[s] \in Ended => status'[s] \in Over
  /\ frame'[s].handling =>
       /\ Where(s)' \notin Unsettled \cup {"none", "finished"}
       /\ ~(pc'[s] \in InEmission /\ frame'[s].then = "verdict")
  /\ pc'[s] # "deliver"
  /\ pc'[s] \notin Behind => pc[s] \notin Behind
  /\ status[s] = "gone" => status'[s] = "gone"
  /\ Before(s)' => Before(s)

LEMMA MovesCalm ==
  ASSUME NEW s \in Sessions, Calm(s), CalmMoves(s)
  PROVE  Calm(s)'
<1>1. OneVerdict(inbox[s])' /\ (NoVerdict(log[s])' <=> NoVerdict(log[s]))
      /\ (OneVerdict(log[s])' <=> OneVerdict(log[s]))
  BY DEF Calm, CalmMoves, NoVerdict, OneVerdict
<1>2. status'[s] # "gone" => OutboxInv(s)'
  BY <1>1 DEF Calm, CalmMoves, OutboxInv
<1>. QED
  BY <1>1, <1>2 DEF Calm, CalmMoves

(* The coroutine stands still; the row is answered or expires.             *)
CalmStays(s) ==
  /\ pc'[s] = pc[s] /\ frame'[s] = frame[s] /\ inbox'[s] = inbox[s]
  /\ status'[s] \in Over <=> status[s] \in Over
  /\ status'[s] # "gone" => status[s] # "gone" /\ log'[s] = log[s]

LEMMA StaysCalm ==
  ASSUME NEW s \in Sessions, Calm(s), CalmStays(s)
  PROVE  Calm(s)'
<1>1. Where(s)' = Where(s) /\ (Before(s)' <=> Before(s)) /\ OneVerdict(inbox[s])'
  BY DEF Calm, CalmStays, Where, Before, OneVerdict
<1>2. status'[s] # "gone" => OutboxInv(s)'
  BY <1>1 DEF Calm, CalmStays, OutboxInv, NoVerdict, OneVerdict
<1>. QED
  BY <1>1, <1>2 DEF Calm, CalmStays

-----------------------------------------------------------------------------
(* The steps that write no event *)

LEMMA EmitHandling ==
  ASSUME TypeOK, NEW s \in Sessions, NEW f \in Frames, NEW e, NEW l, Emit(s, f, e, l)
  PROVE  pc'[s] = "append" /\ frame'[s].handling = f.handling /\ frame'[s].then = l
<1>1. frame'[s] = Emitting(f, e, l) /\ pc'[s] = "append"
  BY DEF Emit, Goto, TypeOK
<1>2. Emitting(f, e, l).handling = f.handling /\ Emitting(f, e, l).then = l
  BY DEF Emitting, Frames
<1>. QED
  BY <1>1, <1>2

LEMMA UnsettledCalm ==
  ASSUME ToldInv, SlotInv, PlacesInv, NEW s \in Sessions, Calm(s),
         \/ StartTask(s) \/ Boot(s) \/ Authenticate(s) \/ BeginStep(s) \/ RunStep(s)
         \/ Dispatch(s) \/ AskUser(s) \/ Woken(s) \/ PopReply(s)
  PROVE  CalmMoves(s)
<1>. USE DEF Local, stored, At, Goto
<1>0. /\ TypeOK /\ frame[s] \in Frames /\ pc \in [Sessions -> Labels]
      /\ frame \in [Sessions -> Frames] /\ status \in [Sessions -> Status]
  BY DEF SlotInv, TypeOK
<1>1. /\ inbox'[s] = inbox[s] /\ log'[s] = log[s] /\ pc[s] \in Unsettled
  BY DEF StartTask, Boot, Authenticate, BeginStep, RunStep, Dispatch, AskUser, Woken, PopReply,
     Unsettled
<1>2. Where(s) \in Unsettled /\ ~frame[s].handling /\ status[s] \in ActiveStatus
  BY <1>1 DEF Where, InEmission, Unsettled, SlotInv, Calm
<1>3. status'[s] \in ActiveStatus
  BY <1>0, <1>2 DEF StartTask, Boot, Authenticate, BeginStep, RunStep, Dispatch, AskUser, Woken,
     PopReply, ActiveStatus
<1>4. pc'[s] \in Unsettled \cup {"verdict", "append"} /\ ~frame'[s].handling
  <2>1. CASE StartTask(s) \/ Authenticate(s) \/ Woken(s)
    BY <1>0, <1>2, <2>1 DEF StartTask, Authenticate, Woken, Unsettled
  <2>2. CASE Boot(s)
    BY <1>0, <1>2, <2>2, EmitHandling DEF Boot
  <2>3. CASE BeginStep(s)
    <3>. DEFINE n == frame[s].step + 1
                f == [frame[s] EXCEPT !.step = n]
    <3>1. f \in Frames /\ f.handling = frame[s].handling
      BY <1>0 DEF Frames
    <3>2. Emit(s, f, Ev("step-started", n), "run")
      BY <2>3 DEF BeginStep
    <3>. HIDE DEF n, f
    <3>. QED  BY <1>0, <1>2, <3>1, <3>2, EmitHandling
  <2>4. CASE RunStep(s)
    <3>1. PICK r \in Results :
            Emit(s, [frame[s] EXCEPT !.result = r], Ev("step-finished", frame[s].step), "result")
      BY <2>4 DEF RunStep
    <3>2. /\ [frame[s] EXCEPT !.result = r] \in Frames
          /\ [frame[s] EXCEPT !.result = r].handling = frame[s].handling
      BY <1>0 DEF Frames
    <3>. QED  BY <1>0, <1>2, <3>1, <3>2, EmitHandling
  <2>5. CASE AskUser(s)
    <3>. DEFINE n == frame[s].asked + 1
                f == [frame[s] EXCEPT !.asked = n]
    <3>1. f \in Frames /\ f.handling = frame[s].handling
      BY <1>0 DEF Frames
    <3>2. Emit(s, f, Ev("ask-user", n), "await")
      BY <2>5 DEF AskUser
    <3>. HIDE DEF n, f
    <3>. QED  BY <1>0, <1>2, <3>1, <3>2, EmitHandling
  <2>6. CASE PopReply(s)
    <3>1. pending[s] # 0
      BY <2>6 DEF PopReply, PlacesInv, PlaceInv, Where, InEmission
    <3>2. pc' = [pc EXCEPT ![s] = "loop"]
          /\ frame' = [frame EXCEPT ![s] = [frame[s] EXCEPT !.latest = pending[s]]]
      BY <1>0, <2>6, <3>1 DEF PopReply
    <3>3. [frame[s] EXCEPT !.latest = pending[s]].handling = frame[s].handling
      BY <1>0 DEF Frames
    <3>. QED  BY <1>0, <1>2, <3>2, <3>3 DEF Unsettled
  <2>7. CASE Dispatch(s)
    <3>. DEFINE f == [frame[s] EXCEPT !.latest = 0, !.result = NoFrame.result]
                calm == [f EXCEPT !.recovering = FALSE]
                done == [calm EXCEPT !.verdict = "completed"]
                unsure == [calm EXCEPT !.verdict = "unverified"]
                again == [f EXCEPT !.recovering = TRUE]
                lost == [f EXCEPT !.verdict = "failed"]
    <3>1. f \in Frames /\ calm \in Frames
          /\ f.handling = frame[s].handling /\ calm.handling = frame[s].handling
      BY <1>0 DEF Frames, NoFrame, Results
    <3>2. /\ done \in Frames /\ done.handling = frame[s].handling
          /\ unsure \in Frames /\ unsure.handling = frame[s].handling
          /\ again.handling = frame[s].handling /\ lost.handling = frame[s].handling
      BY <3>1 DEF Frames, Terminal
    <3>3. \/ pc' = [pc EXCEPT ![s] = "ask"] /\ frame' = [frame EXCEPT ![s] = calm]
          \/ pc' = [pc EXCEPT ![s] = "loop"] /\ frame' = [frame EXCEPT ![s] = again]
          \/ Emit(s, done, Ev("payment-ready", 0), "verdict")
          \/ Emit(s, unsure, Ev("payment-unverified", 0), "verdict")
          \/ pc' = [pc EXCEPT ![s] = "verdict"] /\ frame' = [frame EXCEPT ![s] = lost]
      BY <2>7 DEF Dispatch
    <3>. HIDE DEF done, unsure, calm, f, again, lost
    <3>. QED  BY <1>0, <1>2, <3>1, <3>2, <3>3, EmitHandling DEF Unsettled
  <2>. QED  BY <2>1, <2>2, <2>3, <2>4, <2>5, <2>6, <2>7
<1>5. Before(s)
  BY <1>2 DEF Before
<1>. QED
  BY <1>1, <1>2, <1>3, <1>4, <1>5 DEF CalmMoves, Over, Ended, Behind, Terminal, ActiveStatus,
     Unsettled

(* The verdict cannot be in the outbox before it is sent for the first     *)
(* time, so its append does not raise.                                     *)
LEMMA NoDuplicateVerdict ==
  ASSUME TypeOK, NEW s \in Sessions, PathInv(s), Calm(s), EmitDuplicate(s)
  PROVE  Where(s) \in Unsettled \cup {"verdict"} /\ ~frame[s].handling
<1>1. /\ pc[s] = "append" /\ status[s] # "gone" /\ Where(s) = frame[s].then /\ Fits(frame[s])
      /\ frame[s] \in Frames
      /\ \E i \in DOMAIN log[s] : frame[s].event = log[s][i]
  BY DEF EmitDuplicate, At, ReadsRow, Where, InEmission, PathInv, TypeOK
<1>2. frame[s].then # "settle"
  <2>. SUFFICES ASSUME frame[s].then = "settle" PROVE FALSE
    OBVIOUS
  <2>1. frame[s].event.type \in VerdictTypes
    BY <1>1 DEF Fits, VerdictTypes, Frames
  <2>2. NoVerdict(log[s])
    BY <1>1 DEF Calm, OutboxInv, Before
  <2>. QED  BY <1>1, <2>1, <2>2 DEF NoVerdict
<1>3. frame[s].then \in Unsettled \cup {"verdict"}
  BY <1>1, <1>2 DEF Fits, Unsettled
<1>. QED
  BY <1>1, <1>3 DEF Calm, InEmission

(* An exception at a place where nothing is being handled.                 *)
LEMMA RaiseCalm ==
  ASSUME TypeOK, NEW s \in Sessions, Calm(s), Raise(s), ~frame[s].handling,
         status'[s] = status[s], log'[s] = log[s], inbox'[s] = inbox[s],
         pc[s] \notin Behind, Before(s)
  PROVE  CalmMoves(s)
<1>1. pc'[s] = "unexpected" /\ frame'[s].handling
  BY DEF Raise, Goto, TypeOK, Frames
<1>2. status[s] \notin Over
  <2>. SUFFICES pc[s] \notin Ended \cup {"none"}
    BY DEF Calm
  <2>1. "finished" \notin Unsettled \cup {"verdict", "unexpected"}
        /\ "fallback" \notin Unsettled \cup {"verdict", "unexpected"}
        /\ "schedule" \notin Unsettled \cup {"verdict", "unexpected"}
    BY DEF Unsettled
  <2>2. pc[s] # "schedule"
    BY <2>1 DEF Before, Where, InEmission
  <2>. QED  BY <2>2 DEF Behind, Ended
<1>. QED
  BY <1>1, <1>2 DEF CalmMoves, Where, InEmission, Unsettled, Ended, Behind

LEMMA RaisesCalm ==
  ASSUME TypeOK, NEW s \in Sessions, PathInv(s), Calm(s), StepRaises(s) \/ EmitDuplicate(s)
  PROVE  CalmMoves(s)
<1>. USE DEF stored
<1>1. Raise(s) /\ UNCHANGED <<status, log, inbox>> /\ pc[s] \in {"run", "auth", "append"}
  BY DEF StepRaises, EmitDuplicate, At
<1>2. Where(s) \in Unsettled \cup {"verdict"} /\ ~frame[s].handling
  <2>1. CASE StepRaises(s)
    <3>1. Where(s) \in Unsettled
      BY <2>1 DEF StepRaises, Where, InEmission, Unsettled
    <3>. QED  BY <3>1 DEF Calm
  <2>. QED  BY <2>1, NoDuplicateVerdict
<1>3. Before(s) /\ pc[s] \notin Behind
  BY <1>1, <1>2 DEF Before, Behind
<1>. QED
  BY <1>1, <1>2, <1>3, RaiseCalm

(* From the verdict to the end of the coroutine.                           *)
LEMMA LateCalm ==
  ASSUME TypeOK, NEW s \in Sessions, PathInv(s), Calm(s),
         \/ EmitVerdict(s) \/ Unexpected(s) \/ MarkDelivered(s) \/ MarkFailed(s)
         \/ DeliveryError(s) \/ Settle(s) \/ ScheduleAnalysis(s) \/ RowGone(s)
         \/ DoneCallback(s)
  PROVE  CalmMoves(s)
<1>. USE DEF stored, Local, At, Goto
<1>0. /\ frame[s] \in Frames /\ pc \in [Sessions -> Labels] /\ frame[s].verdict \in Terminal
      /\ frame \in [Sessions -> Frames] /\ status \in [Sessions -> Status]
  BY DEF TypeOK, Frames
<1>1. log'[s] = log[s] /\ inbox'[s] = inbox[s]
  BY DEF EmitVerdict, Unexpected, MarkDelivered, MarkFailed, DeliveryError, Settle,
     ScheduleAnalysis, RowGone, DoneCallback
<1>2. CASE EmitVerdict(s)
  <2>1. pc[s] = "verdict" /\ pc'[s] = "append" /\ status' = status /\ frame'[s].then = "settle"
    BY <1>0, <1>2, EmitHandling DEF EmitVerdict
  <2>2. Before(s) /\ Where(s)' = "settle" /\ status[s] \notin Over
    BY <2>1 DEF Before, Where, InEmission, Calm, Ended
  <2>. QED  BY <1>1, <2>1, <2>2 DEF CalmMoves, Ended, Behind, Unsettled
<1>3. CASE Unexpected(s)
  <2>1. pc[s] = "unexpected" /\ pc'[s] = "verdict" /\ status' = status
    BY <1>0, <1>3 DEF Unexpected
  <2>2. Before(s) /\ Where(s)' = "verdict" /\ status[s] \notin Over
    BY <2>1 DEF Before, Where, InEmission, Calm, Ended
  <2>. QED  BY <1>1, <2>1, <2>2 DEF CalmMoves, Ended, Behind, Unsettled, InEmission
<1>4. CASE MarkDelivered(s)
  <2>1. /\ pc[s] = "mark_delivered" /\ pc'[s] = frame[s].then
        /\ status' = status /\ frame' = frame
    BY <1>0, <1>4 DEF MarkDelivered
  <2>2. frame[s].then \in {"auth", "run", "result", "await", "verdict", "settle"}
    BY <2>1 DEF PathInv, InEmission, Fits
  <2>3. Where(s)' = Where(s) /\ status[s] \notin Over /\ (Before(s)' => Before(s))
    BY <2>1, <2>2 DEF Before, Where, InEmission, Calm, Ended
  <2>4. pc'[s] \notin InEmission \cup Ended \cup Behind /\ pc[s] \notin Behind
    BY <2>1, <2>2 DEF InEmission, Ended, Behind
  <2>. QED  BY <1>1, <2>1, <2>3, <2>4 DEF CalmMoves, Calm, InEmission
<1>5. CASE MarkFailed(s)
  <2>1. pc[s] = "mark_failed" /\ pc'[s] = "delivery_error" /\ status' = status
    BY <1>0, <1>5 DEF MarkFailed
  <2>2. ~Before(s)' /\ Where(s)' = "delivery_error" /\ status[s] \notin Over
    BY <2>1 DEF Before, Where, InEmission, Calm, Ended, Unsettled
  <2>. QED  BY <1>1, <2>1, <2>2 DEF CalmMoves, Ended, Behind, Unsettled, InEmission
<1>6. CASE DeliveryError(s)
  <2>1. pc[s] = "delivery_error" /\ pc'[s] = "fallback" /\ status'[s] = "failed" /\ status[s] # "gone"
    BY <1>0, <1>6 DEF DeliveryError, SetStatus, ReadsRow
  <2>2. ~Before(s)' /\ Where(s)' = "fallback"
    BY <2>1 DEF Before, Where, InEmission, Unsettled
  <2>. QED  BY <1>1, <2>1, <2>2 DEF CalmMoves, Ended, Behind, Unsettled, InEmission, Over, Terminal
<1>7. CASE Settle(s)
  <2>1. pc[s] = "settle" /\ status'[s] = frame[s].verdict /\ status[s] # "gone"
    BY <1>0, <1>7 DEF Settle, SetStatus, ReadsRow
  <2>2. \/ pc'[s] = "schedule"
        \/ pc'[s] = "finished" /\ ~frame'[s].handling
    BY <1>0, <1>7 DEF Settle, Finish, NoFrame
  <2>3. ~Before(s)' /\ Where(s)' = pc'[s]
    BY <2>2 DEF Before, Where, InEmission, Unsettled
  <2>. QED  BY <1>0, <1>1, <2>1, <2>2, <2>3 DEF CalmMoves, Ended, Behind, Unsettled, InEmission, Over
<1>8. CASE ScheduleAnalysis(s) \/ RowGone(s)
  <2>1. status' = status /\ (pc[s] = "schedule" \/ status[s] = "gone")
    BY <1>8 DEF ScheduleAnalysis, RowGone
  <2>2. pc'[s] = "finished" /\ ~frame'[s].handling
    BY <1>0, <1>8 DEF ScheduleAnalysis, RowGone, Finish, NoFrame
  <2>3. ~Before(s)' /\ Where(s)' = pc'[s] /\ status[s] \in Over
    BY <2>1, <2>2 DEF Before, Where, InEmission, Unsettled, Calm, Ended, Over
  <2>. QED  BY <1>1, <2>1, <2>2, <2>3 DEF CalmMoves, Ended, Behind
<1>9. CASE DoneCallback(s)
  <2>1. pc[s] = "finished" /\ pc'[s] = "none" /\ status' = status /\ frame' = frame
    BY <1>0, <1>9 DEF DoneCallback
  <2>2. ~Before(s)' /\ Where(s) = "finished"
    BY <2>1 DEF Before, Where, InEmission, Unsettled
  <2>. QED  BY <1>1, <2>1, <2>2 DEF CalmMoves, Calm, Ended, Behind
<1>. QED
  BY <1>2, <1>3, <1>4, <1>5, <1>6, <1>7, <1>8, <1>9

-----------------------------------------------------------------------------
(* The steps that write or deliver an event *)

LEMMA AppendCalm ==
  ASSUME TypeOK, NEW s \in Sessions, PathInv(s), Calm(s), EmitAppend(s)
  PROVE  Calm(s)'
<1>. DEFINE q == log[s]
            e == frame[s].event
<1>1. /\ pc[s] = "append" /\ pc'[s] = "deliver" /\ status[s] # "gone"
      /\ log'[s] = Append(q, e) /\ e \notin {q[i] : i \in DOMAIN q}
      /\ UNCHANGED <<status, frame, inbox>>
  BY DEF EmitAppend, At, Goto, ReadsRow, TypeOK
<1>2. q \in Seq(Events) /\ e \in Events /\ inbox[s] \in Seq(Events)
  BY DEF TypeOK, Frames
<1>3. /\ Len(inbox[s]) = Len(q) /\ \A i \in DOMAIN inbox[s] : inbox[s][i] = q[i]
      /\ OneVerdict(inbox[s])
  BY <1>1 DEF Calm, OutboxInv, Behind
<1>4. /\ Len(log'[s]) = Len(q) + 1 /\ log'[s][Len(q) + 1] = e /\ DOMAIN q = 1..Len(q)
      /\ \A i \in 1..Len(q) : log'[s][i] = q[i] /\ q[i] # e
      /\ DOMAIN log'[s] = 1..(Len(q) + 1) /\ log'[s] # <<>>
  <2>1. log'[s] = Append(q, e) /\ q \in Seq(Events) /\ e \in Events
    BY <1>1, <1>2
  <2>2. /\ Len(log'[s]) = Len(q) + 1 /\ log'[s][Len(q) + 1] = e
        /\ DOMAIN q = 1..Len(q) /\ \A i \in 1..Len(q) : log'[s][i] = q[i]
    BY <2>1, SMTT(60)
  <2>3. DOMAIN log'[s] = 1..(Len(q) + 1) /\ log'[s] # <<>>
    BY <2>1, SMTT(60)
  <2>4. \A i \in DOMAIN q : q[i] # e
    BY <1>1
  <2>. QED  BY <2>2, <2>3, <2>4
<1>5. Fits(frame[s]) /\ Where(s) = frame[s].then /\ Where(s)' = Where(s) /\ Before(s)
  <2>1. Fits(frame[s]) /\ Where(s) = frame[s].then /\ Where(s)' = Where(s)
    BY <1>1 DEF PathInv, InEmission, Where
  <2>. QED  BY <1>1, <2>1 DEF Fits, Before, Unsettled
<1>6. NoVerdict(q)
  BY <1>1, <1>5 DEF Calm, OutboxInv
<1>7. NoVerdict(log[s])' \/ frame[s].then = "settle"
  <2>1. frame[s].then # "settle" => e.type \notin VerdictTypes
    BY <1>5 DEF Fits, Progress, PaymentOf, VerdictTypes, VerdictType, Terminal
  <2>. QED  BY <1>4, <1>6, <2>1 DEF NoVerdict
<1>8. OneVerdict(log[s])'
  BY <1>4, <1>6, SMTT(60) DEF NoVerdict, OneVerdict
<1>9. Before(s)' => NoVerdict(log[s])'
  BY <1>1, <1>5, <1>7 DEF Before, Unsettled
<1>10. OutboxInv(s)'
  <2>1. Len(q) \in Nat /\ DOMAIN inbox[s] = 1..Len(inbox[s])
    BY <1>2
  <2>2. Len(log'[s]) - 1 = Len(q)
    BY <1>4, <2>1
  <2>3. /\ Len(inbox'[s]) <= Len(log'[s])
        /\ \A i \in DOMAIN inbox'[s] : inbox'[s][i] = log'[s][i]
        /\ Len(inbox'[s]) >= Len(log'[s]) - 1
        /\ \A i \in 1..(Len(log'[s]) - 1) : log'[s][i] # frame'[s].event
        /\ log'[s][Len(log'[s])] = frame'[s].event /\ log'[s] # <<>>
    BY <1>1, <1>3, <1>4, <2>1, <2>2
  <2>. QED  BY <1>1, <1>8, <1>9, <2>3 DEF OutboxInv, Behind
<1>. QED
  BY <1>1, <1>5, <1>10 DEF Calm, Ended, InEmission, OneVerdict

(* The receiver takes the event on the wire, which is the last of the      *)
(* outbox and the only one it may lack.                                    *)
LEMMA ReceiveCalm ==
  ASSUME TypeOK, NEW s \in Sessions, OutboxInv(s), pc[s] = "deliver", Receive(s)
  PROVE  /\ Len(inbox'[s]) = Len(log[s])
         /\ \A i \in DOMAIN inbox'[s] : inbox'[s][i] = log[s][i]
<1>. DEFINE q == log[s]
            b == inbox[s]
            e == frame[s].event
<1>1. q \in Seq(Events) /\ b \in Seq(Events) /\ e \in Events /\ inbox \in [Sessions -> Seq(Events)]
  BY DEF TypeOK, Frames
<1>2. /\ Len(b) <= Len(q) /\ Len(b) >= Len(q) - 1 /\ \A i \in 1..Len(b) : b[i] = q[i]
      /\ q # <<>> /\ q[Len(q)] = e /\ \A i \in 1..(Len(q) - 1) : q[i] # e
  BY <1>1 DEF OutboxInv
<1>3. Len(q) \in Nat \ {0} /\ Len(b) \in Nat /\ DOMAIN b = 1..Len(b)
  BY <1>1, <1>2
<1>4. inbox'[s] = IF \E i \in DOMAIN b : b[i] = e THEN b ELSE Append(b, e)
  BY <1>1 DEF Receive
<1>5. CASE Len(b) = Len(q)
  <2>1. Len(q) \in DOMAIN b /\ b[Len(q)] = e
    BY <1>2, <1>3, <1>5
  <2>2. inbox'[s] = b
    BY <1>4, <2>1
  <2>. QED  BY <1>2, <1>3, <1>5, <2>2
<1>6. CASE Len(b) = Len(q) - 1
  <2>1. \A i \in DOMAIN b : b[i] # e
    BY <1>2, <1>3, <1>6
  <2>2. inbox'[s] = Append(b, e)
    BY <1>4, <2>1
  <2>3. /\ Len(inbox'[s]) = Len(q) /\ DOMAIN inbox'[s] = 1..Len(q)
        /\ inbox'[s][Len(q)] = e /\ \A i \in 1..Len(b) : inbox'[s][i] = b[i]
    BY <1>1, <1>3, <1>6, <2>2
  <2>. QED  BY <1>2, <1>3, <1>6, <2>3
<1>. QED
  BY <1>2, <1>3, <1>5, <1>6

LEMMA DeliverCalm ==
  ASSUME TypeOK, NEW s \in Sessions, PathInv(s), Calm(s), Delivered(s) \/ AttemptFails(s)
  PROVE  Calm(s)'
<1>0. /\ frame[s] \in Frames /\ frame \in [Sessions -> Frames] /\ pc \in [Sessions -> Labels]
      /\ log[s] \in Seq(Events) /\ inbox[s] \in Seq(Events) /\ inbox'[s] \in Seq(Events)
  BY EmissionType DEF TypeOK, Emission
<1>1. /\ pc[s] = "deliver" /\ (Receive(s) \/ UNCHANGED inbox)
      /\ Delivered(s) => Receive(s)
      /\ UNCHANGED <<status, log>>
  BY DEF Delivered, AttemptFails, stored
<1>2. /\ pc'[s] \in {"deliver", "mark_delivered", "mark_failed"}
      /\ pc'[s] = "mark_delivered" => Delivered(s)
  BY <1>0, <1>1 DEF Delivered, AttemptFails, Goto
<1>3. /\ frame'[s].event = frame[s].event /\ frame'[s].then = frame[s].then
      /\ frame'[s].handling = frame[s].handling
  <2>1. \/ frame' = [frame EXCEPT ![s] = [frame[s] EXCEPT !.tries = 0]]
        \/ frame' = [frame EXCEPT ![s] = [frame[s] EXCEPT !.tries = frame[s].tries + 1]]
        \/ frame' = frame
    BY <1>0 DEF Delivered, AttemptFails
  <2>. QED  BY <1>0, <2>1 DEF Frames
<1>4. status[s] \notin Over /\ OutboxInv(s)
  BY <1>1 DEF Calm, Ended, Over
<1>5. Fits(frame[s]) /\ Where(s) = frame[s].then
  BY <1>1 DEF PathInv, InEmission, Where
<1>6. /\ pc'[s] # "mark_failed" => Where(s)' = Where(s)
      /\ pc'[s] = "mark_failed" => Where(s)' = "mark_failed"
  BY <1>2, <1>3, <1>5 DEF Where, InEmission
<1>7. Before(s)' => Before(s)
  BY <1>2, <1>6 DEF Before, Unsettled
<1>8. /\ Len(inbox'[s]) <= Len(log[s]) /\ Len(inbox'[s]) >= Len(log[s]) - 1
      /\ \A i \in DOMAIN inbox'[s] : inbox'[s][i] = log[s][i]
      /\ Receive(s) => Len(inbox'[s]) = Len(log[s])
  <2>1. Len(log[s]) \in Nat /\ Len(inbox[s]) >= Len(log[s]) - 1
    BY <1>0, <1>1, <1>4 DEF OutboxInv
  <2>2. CASE Receive(s)
    BY <1>1, <1>4, <2>1, <2>2, ReceiveCalm
  <2>3. CASE inbox' = inbox /\ ~Receive(s)
    BY <1>4, <2>1, <2>3 DEF OutboxInv
  <2>. QED  BY <1>1, <2>2, <2>3
<1>9. OutboxInv(s)'
  <2>1. NoVerdict(log[s])' <=> NoVerdict(log[s])
    BY <1>1 DEF NoVerdict
  <2>2. OneVerdict(log[s])'
    BY <1>1, <1>4 DEF OutboxInv, OneVerdict
  <2>3. pc'[s] \notin Behind => Len(inbox'[s]) = Len(log'[s])
    BY <1>1, <1>2, <1>8 DEF Behind
  <2>. QED  BY <1>1, <1>3, <1>4, <1>7, <1>8, <2>1, <2>2, <2>3 DEF OutboxInv
<1>10. OneVerdict(inbox[s])'
  <2>1. DOMAIN inbox'[s] \subseteq DOMAIN log[s]
    BY <1>0, <1>8
  <2>. QED  BY <1>4, <1>8, <2>1 DEF OutboxInv, OneVerdict
<1>11. frame'[s].handling =>
         /\ Where(s)' \notin Unsettled \cup {"none", "finished"}
         /\ ~(pc'[s] \in InEmission /\ frame'[s].then = "verdict")
  BY <1>1, <1>2, <1>3, <1>6 DEF Calm, InEmission, Unsettled
<1>. QED
  BY <1>1, <1>2, <1>4, <1>9, <1>10, <1>11 DEF Calm, Ended

LEMMA FallbackCalm ==
  ASSUME TypeOK, NEW s \in Sessions, Calm(s), Fallback(s)
  PROVE  Calm(s)'
<1>1. /\ pc[s] = "fallback" /\ pc'[s] = "finished" /\ status[s] # "gone" /\ ~frame'[s].handling
      /\ UNCHANGED <<status, inbox>>
  BY DEF Fallback, Finish, At, Goto, ReadsRow, TypeOK, NoFrame
<1>2. PICK e \in Events : log'[s] = Append(log[s], e) /\ e.type \notin VerdictTypes
  <2>. DEFINE type == IF frame[s].handling THEN "scenario-failed-unhandled"
                      ELSE "scenario-failed-callback-delivery"
  <2>1. Ev(type, 0) \in Events
    BY DEF Ev, Events, EventTypes
  <2>2. Ev(type, 0).type = type
    BY DEF Ev
  <2>3. type \notin VerdictTypes
    BY DEF VerdictTypes, VerdictType, Terminal
  <2>4. log'[s] = Append(log[s], Ev(type, 0))
    BY DEF Fallback, TypeOK
  <2>. HIDE DEF type
  <2>. QED  BY <2>1, <2>2, <2>3, <2>4
<1>3. log[s] \in Seq(Events) /\ inbox[s] \in Seq(Events)
  BY DEF TypeOK
<1>4. OutboxInv(s) /\ OneVerdict(inbox[s]) /\ status[s] \in Over
  BY <1>1 DEF Calm, Ended
<1>5. /\ Len(log'[s]) = Len(log[s]) + 1 /\ Len(log[s]) \in Nat /\ Len(inbox[s]) \in Nat
      /\ DOMAIN log[s] = 1..Len(log[s]) /\ DOMAIN inbox[s] = 1..Len(inbox[s])
      /\ DOMAIN log'[s] = 1..(Len(log[s]) + 1)
      /\ \A i \in 1..Len(log[s]) : log'[s][i] = log[s][i]
      /\ log'[s][Len(log[s]) + 1] = e
  BY <1>2, <1>3
<1>6. /\ Len(inbox[s]) <= Len(log'[s])
      /\ \A i \in DOMAIN inbox[s] : inbox[s][i] = log'[s][i]
  BY <1>4, <1>5 DEF OutboxInv
<1>7. OneVerdict(log[s])'
  BY <1>2, <1>4, <1>5 DEF OutboxInv, OneVerdict
<1>8. ~Before(s)' /\ Where(s)' = "finished"
  BY <1>1 DEF Before, Where, InEmission, Unsettled
<1>9. OutboxInv(s)'
  BY <1>1, <1>6, <1>7, <1>8 DEF OutboxInv, Behind
<1>. QED
  BY <1>1, <1>4, <1>9 DEF Calm, Ended, OneVerdict

-----------------------------------------------------------------------------
(* The other sessions, the clients and the process *)

LEMMA OthersCalm ==
  ASSUME NEW t \in Sessions, Calm(t), Stays(t)
  PROVE  Calm(t)'
<1>1. CalmStays(t)
  BY DEF Stays, CalmStays
<1>. QED
  BY <1>1, StaysCalm

LEMMA ClientCalm ==
  ASSUME TypeOK, PlacesInv, NEW E \in SUBSET Expirable,
         ListSessions(E) \/ \E s \in Sessions : CreateSession(s, E),
         NEW t \in Sessions, Calm(t)
  PROVE  Calm(t)'
<1>0. pc \in [Sessions -> Labels] /\ status \in [Sessions -> Status] /\ PlaceInv(t)
  BY DEF TypeOK, PlacesInv
<1>1. CASE CreateSession(t, E)
  <2>1. /\ status[t] = "absent" /\ t \notin E /\ pc'[t] = "creating" /\ status'[t] = "created"
        /\ frame' = frame /\ inbox' = inbox /\ Forget(E, {t})
    BY <1>0, <1>1 DEF CreateSession, Expirable, Terminal, Goto
  <2>2. pc[t] = "none" /\ log[t] = <<>> /\ inbox[t] = <<>> /\ log'[t] = log[t]
    BY <1>0, <2>1, ForgetKeeps DEF PlaceInv
  <2>3. ~frame[t].handling
    BY <2>2 DEF Calm, Where, InEmission
  <2>4. OutboxInv(t)' /\ OneVerdict(inbox[t])'
    BY <2>1, <2>2 DEF OutboxInv, NoVerdict, OneVerdict, Behind
  <2>. QED  BY <2>1, <2>3, <2>4 DEF Calm, Over, Terminal, Ended
<1>2. CASE ~CreateSession(t, E)
  <2>1. /\ pc'[t] = pc[t] /\ frame' = frame /\ inbox' = inbox
        /\ status'[t] = IF t \in E THEN "gone" ELSE status[t]
        /\ \E used : Forget(E, used)
    <3>1. CASE ListSessions(E)
      BY <3>1 DEF ListSessions
    <3>2. ASSUME NEW s \in Sessions, CreateSession(s, E), s # t
          PROVE  /\ pc'[t] = pc[t] /\ frame' = frame /\ inbox' = inbox
                 /\ status'[t] = IF t \in E THEN "gone" ELSE status[t]
                 /\ \E used : Forget(E, used)
      BY <1>0, <3>2 DEF CreateSession, Goto
    <3>. QED  BY <1>2, <3>1, <3>2
  <2>2. t \notin E => log'[t] = log[t]
    BY <2>1, ForgetKeeps
  <2>3. t \in E => status[t] \in Over
    BY DEF Expirable, Over
  <2>4. CalmStays(t)
    BY <2>1, <2>2, <2>3 DEF CalmStays, Over
  <2>. QED  BY <2>4, StaysCalm
<1>. QED
  BY <1>1, <1>2

LEMMA RestartCalm ==
  ASSUME TypeOK, Restart, NEW t \in Sessions, Calm(t)
  PROVE  Calm(t)'
<1>1. /\ pc'[t] = "none" /\ ~frame'[t].handling /\ UNCHANGED <<status, log, inbox>>
  BY DEF Restart, NoFrame, stored
<1>2. ~Before(t)'
  BY <1>1 DEF Before, Where, InEmission, Unsettled
<1>3. CalmMoves(t)
  BY <1>1, <1>2 DEF CalmMoves, Ended, Behind
<1>. QED
  BY <1>3, MovesCalm

(* Only StoreFault counts.                                                 *)
LEMMA FaultsCount ==
  ASSUME [Next]_vars
  PROVE  faults' = faults \/ (faults < MaxFaults /\ faults' = faults + 1)
<1>. USE DEF stored, Local
<1>1. ASSUME NEW s \in Sessions,
             StartTask(s) \/ Boot(s) \/ Authenticate(s) \/ BeginStep(s) \/ RunStep(s)
      PROVE  faults' = faults
  BY <1>1 DEF StartTask, Boot, Authenticate, BeginStep, RunStep
<1>2. ASSUME NEW s \in Sessions,
             StepRaises(s) \/ Dispatch(s) \/ AskUser(s) \/ Woken(s) \/ PopReply(s)
      PROVE  faults' = faults
  BY <1>2 DEF StepRaises, Dispatch, AskUser, Woken, PopReply
<1>3. ASSUME NEW s \in Sessions,
             \/ EmitVerdict(s) \/ Settle(s) \/ ScheduleAnalysis(s) \/ Unexpected(s)
             \/ RowGone(s) \/ DoneCallback(s)
      PROVE  faults' = faults
  BY <1>3 DEF EmitVerdict, Settle, ScheduleAnalysis, Unexpected, RowGone, DoneCallback
<1>4. ASSUME NEW s \in Sessions, Emission(s) PROVE faults' = faults
  BY <1>4 DEF Emission, EmitAppend, EmitDuplicate, Delivered, AttemptFails, MarkDelivered,
     MarkFailed, DeliveryError, Fallback
<1>5. ASSUME NEW s \in Sessions, Client(s) PROVE faults' = faults
  BY <1>5 DEF Client, CreateSession, ApplyReply
<1>6. ASSUME NEW s \in Sessions, StoreFault(s)
      PROVE  faults < MaxFaults /\ faults' = faults + 1
  BY <1>6 DEF StoreFault
<1>7. CASE Restart \/ UNCHANGED vars \/ \E E \in SUBSET Expirable : ListSessions(E)
  BY <1>7 DEF Restart, vars, ListSessions
<1>8. ASSUME NEW s \in Sessions, Runner(s) PROVE faults' = faults
  BY <1>1, <1>2, <1>3, <1>4, <1>8 DEF Runner
<1>. QED
  BY <1>5, <1>6, <1>7, <1>8 DEF Next

LEMMA CalmInvStep == CalmInv /\ ToldInv /\ PlacesInv /\ SlotInv /\ [Next]_vars => CalmInv'
<1>. SUFFICES ASSUME CalmInv, ToldInv, PlacesInv, SlotInv, [Next]_vars, faults' = 0,
                     NEW t \in Sessions
     PROVE  Calm(t)'
  BY DEF CalmInv
<1>0. TypeOK /\ 0 \in Nat /\ PathInv(t)
  BY DEF SlotInv, ToldInv
<1>1. faults = 0 /\ Calm(t)
  BY <1>0, FaultsCount DEF TypeOK, CalmInv
<1>2. ASSUME NEW s \in Sessions, Runner(s), s # t PROVE Calm(t)'
  BY <1>0, <1>1, <1>2, OthersStay, OthersCalm
<1>3. CASE Runner(t)
  BY <1>0, <1>1, <1>3, UnsettledCalm, RaisesCalm, LateCalm, MovesCalm, AppendCalm, DeliverCalm,
     FallbackCalm DEF Runner, Emission
<1>4. ASSUME NEW s \in Sessions, StoreFault(s) PROVE FALSE
  BY <1>1, <1>4 DEF StoreFault
<1>5. ASSUME NEW s \in Sessions, NEW r \in 1..MaxSteps, ApplyReply(s, r) PROVE Calm(t)'
  <2>1. CASE s # t
    BY <1>0, <1>1, <1>5, <2>1, OthersStay, OthersCalm
  <2>2. CASE s = t
    <3>1. CalmStays(t)
      BY <1>0, <1>5, <2>2 DEF ApplyReply, MayReply, CalmStays, TypeOK, Over, Terminal
    <3>. QED  BY <1>1, <3>1, StaysCalm
  <2>. QED  BY <2>1, <2>2
<1>6. CASE UNCHANGED vars
  <2>1. Stays(t)
    BY <1>6 DEF vars, stored, Stays
  <2>. QED  BY <1>1, <2>1, OthersCalm
<1>. QED
  BY <1>0, <1>1, <1>2, <1>3, <1>4, <1>5, <1>6, ClientCalm, RestartCalm DEF Next, Client

LEMMA SpecCalmInv == Spec => []CalmInv
  BY CalmInvInit, CalmInvStep, SpecToldInv, SpecPlacesInv, SpecSlotInv, PTL DEF Spec

-----------------------------------------------------------------------------
(* The theorems *)

LEMMA CalmImplies ==
  CalmInv /\ ToldInv /\ PlacesInv /\ SlotInv =>
    (faults = 0 => NoGapAtReceiver /\ OneVerdictTold /\ NoSilentEnd)
<1>. SUFFICES ASSUME CalmInv, SlotInv, faults = 0
     PROVE  NoGapAtReceiver /\ OneVerdictTold /\ NoSilentEnd
  OBVIOUS
<1>1. NoGapAtReceiver
  BY DEF CalmInv, Calm, OutboxInv, NoGapAtReceiver
<1>2. NoSilentEnd
  BY DEF CalmInv, Calm, NoSilentEnd, Ended, Over
<1>3. OneVerdictTold
  <2>. SUFFICES ASSUME NEW s \in Sessions, NEW u \in Terminal, NEW v \in Terminal,
                       Received(s, VerdictType[u]), Received(s, VerdictType[v])
       PROVE  u = v
    BY DEF OneVerdictTold
  <2>1. VerdictType[u] = VerdictType[v]
    BY DEF CalmInv, Calm, OneVerdict, Received, VerdictTypes
  <2>. QED  BY <2>1 DEF VerdictType, Terminal
<1>. QED
  BY <1>1, <1>2, <1>3

(* While no repository call has raised, the receiver holds the outbox of   *)
(* every session in order and without a gap: lost requests, lost answers,  *)
(* retries, expired rows and restarts of the process open none.            *)
THEOREM ReceiverHasNoGap == Spec => [](faults = 0 => NoGapAtReceiver)
  BY CalmImplies, SpecCalmInv, SpecToldInv, SpecPlacesInv, SpecSlotInv, PTL

(* While no repository call has raised, the receiver never holds two       *)
(* verdicts of one session: the handlers of _run_session never report a    *)
(* failure after a verdict was written.                                    *)
THEOREM VerdictIsToldOnce == Spec => [](faults = 0 => OneVerdictTold)
  BY CalmImplies, SpecCalmInv, SpecToldInv, SpecPlacesInv, SpecSlotInv, PTL

(* While no repository call has raised, no coroutine of _run_session ends  *)
(* and leaves its session open: the silent return on ReplyValidationError  *)
(* is never taken, and no event is written twice.                          *)
THEOREM NoCoroutineEndsSilently == Spec => [](faults = 0 => NoSilentEnd)
  BY CalmImplies, SpecCalmInv, SpecToldInv, SpecPlacesInv, SpecSlotInv, PTL

LEMMA FaultsBounded == MaxFaults = 0 => (Spec => [](faults = 0))
<1>. SUFFICES ASSUME MaxFaults = 0 PROVE Spec => [](faults = 0)
  OBVIOUS
<1>1. Init => faults = 0
  BY DEF Init
<1>2. faults = 0 /\ [Next]_vars => (faults = 0)'
  BY FaultsCount
<1>. QED
  BY <1>1, <1>2, PTL DEF Spec

(* A stored verdict changes only by expiring.                              *)
LEMMA CalmKeepsVerdict ==
  ASSUME CalmInv, PlacesInv, SlotInv, faults = 0, [Next]_vars,
         NEW t \in Sessions, status[t] \in Terminal
  PROVE  status'[t] \in {status[t], "gone"}
<1>0. TypeOK /\ status \in [Sessions -> Status] /\ 0 \in Nat
  BY DEF SlotInv, TypeOK
<1>1. pc[t] \in Ended \cup {"none"}
  BY DEF CalmInv, Calm, Over
<1>2. ASSUME NEW s \in Sessions, Runner(s) \/ StoreFault(s) PROVE status'[t] = status[t]
  <2>1. CASE s # t
    BY <1>0, <1>2, <2>1, OthersStay DEF Stays
  <2>2. CASE s = t
    BY <1>0, <1>1, <1>2, <2>2 DEF Ended, At, stored, Local, Runner, Emission, StartTask, Boot,
       Authenticate, BeginStep, RunStep, StepRaises, Dispatch, AskUser, Woken, PopReply,
       EmitVerdict, Settle, ScheduleAnalysis, Unexpected, RowGone, DoneCallback, EmitAppend,
       EmitDuplicate, Delivered, AttemptFails, MarkDelivered, MarkFailed, DeliveryError, Fallback,
       StoreFault
  <2>. QED  BY <2>1, <2>2
<1>3. ASSUME NEW s \in Sessions, NEW r \in 1..MaxSteps, ApplyReply(s, r)
      PROVE  status'[t] = status[t]
  BY <1>0, <1>3 DEF ApplyReply, MayReply, Terminal
<1>4. ASSUME NEW E \in SUBSET Expirable,
             ListSessions(E) \/ \E s \in Sessions : CreateSession(s, E)
      PROVE  status'[t] \in {status[t], "gone"}
  BY <1>4 DEF ListSessions, CreateSession, Terminal
<1>5. CASE Restart \/ UNCHANGED vars
  BY <1>5 DEF Restart, vars, stored
<1>. QED
  BY <1>2, <1>3, <1>4, <1>5 DEF Next, Client

(* When repository calls do not raise, a verdict is final although         *)
(* set_status has no guard: the coroutine that stored it only goes on to   *)
(* the analysis, to the event that is not sent, or to its end.             *)
THEOREM VerdictsAreFinal == MaxFaults = 0 => (Spec => VerdictIsFinal)
<1>. SUFFICES ASSUME MaxFaults = 0 PROVE Spec => VerdictIsFinal
  OBVIOUS
<1>1. CalmInv /\ PlacesInv /\ SlotInv /\ faults = 0 /\ [Next]_vars =>
        [\A s \in Sessions : status[s] \in Terminal =>
           status'[s] \in {status[s], "gone"}]_vars
  BY CalmKeepsVerdict
<1>2. Spec => [](faults = 0)
  BY FaultsBounded
<1>. QED
  BY <1>1, <1>2, SpecCalmInv, SpecPlacesInv, SpecSlotInv, PTL DEF Spec, VerdictIsFinal
=============================================================================
