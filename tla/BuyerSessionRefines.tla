------------------------ MODULE BuyerSessionRefines ------------------------
(***************************************************************************)
(* BuyerSession keeps its three promises for any set of sessions and all   *)
(* bounds: towards the client of the API (SessionLifecycle) and towards    *)
(* the receiver of its callbacks (BuyerView), while no repository call     *)
(* raises, and towards the repository that keeps its rows (SessionRow),    *)
(* whatever raises.  And what the page of micro-ui shows agrees with the   *)
(* row.                                                                    *)
(***************************************************************************)
EXTENDS BuyerSessionCalm, BuyerSessionReplies

-----------------------------------------------------------------------------
(* SessionLifecycle: what a step of one session does to the others *)

LEMMA OthersPhase ==
  ASSUME TypeOK, NEW s \in Sessions, NEW r \in Nat,
         Runner(s) \/ StoreFault(s) \/ ApplyReply(s, r),
         NEW t \in Sessions \ {s}
  PROVE  Phase(t)' = Phase(t) /\ (IsActive(t)' <=> IsActive(t))
<1>. USE DEF stored, Local, Finish, Raise, SetStatus
<1>. SUFFICES status'[t] = status[t] /\ task'[t] = task[t] /\ (t \in runtime' <=> t \in runtime)
  BY DEF Phase, IsActive
<1>0. status'[t] = status[t]
  BY OthersStay DEF Stays
<1>. SUFFICES task'[t] = task[t] /\ (t \in runtime' <=> t \in runtime)
  BY <1>0
<1>1. CASE StartTask(s) \/ Boot(s) \/ Authenticate(s) \/ BeginStep(s) \/ RunStep(s)
  BY <1>1 DEF TypeOK, StartTask, Boot, Authenticate, BeginStep, RunStep
<1>2. CASE StepRaises(s) \/ AskUser(s) \/ Woken(s) \/ PopReply(s) \/ Dispatch(s)
  BY <1>2 DEF TypeOK, StepRaises, AskUser, Woken, PopReply, Dispatch
<1>3. CASE EmitVerdict(s) \/ Settle(s) \/ ScheduleAnalysis(s) \/ Unexpected(s) \/ RowGone(s)
           \/ DoneCallback(s)
  BY <1>3 DEF TypeOK, EmitVerdict, Settle, ScheduleAnalysis, Unexpected, RowGone, DoneCallback
<1>4. CASE EmitAppend(s) \/ EmitDuplicate(s) \/ Delivered(s) \/ AttemptFails(s)
  BY <1>4 DEF TypeOK, EmitAppend, EmitDuplicate, Delivered, AttemptFails
<1>5. CASE MarkDelivered(s) \/ MarkFailed(s) \/ DeliveryError(s) \/ Fallback(s)
  BY <1>5 DEF TypeOK, MarkDelivered, MarkFailed, DeliveryError, Fallback
<1>6. CASE StoreFault(s) \/ ApplyReply(s, r)
  BY <1>6 DEF TypeOK, StoreFault, ApplyReply
<1>. QED
  BY <1>1, <1>2, <1>3, <1>4, <1>5, <1>6 DEF Runner, Emission

(* The three shapes of a step of one session: it gives the session up      *)
(* without a word, it moves the phase, or it does both at once.            *)
LEMMA OneDrops ==
  ASSUME NEW s \in Sessions,
         \A t \in Sessions \ {s} : Phase(t)' = Phase(t) /\ (IsActive(t)' <=> IsActive(t)),
         Phase(s)' = Phase(s), IsActive(s)' => IsActive(s)
  PROVE  Lifecycle!LNext
<1>1. [x \in Sessions |-> Phase(x)]' = [x \in Sessions |-> Phase(x)]
  OBVIOUS
<1>. DEFINE A == {x \in Sessions : IsActive(x)}
<1>2. A' = A \ (A \ A') /\ (A \ A') \in SUBSET A
  OBVIOUS
<1>3. Lifecycle!Drop(A \ A')
  BY <1>1, <1>2 DEF Lifecycle!Drop
<1>. QED
  BY <1>2, <1>3 DEF Lifecycle!LNext

LEMMA LifecycleInit == Init => Lifecycle!LInit
  BY DEF Init, Lifecycle!LInit, Phase, IsActive
(* Most steps of a coroutine leave the phase alone.                        *)
LEMMA QuietDrops ==
  ASSUME SlotInv, PlacesInv, NEW s \in Sessions,
         Runner(s) \/ StoreFault(s), ~AskUser(s), ~Settle(s), ~DeliveryError(s)
  PROVE  Lifecycle!LNext
<1>. USE DEF stored, Local, Finish, Raise
<1>0. TypeOK /\ 0 \in Nat
  BY DEF SlotInv
<1>1. \A t \in Sessions \ {s} : Phase(t)' = Phase(t) /\ (IsActive(t)' <=> IsActive(t))
  BY <1>0, OthersPhase
<1>2. CASE StartTask(s)
  <2>1. pc[s] = "creating" /\ status'[s] = "running"
    BY <1>0, <1>2 DEF StartTask, TypeOK
  <2>2. status[s] = "created" /\ IsActive(s)
    BY <2>1 DEF PlacesInv, PlaceInv, SlotInv, Where, InEmission, HasRunner, ActiveStatus
  <2>3. Phase(s)' = Phase(s)
    BY <2>1, <2>2 DEF Phase
  <2>. QED  BY <1>1, <2>2, <2>3, OneDrops
<1>3. CASE ~StartTask(s)
  <2>1. UNCHANGED status /\ (s \in runtime' => s \in runtime)
        /\ (task'[s] = task[s] \/ task'[s] = "done")
    <3>1. CASE Boot(s) \/ Authenticate(s) \/ BeginStep(s) \/ RunStep(s)
      BY <3>1 DEF Boot, Authenticate, BeginStep, RunStep
    <3>2. CASE StepRaises(s) \/ Woken(s) \/ PopReply(s) \/ Dispatch(s)
      BY <1>0, <3>2 DEF TypeOK, StepRaises, Woken, PopReply, Dispatch
    <3>3. CASE EmitVerdict(s) \/ ScheduleAnalysis(s) \/ Unexpected(s) \/ RowGone(s)
               \/ DoneCallback(s)
      BY <1>0, <3>3 DEF TypeOK, EmitVerdict, ScheduleAnalysis, Unexpected, RowGone, DoneCallback
    <3>4. CASE EmitAppend(s) \/ EmitDuplicate(s) \/ Delivered(s) \/ AttemptFails(s)
      BY <1>0, <3>4 DEF TypeOK, EmitAppend, EmitDuplicate, Delivered, AttemptFails
    <3>5. CASE MarkDelivered(s) \/ MarkFailed(s) \/ Fallback(s) \/ StoreFault(s)
      BY <1>0, <3>5 DEF TypeOK, MarkDelivered, MarkFailed, Fallback, StoreFault
    <3>. QED  BY <1>3, <3>1, <3>2, <3>3, <3>4, <3>5 DEF Runner, Emission
  <2>2. Phase(s)' = Phase(s) /\ (IsActive(s)' => IsActive(s))
    BY <2>1 DEF Phase, IsActive
  <2>. QED  BY <1>1, <2>2, OneDrops
<1>. QED
  BY <1>2, <1>3

(* A session whose phase moves while it is in hand, and stays there.       *)
LEMMA OneTalks ==
  ASSUME NEW s \in Sessions, IsActive(s), IsActive(s)',
         \A t \in Sessions \ {s} : Phase(t)' = Phase(t) /\ (IsActive(t)' <=> IsActive(t)),
         \/ Phase(s) = "open" /\ Phase(s)' = "waiting"
         \/ Phase(s) = "waiting" /\ Phase(s)' = "open"
  PROVE  Lifecycle!LNext
<1>1. {x \in Sessions : IsActive(x)}' = {x \in Sessions : IsActive(x)}
  OBVIOUS
<1>2. [x \in Sessions |-> Phase(x)]' = [[x \in Sessions |-> Phase(x)] EXCEPT ![s] = Phase(s)']
  OBVIOUS
<1>3. Lifecycle!Ask(s) \/ Lifecycle!Answer(s)
  BY <1>1, <1>2 DEF Lifecycle!Ask, Lifecycle!Answer
<1>. QED
  BY <1>3 DEF Lifecycle!LNext

LEMMA OneConcludes ==
  ASSUME NEW s \in Sessions, IsActive(s), ~IsActive(s)',
         \A t \in Sessions \ {s} : Phase(t)' = Phase(t) /\ (IsActive(t)' <=> IsActive(t)),
         Phase(s)' \in Terminal
  PROVE  Lifecycle!LNext
<1>1. {x \in Sessions : IsActive(x)}' = {x \in Sessions : IsActive(x)} \ {s}
  OBVIOUS
<1>2. [x \in Sessions |-> Phase(x)]' = [[x \in Sessions |-> Phase(x)] EXCEPT ![s] = Phase(s)']
  OBVIOUS
<1>3. Lifecycle!Conclude(s, Phase(s)')
  BY <1>1, <1>2 DEF Lifecycle!Conclude
<1>. QED
  BY <1>3 DEF Lifecycle!LNext, Lifecycle!Verdicts, Terminal

LEMMA TalksAndConcludes ==
  ASSUME SlotInv, PlacesInv, NEW s \in Sessions, Calm(s), NEW r \in Nat,
         AskUser(s) \/ ApplyReply(s, r) \/ Settle(s) \/ DeliveryError(s)
  PROVE  Lifecycle!LNext
<1>. USE DEF stored, Goto
<1>0. /\ TypeOK /\ status \in [Sessions -> Status] /\ frame[s].verdict \in Terminal
      /\ PlaceInv(s)
  BY DEF SlotInv, TypeOK, Frames, PlacesInv
<1>1. \A t \in Sessions \ {s} : Phase(t)' = Phase(t) /\ (IsActive(t)' <=> IsActive(t))
  BY <1>0, OthersPhase DEF Runner, Emission
<1>2. CASE AskUser(s)
  <2>1. pc[s] = "ask" /\ status'[s] = "waiting_user" /\ UNCHANGED <<runtime, task>>
    BY <1>0, <1>2 DEF AskUser, At
  <2>2. status[s] = "running" /\ IsActive(s)
    BY <1>0, <2>1 DEF PlaceInv, SlotInv, Where, InEmission, Busy, HasRunner, ActiveStatus
  <2>3. Phase(s) = "open" /\ Phase(s)' = "waiting" /\ IsActive(s)'
    BY <2>1, <2>2 DEF Phase, IsActive, ActiveStatus
  <2>. QED  BY <1>1, <2>2, <2>3, OneTalks
<1>3. CASE ApplyReply(s, r)
  <2>1. /\ status[s] = "waiting_user" /\ status'[s] = "running" /\ UNCHANGED <<runtime, task>>
        /\ IsActive(s)
    BY <1>0, <1>3 DEF ApplyReply, MayReply
  <2>2. Phase(s) = "waiting" /\ Phase(s)' = "open" /\ IsActive(s)'
    BY <2>1 DEF Phase, IsActive, ActiveStatus
  <2>. QED  BY <1>1, <2>1, <2>2, OneTalks
<1>4. CASE Settle(s) \/ DeliveryError(s)
  <2>1. pc[s] \in {"settle", "delivery_error"} /\ status'[s] \in Terminal
    BY <1>0, <1>4 DEF Settle, DeliveryError, SetStatus, At, Terminal
  <2>2. status[s] \in ActiveStatus /\ IsActive(s)
    <3>1. status[s] # "absent" /\ status[s] \notin Over
      BY <1>0, <2>1 DEF PlaceInv, Calm, Ended
    <3>2. status[s] \in ActiveStatus
      BY <1>0, <3>1 DEF Status, Over
    <3>. QED  BY <2>1, <3>2 DEF SlotInv, HasRunner
  <2>3. Phase(s)' \in Terminal /\ ~IsActive(s)'
    BY <2>1 DEF Phase, IsActive, ActiveStatus, Terminal
  <2>. QED  BY <1>1, <2>2, <2>3, OneConcludes
<1>. QED
  BY <1>2, <1>3, <1>4

-----------------------------------------------------------------------------
(* SessionLifecycle: the client and the process *)

(* The instance of FiniteSets counts like ours.                            *)
LEMMA SameCount == \A S : Lifecycle!Cardinality(S) = Cardinality(S)
  BY DEF Lifecycle!Cardinality, Cardinality

LEMMA Admits ==
  ASSUME SlotInv, TypeOK', NEW s \in Sessions, NEW E \in SUBSET Expirable, CreateSession(s, E)
  PROVE  Lifecycle!LNext
<1>. DEFINE P == [x \in Sessions |-> Phase(x)]
            A == {x \in Sessions : IsActive(x)}
<1>1. /\ Forget(E, {s}) /\ status[s] = "absent" /\ s \notin E
      /\ status' = [t \in Sessions |-> IF t = s THEN "created"
                                       ELSE IF t \in E THEN "gone" ELSE status[t]]
      /\ Cardinality(A) < MaxActive
  BY DEF CreateSession, Expirable, Terminal
<1>2. s \in runtime' /\ task'[s] # "done"
  BY <1>1 DEF Forget, Finished, SlotInv, TypeOK
<1>3. IsActive(s)'
  BY <1>1, <1>2 DEF IsActive, ActiveStatus
<1>4. \A t \in Sessions \ {s} : IsActive(t)' <=> IsActive(t)
  <2>. SUFFICES ASSUME NEW t \in Sessions \ {s} PROVE IsActive(t)' <=> IsActive(t)
    OBVIOUS
  <2>1. /\ t \in runtime' => t \in runtime /\ task[t] # "done"
        /\ task'[t] # "done"
        /\ IsActive(t) => t \in runtime' /\ t \notin E
    BY <1>1 DEF SlotInv, TypeOK, Forget, Finished, Expirable, IsActive, ActiveStatus, Terminal
  <2>2. status'[t] \in ActiveStatus <=> status[t] \in ActiveStatus
    BY <1>1 DEF Expirable, ActiveStatus, Terminal
  <2>. QED  BY <2>1, <2>2 DEF IsActive
<1>5. A' = A \cup {s}
  BY <1>3, <1>4
<1>6. P[s] = "absent" /\ E \in SUBSET {x \in Sessions : P[x] \in Terminal}
  BY <1>1 DEF Phase, Expirable, Terminal
<1>7. P' = [[x \in Sessions |-> IF x \in E THEN "gone" ELSE P[x]] EXCEPT ![s] = "open"]
  <2>1. Phase(s)' = "open"
    BY <1>1 DEF Phase
  <2>2. \A t \in Sessions \ {s} : Phase(t)' = IF t \in E THEN "gone" ELSE Phase(t)
    BY <1>1 DEF Phase
  <2>. QED  BY <2>1, <2>2
<1>8. Lifecycle!Admit(s, E)
  <2>1. Lifecycle!Forgotten(E) = [x \in Sessions |-> IF x \in E THEN "gone" ELSE P[x]]
    BY DEF Lifecycle!Forgotten
  <2>. HIDE DEF P
  <2>2. P' = [Lifecycle!Forgotten(E) EXCEPT ![s] = "open"]
    BY <1>7, <2>1
  <2>3. P[s] = "absent" /\ Cardinality(A) < MaxActive
    BY <1>1, <1>6
  <2>. QED  BY <1>5, <2>2, <2>3, SameCount DEF Lifecycle!Admit, P
<1>9. E \in SUBSET Lifecycle!Settled
  BY <1>6 DEF Lifecycle!Settled, Lifecycle!Verdicts, Terminal
<1>. QED
  BY <1>8, <1>9 DEF Lifecycle!LNext

LEMMA Forgets ==
  ASSUME SlotInv, NEW E \in SUBSET Expirable, ListSessions(E)
  PROVE  Lifecycle!LNext
<1>. DEFINE P == [x \in Sessions |-> Phase(x)]
            A == {x \in Sessions : IsActive(x)}
<1>1. /\ Forget(E, {})
      /\ status' = [t \in Sessions |-> IF t \in E THEN "gone" ELSE status[t]]
  BY DEF ListSessions
<1>2. \A t \in Sessions : status'[t] \in ActiveStatus <=> status[t] \in ActiveStatus
  BY <1>1 DEF Expirable, ActiveStatus, Terminal
<1>3. A' = A
  BY <1>1, <1>2, ForgetSlot DEF IsActive
<1>4. P' = [x \in Sessions |-> IF x \in E THEN "gone" ELSE P[x]]
  BY <1>1 DEF Phase
<1>5. E \in SUBSET Lifecycle!Settled
  BY DEF Lifecycle!Settled, Lifecycle!Verdicts, Terminal, Expirable, Phase
<1>6. Lifecycle!Forget(E)
  BY <1>3, <1>4 DEF Lifecycle!Forget, Lifecycle!Forgotten
<1>. QED
  BY <1>5, <1>6 DEF Lifecycle!LNext

LEMMA ProcessDrops == Restart => Lifecycle!LNext
<1>. SUFFICES ASSUME Restart PROVE Lifecycle!LNext
  OBVIOUS
<1>. DEFINE A == {x \in Sessions : IsActive(x)}
<1>1. [x \in Sessions |-> Phase(x)]' = [x \in Sessions |-> Phase(x)]
  BY DEF Restart, stored, Phase
<1>2. A' = A \ A /\ A \in SUBSET A
  BY DEF Restart, IsActive
<1>3. Lifecycle!Drop(A)
  BY <1>1, <1>2 DEF Lifecycle!Drop
<1>. QED
  BY <1>2, <1>3 DEF Lifecycle!LNext

LEMMA LifecycleStep ==
  ASSUME CalmInv, PlacesInv, SlotInv, TypeOK', faults = 0, [Next]_vars
  PROVE  [Lifecycle!LNext]_(Lifecycle!lifecycleVars)
<1>0. 0 \in Nat /\ \A s \in Sessions : Calm(s)
  BY DEF CalmInv
<1>1. ASSUME NEW s \in Sessions, Runner(s) \/ StoreFault(s) PROVE Lifecycle!LNext
  BY <1>0, <1>1, QuietDrops, TalksAndConcludes
<1>2. ASSUME NEW s \in Sessions, Client(s) PROVE Lifecycle!LNext
  BY <1>0, <1>2, Admits, TalksAndConcludes DEF Client
<1>3. CASE UNCHANGED vars
  BY <1>3 DEF vars, stored, Lifecycle!lifecycleVars, Phase, IsActive
<1>. QED
  BY <1>1, <1>2, <1>3, Forgets, ProcessDrops DEF Next

(* When repository calls do not raise, a buyer process is a                *)
(* SessionLifecycle, step by step: at most MaxActive sessions are in hand, *)
(* questions and verdicts come only from a session in hand, a verdict is   *)
(* never followed by another, and what is dropped is never taken up again. *)
THEOREM LifecycleIsKept == MaxFaults = 0 => (Spec => KeepsLifecycle)
<1>. SUFFICES ASSUME MaxFaults = 0 PROVE Spec => KeepsLifecycle
  OBVIOUS
<1>1. CalmInv /\ PlacesInv /\ SlotInv /\ TypeOK' /\ faults = 0 /\ [Next]_vars =>
        [Lifecycle!LNext]_(Lifecycle!lifecycleVars)
  BY LifecycleStep
<1>2. Spec => [](faults = 0)
  BY FaultsBounded
<1>. QED
  BY <1>1, <1>2, LifecycleInit, SpecCalmInv, SpecPlacesInv, SpecSlotInv, SpecTypeOK, PTL
  DEF Spec, KeepsLifecycle, Lifecycle!LSpec
-----------------------------------------------------------------------------
(* SessionRow: every step is one call on the row of a session, or none     *)

SameRow(t) ==
  /\ status'[t] = status[t] /\ question'[t] = question[t] /\ pending'[t] = pending[t]
  /\ log'[t] = log[t]

RowStep(t) == Row(t)!RNext \/ RowOf(t)' = RowOf(t)

LEMMA SameRowSteps ==
  ASSUME NEW t \in Sessions, SameRow(t)
  PROVE  RowStep(t)
  BY DEF SameRow, RowStep, RowOf

(* The row of a session that exists is the record of its four variables.   *)
LEMMA RowIs ==
  ASSUME NEW t \in Sessions, status[t] \notin {"absent", "gone"}
  PROVE  /\ RowOf(t) = [status |-> status[t], question |-> question[t],
                        pending |-> pending[t], log |-> log[t]]
         /\ Row(t)!Exists
  BY DEF RowOf, Row!Exists

LEMMA RowIsNext ==
  ASSUME NEW t \in Sessions, status'[t] \notin {"absent", "gone"}
  PROVE  RowOf(t)' = [status |-> status'[t], question |-> question'[t],
                      pending |-> pending'[t], log |-> log'[t]]
  BY DEF RowOf

(* set_status: StartTask, Settle and DeliveryError.                        *)
LEMMA StatusRow ==
  ASSUME TypeOK, PlacesInv, NEW s \in Sessions, StartTask(s) \/ Settle(s) \/ DeliveryError(s)
  PROVE  RowStep(s)
<1>. USE DEF stored
<1>0. /\ status \in [Sessions -> Status] /\ frame[s].verdict \in Terminal /\ PlaceInv(s)
  BY DEF TypeOK, Frames, PlacesInv
<1>1. /\ pc[s] # "none" /\ status[s] # "gone" /\ UNCHANGED <<question, pending, log>>
      /\ status'[s] \in Terminal \cup {"running"}
  <2>1. CASE StartTask(s)
    BY <1>0, <2>1 DEF StartTask, PlaceInv, Where, InEmission
  <2>2. CASE Settle(s) \/ DeliveryError(s)
    BY <1>0, <2>2 DEF Settle, DeliveryError, At, ReadsRow, SetStatus, Terminal
  <2>. QED  BY <2>1, <2>2
<1>2. status[s] \notin {"absent", "gone"} /\ status'[s] \notin {"absent", "gone"}
  BY <1>0, <1>1 DEF PlaceInv, Terminal
<1>3. RowOf(s)' = [RowOf(s) EXCEPT !.status = status'[s]] /\ Row(s)!Exists
  BY <1>1, <1>2, RowIs, RowIsNext
<1>4. Row(s)!SetStatus
  BY <1>1, <1>3 DEF Row!SetStatus, Row!Terminal, Terminal
<1>. QED
  BY <1>4 DEF RowStep, Row!RNext

(* set_waiting_question, apply_reply and pop_reply.                        *)
LEMMA HandshakeRow ==
  ASSUME TypeOK, PlacesInv, AnswersInv, NEW s \in Sessions, NEW r \in Nat \ {0},
         AskUser(s) \/ ApplyReply(s, r) \/ PopReply(s)
  PROVE  RowStep(s)
<1>0. /\ status \in [Sessions -> Status] /\ PlaceInv(s) /\ AnsInv(s) /\ frame[s].asked \in Nat
      /\ question \in [Sessions -> Nat] /\ pending \in [Sessions -> Nat] /\ log' = log
  BY DEF TypeOK, Frames, PlacesInv, AnswersInv, AskUser, ApplyReply, PopReply
<1>1. CASE AskUser(s)
  <2>1. /\ pc[s] = "ask" /\ status'[s] = "waiting_user" /\ question'[s] = frame[s].asked + 1
        /\ pending'[s] = 0
    BY <1>0, <1>1 DEF AskUser, At
  <2>2. status[s] = "running" /\ question[s] = 0 /\ pending[s] = 0
    BY <1>0, <2>1 DEF PlaceInv, AnsInv, Where, InEmission, Busy, AfterStep
  <2>3. RowOf(s) = [status |-> "running", question |-> 0, pending |-> 0, log |-> log[s]]
    BY <2>2, RowIs
  <2>4. RowOf(s)' = [status |-> "waiting_user", question |-> frame[s].asked + 1,
                     pending |-> 0, log |-> log[s]]
    BY <1>0, <2>1, RowIsNext
  <2>5. frame[s].asked + 1 > 0
    BY <1>0
  <2>6. RowOf(s)' = [RowOf(s) EXCEPT !.status = "waiting_user", !.question = RowOf(s)'.question]
    <3>. DEFINE n == RowOf(s)'.question
                T == [RowOf(s) EXCEPT !.status = "waiting_user"]
    <3>1. T = [status |-> "waiting_user", question |-> 0, pending |-> 0, log |-> log[s]]
      BY <2>3
    <3>2. [RowOf(s) EXCEPT !.status = "waiting_user", !.question = n] = [T EXCEPT !.question = n]
      OBVIOUS
    <3>3. n = frame[s].asked + 1
      BY <2>4
    <3>. HIDE DEF T, n
    <3>4. RowOf(s)' = [T EXCEPT !.question = n]
      BY <2>4, <3>1, <3>3
    <3>. QED  BY <3>2, <3>4 DEF n
  <2>7. /\ RowOf(s).status = "running" /\ RowOf(s).question = 0 /\ RowOf(s).pending = 0
        /\ RowOf(s)'.question > 0
    BY <2>3, <2>4, <2>5
  <2>8. Row(s)!Ask
    BY <2>6, <2>7 DEF Row!Ask
  <2>. QED  BY <2>8 DEF RowStep, Row!RNext
<1>2. CASE ApplyReply(s, r)
  <2>1. /\ status[s] = "waiting_user" /\ question[s] = r /\ status'[s] = "running"
        /\ question'[s] = 0 /\ pending'[s] = r
    BY <1>0, <1>2 DEF ApplyReply, MayReply
  <2>2. RowOf(s) = [status |-> "waiting_user", question |-> r, pending |-> pending[s],
                    log |-> log[s]]
    BY <2>1, RowIs
  <2>3. RowOf(s)' = [status |-> "running", question |-> 0, pending |-> r, log |-> log[s]]
    BY <1>0, <2>1, RowIsNext
  <2>4. r > 0
    OBVIOUS
  <2>5. RowOf(s)' = [RowOf(s) EXCEPT !.status = "running", !.question = 0,
                                     !.pending = RowOf(s).question]
    <3>. DEFINE T == [RowOf(s) EXCEPT !.status = "running"]
                U == [T EXCEPT !.question = 0]
    <3>1. T = [status |-> "running", question |-> r, pending |-> pending[s], log |-> log[s]]
      BY <2>2
    <3>2. [RowOf(s) EXCEPT !.status = "running", !.question = 0, !.pending = RowOf(s).question]
            = [U EXCEPT !.pending = RowOf(s).question]
      OBVIOUS
    <3>. HIDE DEF T
    <3>3. U = [status |-> "running", question |-> 0, pending |-> pending[s], log |-> log[s]]
      BY <3>1
    <3>. HIDE DEF U
    <3>4. RowOf(s).question = r
      BY <2>2
    <3>5. RowOf(s)' = [U EXCEPT !.pending = RowOf(s).question]
      BY <2>3, <3>3, <3>4
    <3>. QED  BY <3>2, <3>5
  <2>6. RowOf(s).status = "waiting_user" /\ RowOf(s).question > 0
    BY <2>2, <2>4
  <2>7. Row(s)!Reply
    BY <2>5, <2>6 DEF Row!Reply
  <2>. QED  BY <2>7 DEF RowStep, Row!RNext
<1>3. CASE PopReply(s)
  <2>1. /\ pc[s] = "pop" /\ UNCHANGED <<status, question>>
        /\ pending'[s] = 0 /\ pending[s] # 0
    BY <1>0, <1>3 DEF PopReply, At, PlaceInv, Where, InEmission
  <2>2. status[s] = "running"
    BY <1>0, <2>1 DEF PlaceInv, Where, InEmission, Busy
  <2>3. RowOf(s) = [status |-> "running", question |-> question[s], pending |-> pending[s],
                    log |-> log[s]]
    BY <2>2, RowIs
  <2>4. RowOf(s)' = [status |-> "running", question |-> question[s], pending |-> 0,
                     log |-> log[s]]
    BY <1>0, <2>1, <2>2, RowIsNext
  <2>5. pending[s] > 0
    BY <1>0, <2>1
  <2>6. Row(s)!Take
    BY <2>3, <2>4, <2>5 DEF Row!Take
  <2>. QED  BY <2>6 DEF RowStep, Row!RNext
<1>. QED
  BY <1>1, <1>2, <1>3

(* append_event: EmitAppend and Fallback.                                  *)
LEMMA AppendRow ==
  ASSUME TypeOK, PlacesInv, NEW s \in Sessions, EmitAppend(s) \/ Fallback(s)
  PROVE  RowStep(s)
<1>0. log[s] \in Seq(Events) /\ PlaceInv(s) /\ frame[s] \in Frames
  BY DEF TypeOK, PlacesInv
<1>1. pc[s] # "none" /\ status[s] # "gone" /\ UNCHANGED <<status, question, pending>>
  BY DEF EmitAppend, Fallback, At, ReadsRow
<1>2. \E e : log'[s] = Append(log[s], e)
  BY DEF EmitAppend, Fallback, TypeOK
<1>3. PICK e \in Events : log'[s] = Append(log[s], e)
  <2>1. CASE EmitAppend(s)
    BY <1>0, <2>1 DEF EmitAppend, TypeOK, Frames
  <2>2. CASE Fallback(s)
    BY <1>0, <2>2, EventType DEF Fallback, TypeOK, Terminal
  <2>. QED  BY <2>1, <2>2
<1>4. status[s] \notin {"absent", "gone"}
  BY <1>0, <1>1 DEF PlaceInv
<1>5. RowOf(s)' = [RowOf(s) EXCEPT !.log = log'[s]] /\ RowOf(s).log = log[s] /\ Row(s)!Exists
      /\ RowOf(s)'.log = log'[s]
  BY <1>1, <1>4, RowIs, RowIsNext
<1>6. Len(log'[s]) = Len(log[s]) + 1 /\ SubSeq(log'[s], 1, Len(log[s])) = log[s]
  <2>. DEFINE q == log[s]
              b == log'[s]
  <2>1. /\ q \in Seq(Events) /\ b \in Seq(Events) /\ Len(b) = Len(q) + 1 /\ Len(q) \in Nat
        /\ \A i \in 1..Len(q) : b[i] = q[i]
    BY <1>0, <1>3
  <2>. HIDE DEF q, b
  <2>2. SubSeq(b, 1, Len(q)) \in Seq(Events) /\ Len(SubSeq(b, 1, Len(q))) = Len(q)
        /\ \A i \in 1..Len(q) : SubSeq(b, 1, Len(q))[i] = q[i]
    BY <2>1
  <2>3. SubSeq(b, 1, Len(q)) = q
    BY <2>1, <2>2
  <2>. QED  BY <2>1, <2>3 DEF q, b
<1>7. Row(s)!AppendEvent
  BY <1>5, <1>6 DEF Row!AppendEvent
<1>. QED
  BY <1>7 DEF RowStep, Row!RNext
(* create_session, and the rows that have expired.                         *)
LEMMA ClientRow ==
  ASSUME TypeOK, PlacesInv, AnswersInv, NEW E \in SUBSET Expirable,
         ListSessions(E) \/ \E s \in Sessions : CreateSession(s, E),
         NEW t \in Sessions
  PROVE  RowStep(t)
<1>0. PlaceInv(t) /\ AnsInv(t) /\ status \in [Sessions -> Status]
  BY DEF TypeOK, PlacesInv, AnswersInv
<1>1. CASE CreateSession(t, E)
  <2>1. /\ status[t] = "absent" /\ t \notin E /\ status'[t] = "created" /\ Forget(E, {t})
    BY <1>0, <1>1 DEF CreateSession, Expirable, Terminal
  <2>2. question'[t] = 0 /\ pending'[t] = 0 /\ log'[t] = <<>>
    BY <1>0, <2>1 DEF Forget, PlaceInv, AnsInv, Held
  <2>3. RowOf(t) = Row(t)!NoRow
    BY <2>1 DEF RowOf, Row!NoRow
  <2>4. RowOf(t)' = [status |-> "created", question |-> 0, pending |-> 0, log |-> <<>>]
    BY <2>1, <2>2, RowIsNext
  <2>5. RowOf(t)' = [Row(t)!NoRow EXCEPT !.status = "created"]
    BY <2>4 DEF Row!NoRow
  <2>6. Row(t)!Create
    BY <2>3, <2>5 DEF Row!Create
  <2>. QED  BY <2>6 DEF RowStep, Row!RNext
<1>2. CASE ~CreateSession(t, E)
  <2>1. /\ status'[t] = IF t \in E THEN "gone" ELSE status[t]
        /\ \E used : Forget(E, used)
    <3>1. CASE ListSessions(E)
      BY <3>1 DEF ListSessions
    <3>2. ASSUME NEW s \in Sessions, CreateSession(s, E), s # t
          PROVE  /\ status'[t] = IF t \in E THEN "gone" ELSE status[t]
                 /\ \E used : Forget(E, used)
      BY <3>2 DEF CreateSession
    <3>. QED  BY <1>2, <3>1, <3>2
  <2>2. CASE t \notin E
    <3>1. SameRow(t)
      BY <2>1, <2>2 DEF Forget, SameRow
    <3>. QED  BY <3>1, SameRowSteps
  <2>3. CASE t \in E
    <3>1. status[t] \in Terminal /\ status'[t] = "gone"
      BY <2>1, <2>3 DEF Expirable
    <3>2. RowOf(t).status \in Terminal
      BY <3>1, RowIs DEF Terminal
    <3>3. RowOf(t)' = Row(t)!NoRow
      BY <3>1 DEF RowOf, Row!NoRow
    <3>4. Row(t)!Expire
      BY <3>2, <3>3 DEF Row!Expire, Row!Terminal, Terminal
    <3>. QED  BY <3>4 DEF RowStep, Row!RNext
  <2>. QED  BY <2>2, <2>3
<1>. QED
  BY <1>1, <1>2

(* The other steps of a coroutine leave the row alone.                     *)
LEMMA QuietRow ==
  ASSUME TypeOK, PlacesInv, NEW s \in Sessions,
         Runner(s) \/ StoreFault(s),
         ~(StartTask(s) \/ Settle(s) \/ DeliveryError(s)),
         ~(AskUser(s) \/ PopReply(s)), ~(EmitAppend(s) \/ Fallback(s))
  PROVE  SameRow(s)
<1>. USE DEF SameRow, stored, Local
<1>1. CASE Boot(s) \/ Authenticate(s) \/ BeginStep(s) \/ RunStep(s) \/ StepRaises(s) \/ Dispatch(s)
  BY <1>1 DEF Boot, Authenticate, BeginStep, RunStep, StepRaises, Dispatch
<1>2. CASE Woken(s) \/ EmitVerdict(s) \/ ScheduleAnalysis(s) \/ Unexpected(s) \/ RowGone(s)
           \/ DoneCallback(s)
  BY <1>2 DEF Woken, EmitVerdict, ScheduleAnalysis, Unexpected, RowGone, DoneCallback
<1>3. CASE EmitDuplicate(s) \/ Delivered(s) \/ AttemptFails(s) \/ MarkDelivered(s) \/ MarkFailed(s)
           \/ StoreFault(s)
  BY <1>3 DEF EmitDuplicate, Delivered, AttemptFails, MarkDelivered, MarkFailed, StoreFault
<1>. QED
  BY <1>1, <1>2, <1>3 DEF Runner, Emission

LEMMA OthersRow ==
  ASSUME TypeOK, NEW s \in Sessions, NEW r \in Nat,
         Runner(s) \/ StoreFault(s) \/ ApplyReply(s, r),
         NEW t \in Sessions \ {s}
  PROVE  RowStep(t)
<1>1. SameRow(t)
  BY OthersStay, OthersStill DEF Stays, Still, SameTalk, SameRow
<1>. QED
  BY <1>1, SameRowSteps

LEMMA RowSteps ==
  ASSUME AnswersInv, PlacesInv, SlotInv, [Next]_vars, NEW t \in Sessions
  PROVE  [Row(t)!RNext]_(RowOf(t))
<1>. SUFFICES RowStep(t)
  BY DEF RowStep
<1>0. TypeOK /\ 0 \in Nat /\ 1..MaxSteps \subseteq Nat \ {0}
  BY ConstantsAssumption DEF SlotInv, ConstantsAssumption
<1>1. CASE Runner(t) \/ StoreFault(t)
  <2>1. 1 \in Nat \ {0}
    OBVIOUS
  <2>. QED
    BY <1>0, <1>1, <2>1, StatusRow, HandshakeRow, AppendRow, QuietRow, SameRowSteps
<1>2. ASSUME NEW s \in Sessions \ {t}, Runner(s) \/ StoreFault(s) PROVE RowStep(t)
  BY <1>0, <1>2, OthersRow
<1>3. ASSUME NEW s \in Sessions, NEW r \in 1..MaxSteps, ApplyReply(s, r) PROVE RowStep(t)
  <2>1. r \in Nat \ {0}
    BY <1>0
  <2>2. CASE s = t
    BY <1>0, <1>3, <2>1, <2>2, HandshakeRow
  <2>3. CASE s # t
    BY <1>0, <1>3, <2>1, <2>3, OthersRow
  <2>. QED  BY <2>2, <2>3
<1>4. CASE Restart \/ UNCHANGED vars
  <2>1. SameRow(t)
    BY <1>4 DEF Restart, vars, stored, SameRow
  <2>. QED  BY <2>1, SameRowSteps
<1>. QED
  BY <1>0, <1>1, <1>2, <1>3, <1>4, ClientRow DEF Next, Client

(* Whatever raises, expires or restarts, what the process does to the row  *)
(* of a session is one call of SessionStore at a time: no question is put  *)
(* over another one or over a reply, no reply is lost, the outbox only     *)
(* grows, and only a settled row is deleted.                               *)
THEOREM RowIsKept == Spec => KeepsRow
<1>1. Init => \A s \in Sessions : Row(s)!RInit
  BY DEF Init, Row!RInit, Row!NoRow, RowOf
<1>2. Spec => []AnswersInv
  BY AnswersInvInit, AnswersInvStep, SpecSlotInv, PTL DEF Spec
<1>3. AnswersInv /\ PlacesInv /\ SlotInv /\ [Next]_vars =>
        [\A s \in Sessions : [Row(s)!RNext]_(RowOf(s))]_vars
  BY RowSteps
<1>. QED
  BY <1>1, <1>2, <1>3, SpecPlacesInv, SpecSlotInv, PTL DEF Spec, KeepsRow

-----------------------------------------------------------------------------
(* The page of micro-ui and the row *)

(* The page, told only by callbacks, shows a session that settled as       *)
(* completed or unverified as that, with no question left, one whose       *)
(* runner waits as waiting with the reply id that apply_reply takes, and   *)
(* one whose agent is at work as running, whatever is lost, raises or      *)
(* restarts.                                                               *)
THEOREM PageShowsStatus == Spec => []ShownStatus
<1>1. Spec => []AnswersInv
  BY AnswersInvInit, AnswersInvStep, SpecSlotInv, PTL DEF Spec
<1>2. PagesInv /\ ToldInv /\ PlacesInv /\ AnswersInv /\ TypeOK => ShownStatus
  <2>. SUFFICES ASSUME PagesInv, ToldInv, PlacesInv, AnswersInv, TypeOK, NEW s \in Sessions
       PROVE  pc[s] = "await" /\ ~wake[s] => frame[s].asked # 0 /\ question[s] = frame[s].asked
    BY PageShows DEF ShownStatus
  <2>. SUFFICES ASSUME pc[s] = "await", ~wake[s]
       PROVE  frame[s].asked # 0 /\ question[s] = frame[s].asked
    OBVIOUS
  <2>1. Where(s) = "await" /\ Heard(s) \in Nat
    BY DEF Where, InEmission, Heard, TypeOK
  <2>2. pending[s] = 0
    BY <2>1 DEF PlacesInv, PlaceInv
  <2>3. Open(s)
    BY <2>1 DEF AnswersInv, AnsInv, Waiting
  <2>. QED  BY <2>1, <2>2, <2>3 DEF Open
<1>. QED
  BY <1>1, <1>2, SpecPagesInv, SpecToldInv, SpecPlacesInv, SpecTypeOK, PTL

-----------------------------------------------------------------------------
(* BuyerView: where a coroutine is fits its numbers, and what it is about  *)
(* to write is not in the outbox yet, so that no event raises              *)

(* The event of a frame, number included, is due at its place.             *)
EventAt(f) ==
  CASE f.then = "auth"    -> Ev("start", 0)
    [] f.then = "run"     -> Ev("step-started", f.step)
    [] f.then = "result"  -> Ev("step-finished", f.step)
    [] f.then = "await"   -> Ev("ask-user", f.asked)
    [] f.then = "verdict" -> Ev(PaymentOf(f.verdict), 0)
    [] OTHER              -> Ev(VerdictType[f.verdict], 0)

(* Event e may still be written before the verdict of session s.           *)
Entering(s, l) == pc[s] = "append" /\ frame[s].then = l
Ahead(s, e) ==
  LET here(n, now) == e.n > n \/ (e.n = n /\ now)
  IN \/ e.type = "start" /\ (Where(s) \in {"creating", "boot"} \/ Entering(s, "auth"))
     \/ e.type = "step-started" /\ here(frame[s].step, Entering(s, "run"))
     \/ e.type = "step-finished" /\ here(frame[s].step, Where(s) = "run" \/ Entering(s, "result"))
     \/ e.type = "ask-user" /\ here(frame[s].asked, Entering(s, "await"))
     \/ e.type \in Payments
Writes(s) == Where(s) \in Unsettled \/ Entering(s, "verdict")

Asking == {"ask", "await", "pop"}
Numbered(s) ==
  /\ status[s] = "absent" => frame[s] = NoFrame
  /\ Where(s) \in {"creating", "boot", "auth"} => frame[s].step = 0 /\ ~frame[s].recovering
  /\ Where(s) \in {"run", "result"} \cup Asking => frame[s].step > 0
  /\ Where(s) \in Asking => ~frame[s].recovering
  /\ pc[s] \in InEmission => frame[s].event = EventAt(frame[s])
Unwritten(s) == Writes(s) => \A i \in DOMAIN log[s] : ~Ahead(s, log[s][i])

ViewInv == \A s \in Sessions : Numbered(s) /\ Unwritten(s)

LEMMA ViewInvInit == Init => ViewInv
<1>. SUFFICES ASSUME Init, NEW s \in Sessions PROVE Numbered(s) /\ Unwritten(s)
  BY DEF ViewInv
<1>. QED
  BY DEF Init, Numbered, Unwritten, Where, InEmission, Asking

(* A coroutine past its verdict, or none.                                  *)
LEMMA AwayNumbers ==
  ASSUME NEW s \in Sessions, status'[s] # "absent", Where(s)' \notin Unsettled,
         ~(pc'[s] = "append" /\ frame'[s].then = "verdict"),
         pc'[s] \in InEmission => frame'[s].event = EventAt(frame'[s])
  PROVE  (Numbered(s) /\ Unwritten(s))'
  BY DEF Numbered, Unwritten, Writes, Entering, Unsettled, Asking

(* A coroutine that goes on while the outbox stays has less to write.      *)
LEMMA ShrinksAhead ==
  ASSUME TypeOK, NEW s \in Sessions, Unwritten(s), log'[s] = log[s], Writes(s),
         \A e \in Events : Ahead(s, e)' => Ahead(s, e)
  PROVE  Unwritten(s)'
<1>1. \A i \in DOMAIN log[s] : log[s][i] \in Events
  BY DEF TypeOK
<1>. QED
  BY <1>1 DEF Unwritten

LEMMA EmitFrame ==
  ASSUME TypeOK, NEW s \in Sessions, NEW f \in Frames, NEW e, NEW l, Emit(s, f, e, l)
  PROVE  /\ pc'[s] = "append" /\ frame'[s] = Emitting(f, e, l) /\ Where(s)' = l
         /\ frame'[s].step = f.step /\ frame'[s].asked = f.asked
         /\ frame'[s].recovering = f.recovering /\ frame'[s].verdict = f.verdict
         /\ frame'[s].event = e /\ frame'[s].then = l /\ frame'[s].tries = 0
<1>1. frame'[s] = Emitting(f, e, l) /\ pc'[s] = "append"
  BY DEF Emit, Goto, TypeOK
<1>2. /\ Emitting(f, e, l).step = f.step /\ Emitting(f, e, l).asked = f.asked
      /\ Emitting(f, e, l).recovering = f.recovering /\ Emitting(f, e, l).verdict = f.verdict
      /\ Emitting(f, e, l).event = e /\ Emitting(f, e, l).then = l /\ Emitting(f, e, l).tries = 0
  BY DEF Emitting, Frames
<1>. QED
  BY <1>1, <1>2 DEF Where, InEmission

LEMMA StepNumbers ==
  ASSUME ViewInv, SlotInv, NEW s \in Sessions,
         \/ StartTask(s) \/ Boot(s) \/ Authenticate(s) \/ BeginStep(s) \/ RunStep(s)
         \/ AskUser(s) \/ Woken(s)
  PROVE  (Numbered(s) /\ Unwritten(s))'
<1>. USE DEF Local, stored, At, Goto
<1>. DEFINE f == frame[s]
<1>0. /\ TypeOK /\ f \in Frames /\ f.step \in Nat /\ f.asked \in Nat
      /\ pc \in [Sessions -> Labels] /\ status \in [Sessions -> Status]
      /\ Numbered(s) /\ Unwritten(s)
  BY DEF SlotInv, TypeOK, ViewInv, Frames
<1>1. /\ log'[s] = log[s] /\ pc[s] \in Unsettled /\ Where(s) = pc[s]
      /\ ~(pc[s] = "append")
  BY DEF StartTask, Boot, Authenticate, BeginStep, RunStep, AskUser, Woken, Unsettled, Where,
     InEmission
<1>2. status[s] # "absent" /\ status'[s] # "absent" /\ Writes(s)
  BY <1>0, <1>1 DEF SlotInv, ActiveStatus, StartTask, Boot, Authenticate, BeginStep, RunStep,
     AskUser, Woken, Writes
<1>3. SUFFICES Numbered(s)' /\ (\A e \in Events : Ahead(s, e)' => Ahead(s, e))
  BY <1>0, <1>1, <1>2, ShrinksAhead
<1>4. \A e \in Events : e.n \in Nat
  BY DEF Events
<1>5. CASE StartTask(s) \/ Authenticate(s) \/ Woken(s)
  <2>1. frame' = frame /\ Where(s)' = pc'[s]
        /\ \/ pc[s] = "creating" /\ pc'[s] = "boot"
           \/ pc[s] = "auth" /\ pc'[s] = "loop"
           \/ pc[s] = "await" /\ pc'[s] = "pop"
    BY <1>0, <1>5 DEF StartTask, Authenticate, Woken, Where, InEmission
  <2>2. Numbered(s)'
    BY <1>0, <1>1, <1>2, <2>1 DEF Numbered, InEmission, Asking
  <2>3. \A e \in Events : Ahead(s, e)' => Ahead(s, e)
    BY <1>1, <2>1 DEF Ahead, Entering
  <2>. QED  BY <2>2, <2>3
<1>6. CASE Boot(s)
  <2>1. Emit(s, f, Ev("start", 0), "auth") /\ pc[s] = "boot"
    BY <1>6 DEF Boot
  <2>2. /\ pc'[s] = "append" /\ Where(s)' = "auth" /\ frame'[s].then = "auth"
        /\ frame'[s].step = f.step /\ frame'[s].asked = f.asked
        /\ frame'[s].recovering = f.recovering /\ frame'[s].event = Ev("start", 0)
    BY <1>0, <2>1, EmitFrame
  <2>3. Numbered(s)'
    BY <1>0, <1>1, <1>2, <2>1, <2>2 DEF Numbered, InEmission, Asking, EventAt
  <2>4. \A e \in Events : Ahead(s, e)' => Ahead(s, e)
    BY <1>1, <2>1, <2>2 DEF Ahead, Entering
  <2>. QED  BY <2>3, <2>4
<1>7. CASE BeginStep(s)
  <2>. DEFINE g == [f EXCEPT !.step = f.step + 1]
  <2>1. Emit(s, g, Ev("step-started", f.step + 1), "run") /\ pc[s] = "loop"
    BY <1>7 DEF BeginStep
  <2>2. g \in Frames /\ g.step = f.step + 1 /\ g.asked = f.asked
    BY <1>0 DEF Frames
  <2>. HIDE DEF g
  <2>3. /\ pc'[s] = "append" /\ Where(s)' = "run" /\ frame'[s].then = "run"
        /\ frame'[s].step = f.step + 1 /\ frame'[s].asked = f.asked
        /\ frame'[s].event = Ev("step-started", f.step + 1)
    BY <1>0, <2>1, <2>2, EmitFrame
  <2>4. Numbered(s)'
    BY <1>0, <1>1, <1>2, <2>1, <2>3 DEF Numbered, InEmission, Asking, EventAt
  <2>5. \A e \in Events : Ahead(s, e)' => Ahead(s, e)
    BY <1>0, <1>1, <1>4, <2>1, <2>3 DEF Ahead, Entering
  <2>. QED  BY <2>4, <2>5
<1>8. CASE RunStep(s)
  <2>1. PICK r \in Results :
          /\ Emit(s, [f EXCEPT !.result = r], Ev("step-finished", f.step), "result")
          /\ pc[s] = "run"
    BY <1>8 DEF RunStep
  <2>. DEFINE g == [f EXCEPT !.result = r]
  <2>2. g \in Frames /\ g.step = f.step /\ g.asked = f.asked
    BY <1>0 DEF Frames
  <2>3. Emit(s, g, Ev("step-finished", f.step), "result")
    BY <2>1
  <2>. HIDE DEF g
  <2>4. /\ pc'[s] = "append" /\ Where(s)' = "result" /\ frame'[s].then = "result"
        /\ frame'[s].step = f.step /\ frame'[s].asked = f.asked
        /\ frame'[s].event = Ev("step-finished", f.step)
    BY <1>0, <2>2, <2>3, EmitFrame
  <2>5. Numbered(s)'
    BY <1>0, <1>1, <1>2, <2>1, <2>4 DEF Numbered, InEmission, Asking, EventAt
  <2>6. \A e \in Events : Ahead(s, e)' => Ahead(s, e)
    BY <1>0, <1>1, <1>4, <2>1, <2>4 DEF Ahead, Entering
  <2>. QED  BY <2>5, <2>6
<1>9. CASE AskUser(s)
  <2>. DEFINE g == [f EXCEPT !.asked = f.asked + 1]
  <2>1. Emit(s, g, Ev("ask-user", f.asked + 1), "await") /\ pc[s] = "ask"
    BY <1>9 DEF AskUser
  <2>2. g \in Frames /\ g.step = f.step /\ g.asked = f.asked + 1 /\ g.recovering = f.recovering
    BY <1>0 DEF Frames
  <2>. HIDE DEF g
  <2>3. /\ pc'[s] = "append" /\ Where(s)' = "await" /\ frame'[s].then = "await"
        /\ frame'[s].step = f.step /\ frame'[s].asked = f.asked + 1
        /\ frame'[s].recovering = f.recovering
        /\ frame'[s].event = Ev("ask-user", f.asked + 1)
    BY <1>0, <2>1, <2>2, EmitFrame
  <2>4. Numbered(s)'
    BY <1>0, <1>1, <1>2, <2>1, <2>3 DEF Numbered, InEmission, Asking, EventAt
  <2>5. \A e \in Events : Ahead(s, e)' => Ahead(s, e)
    BY <1>0, <1>1, <1>4, <2>1, <2>3 DEF Ahead, Entering
  <2>. QED  BY <2>4, <2>5
<1>. QED
  BY <1>5, <1>6, <1>7, <1>8, <1>9

(* What the result of a step, or the answer of the operator, leads to.     *)
LEMMA ResultNumbers ==
  ASSUME ViewInv, SlotInv, NEW s \in Sessions, status[s] # "absent",
         Dispatch(s) \/ PopReply(s)
  PROVE  (Numbered(s) /\ Unwritten(s))'
<1>. USE DEF Local, stored, At, Goto
<1>. DEFINE f == frame[s]
<1>0. /\ TypeOK /\ f \in Frames /\ f.step \in Nat /\ f.asked \in Nat
      /\ pc \in [Sessions -> Labels] /\ frame \in [Sessions -> Frames]
      /\ Numbered(s) /\ Unwritten(s)
  BY DEF SlotInv, TypeOK, ViewInv, Frames
<1>1. /\ log'[s] = log[s] /\ status'[s] # "absent" /\ Where(s) = pc[s]
      /\ pc[s] \in {"result", "pop"} /\ Writes(s)
  BY DEF Dispatch, PopReply, Writes, Unsettled, Where, InEmission
<1>2. CASE pc'[s] \in {"finished", "verdict"}
  <2>1. Where(s)' = pc'[s]
    BY <1>2 DEF Where, InEmission
  <2>. QED  BY <1>1, <1>2, <2>1, AwayNumbers DEF Unsettled, InEmission
<1>3. ASSUME pc'[s] \in {"ask", "loop"}, frame'[s].step = f.step, frame'[s].asked = f.asked,
             pc'[s] = "ask" => pc[s] = "result" /\ ~frame'[s].recovering
      PROVE  (Numbered(s) /\ Unwritten(s))'
  <2>1. Where(s)' = pc'[s]
    BY <1>3 DEF Where, InEmission
  <2>2. Numbered(s)'
    BY <1>0, <1>1, <1>3, <2>1 DEF Numbered, InEmission, Asking
  <2>3. \A e \in Events : Ahead(s, e)' => Ahead(s, e)
    BY <1>1, <1>3, <2>1 DEF Ahead, Entering
  <2>. QED  BY <1>0, <1>1, <2>2, <2>3, ShrinksAhead
<1>4. ASSUME NEW v \in {"completed", "unverified"}, NEW g \in Frames, g.step = f.step,
             g.asked = f.asked, g.verdict = v, Emit(s, g, Ev(PaymentOf(v), 0), "verdict")
      PROVE  (Numbered(s) /\ Unwritten(s))'
  <2>1. /\ pc'[s] = "append" /\ Where(s)' = "verdict" /\ frame'[s].then = "verdict"
        /\ frame'[s].step = f.step /\ frame'[s].asked = f.asked /\ frame'[s].verdict = v
        /\ frame'[s].event = Ev(PaymentOf(v), 0)
    BY <1>0, <1>4, EmitFrame
  <2>2. Numbered(s)'
    BY <1>1, <2>1 DEF Numbered, InEmission, Asking, EventAt
  <2>3. \A e \in Events : Ahead(s, e)' => Ahead(s, e)
    BY <1>1, <2>1 DEF Ahead, Entering
  <2>. QED  BY <1>0, <1>1, <2>2, <2>3, ShrinksAhead
<1>5. CASE Dispatch(s)
  <2>. DEFINE g == [f EXCEPT !.latest = 0, !.result = NoFrame.result]
              calm == [g EXCEPT !.recovering = FALSE]
  <2>1. /\ g \in Frames /\ g.step = f.step /\ g.asked = f.asked
        /\ calm \in Frames /\ calm.step = f.step /\ calm.asked = f.asked /\ ~calm.recovering
    BY <1>0 DEF Frames, NoFrame, Results
  <2>2. \/ frame' = [frame EXCEPT ![s] = calm] /\ pc' = [pc EXCEPT ![s] = "ask"]
        \/ Emit(s, [calm EXCEPT !.verdict = "completed"], Ev("payment-ready", 0), "verdict")
        \/ Emit(s, [calm EXCEPT !.verdict = "unverified"], Ev("payment-unverified", 0), "verdict")
        \/ frame' = [frame EXCEPT ![s] = [g EXCEPT !.recovering = TRUE]]
           /\ pc' = [pc EXCEPT ![s] = "loop"]
        \/ pc' = [pc EXCEPT ![s] = "verdict"]
    BY <1>5 DEF Dispatch
  <2>3. pc[s] = "result"
    BY <1>5 DEF Dispatch
  <2>. HIDE DEF calm, g
  <2>4. CASE frame' = [frame EXCEPT ![s] = calm] /\ pc' = [pc EXCEPT ![s] = "ask"]
    BY <1>0, <1>3, <2>1, <2>3, <2>4
  <2>5. ASSUME NEW v \in {"completed", "unverified"},
               Emit(s, [calm EXCEPT !.verdict = v], Ev(PaymentOf(v), 0), "verdict")
        PROVE  (Numbered(s) /\ Unwritten(s))'
    <3>. DEFINE h == [calm EXCEPT !.verdict = v]
    <3>1. h \in Frames /\ h.step = f.step /\ h.asked = f.asked /\ h.verdict = v
      BY <2>1 DEF Frames, Terminal
    <3>2. Emit(s, h, Ev(PaymentOf(v), 0), "verdict")
      BY <2>5
    <3>. HIDE DEF h
    <3>. QED  BY <1>4, <3>1, <3>2
  <2>6. PaymentOf("completed") = "payment-ready" /\ PaymentOf("unverified") = "payment-unverified"
    BY DEF PaymentOf
  <2>7. CASE frame' = [frame EXCEPT ![s] = [g EXCEPT !.recovering = TRUE]]
             /\ pc' = [pc EXCEPT ![s] = "loop"]
    <3>1. pc'[s] = "loop" /\ frame'[s] = [g EXCEPT !.recovering = TRUE]
      BY <1>0, <2>7
    <3>2. frame'[s].step = f.step /\ frame'[s].asked = f.asked
      BY <2>1, <3>1 DEF Frames
    <3>. QED  BY <1>3, <3>1, <3>2
  <2>8. CASE pc' = [pc EXCEPT ![s] = "verdict"]
    BY <1>0, <1>2, <2>8
  <2>9. CASE Emit(s, [calm EXCEPT !.verdict = "completed"], Ev("payment-ready", 0), "verdict")
    BY <2>5, <2>6, <2>9
  <2>10. CASE Emit(s, [calm EXCEPT !.verdict = "unverified"], Ev("payment-unverified", 0), "verdict")
    BY <2>5, <2>6, <2>10
  <2>. QED  BY <2>2, <2>4, <2>7, <2>8, <2>9, <2>10
<1>6. CASE PopReply(s)
  <2>1. CASE Finish(s)
    BY <1>0, <1>2, <2>1 DEF Finish
  <2>2. CASE pc' = [pc EXCEPT ![s] = "loop"]
             /\ frame' = [frame EXCEPT ![s].latest = pending[s]]
    <3>1. pc'[s] = "loop" /\ frame'[s] = [f EXCEPT !.latest = pending[s]]
      BY <1>0, <2>2
    <3>2. frame'[s].step = f.step /\ frame'[s].asked = f.asked
      BY <1>0, <3>1 DEF Frames
    <3>. QED  BY <1>3, <3>1, <3>2
  <2>. QED  BY <1>6, <2>1, <2>2 DEF PopReply
<1>. QED
  BY <1>5, <1>6

(* An event is appended, delivered and marked.                             *)
LEMMA EmissionNumbers ==
  ASSUME ViewInv, ToldInv, SlotInv, NEW s \in Sessions, status[s] # "absent",
         EmitAppend(s) \/ Delivered(s) \/ AttemptFails(s) \/ MarkDelivered(s)
  PROVE  (Numbered(s) /\ Unwritten(s))'
<1>. USE DEF Local, stored, At, Goto
<1>. DEFINE f == frame[s]
<1>0. /\ TypeOK /\ f \in Frames /\ f.step \in Nat /\ f.asked \in Nat
      /\ pc \in [Sessions -> Labels] /\ frame \in [Sessions -> Frames]
      /\ Numbered(s) /\ Unwritten(s) /\ PathInv(s) /\ \A e \in Events : e.n \in Nat
  BY DEF SlotInv, TypeOK, ViewInv, ToldInv, Frames, Events
<1>1. /\ status'[s] # "absent" /\ pc[s] \in InEmission /\ Where(s) = f.then
      /\ f.event = EventAt(f) /\ Fits(f)
  BY <1>0 DEF EmitAppend, Delivered, AttemptFails, MarkDelivered, InEmission, Where, Numbered,
     PathInv
<1>2. CASE EmitAppend(s)
  <2>1. /\ pc[s] = "append" /\ pc'[s] = "deliver" /\ frame' = frame
        /\ log'[s] = Append(log[s], f.event) /\ Where(s)' = Where(s)
    BY <1>0, <1>1, <1>2 DEF EmitAppend, TypeOK, Where, InEmission
  <2>2. Numbered(s)'
    BY <1>0, <1>1, <2>1 DEF Numbered, InEmission
  <2>3. ASSUME Writes(s)', NEW i \in DOMAIN log'[s], NEW e, e = log'[s][i] PROVE ~Ahead(s, e)'
    <3>1. Where(s) \in Unsettled /\ ~Entering(s, "verdict")'
      BY <2>1, <2>3 DEF Writes, Entering
    <3>2. CASE i \in DOMAIN log[s]
      <4>1. e = log[s][i] /\ e \in Events /\ ~Ahead(s, e)
        BY <1>0, <2>1, <2>3, <3>1, <3>2 DEF TypeOK, Unwritten, Writes
      <4>. QED  BY <2>1, <4>1 DEF Ahead, Entering
    <3>3. CASE i \notin DOMAIN log[s]
      <4>1. e = EventAt(f)
        BY <1>0, <1>1, <2>1, <2>3, <3>3 DEF TypeOK
      <4>2. f.then \in {"auth", "run", "result", "await"}
        BY <1>1, <3>1 DEF Fits, Unsettled
      <4>. QED
        BY <1>0, <1>1, <2>1, <4>1, <4>2 DEF Ahead, Entering, EventAt, Ev, Payments
    <3>. QED  BY <3>2, <3>3
  <2>4. Unwritten(s)'
    BY <2>3 DEF Unwritten
  <2>. QED  BY <2>2, <2>4
<1>3. CASE Delivered(s) \/ AttemptFails(s)
  <2>1. /\ pc[s] = "deliver" /\ pc'[s] \in {"mark_delivered", "mark_failed", "deliver"}
        /\ log'[s] = log[s]
    BY <1>0, <1>3 DEF Delivered, AttemptFails
  <2>2. \E n : frame' = [frame EXCEPT ![s] = [f EXCEPT !.tries = n]] \/ frame' = frame
    BY <1>3 DEF Delivered, AttemptFails
  <2>3. /\ frame'[s].step = f.step /\ frame'[s].asked = f.asked /\ frame'[s].then = f.then
        /\ frame'[s].event = f.event /\ frame'[s].recovering = f.recovering
        /\ frame'[s].verdict = f.verdict
    BY <1>0, <2>2 DEF Frames
  <2>4. CASE pc'[s] = "mark_failed"
    <3>1. Where(s)' = "mark_failed"
      BY <2>4 DEF Where, InEmission
    <3>. QED  BY <1>1, <2>4, <3>1, AwayNumbers DEF Unsettled, InEmission
  <2>5. CASE pc'[s] # "mark_failed"
    <3>1. Where(s)' = Where(s)
      BY <1>1, <2>1, <2>3, <2>5 DEF Where, InEmission
    <3>2. Numbered(s)'
      BY <1>0, <1>1, <2>1, <2>3, <3>1 DEF Numbered, InEmission, EventAt
    <3>3. CASE Where(s) \notin Unsettled
      BY <2>1, <3>1, <3>2, <3>3 DEF Unwritten, Writes, Entering
    <3>4. CASE Where(s) \in Unsettled
      <4>1. \A e \in Events : Ahead(s, e)' => Ahead(s, e)
        BY <2>1, <2>3, <3>1 DEF Ahead, Entering
      <4>. QED  BY <1>0, <2>1, <3>2, <3>4, <4>1, ShrinksAhead DEF Writes
    <3>. QED  BY <3>3, <3>4
  <2>. QED  BY <2>4, <2>5
<1>4. CASE MarkDelivered(s)
  <2>1. /\ pc[s] = "mark_delivered" /\ pc'[s] = f.then /\ frame' = frame /\ log' = log
    BY <1>0, <1>4 DEF MarkDelivered
  <2>2. pc'[s] \notin InEmission /\ Where(s)' = Where(s)
    BY <1>1, <2>1 DEF Fits, InEmission, Where
  <2>3. Numbered(s)'
    BY <1>0, <1>1, <2>1, <2>2 DEF Numbered
  <2>4. CASE Where(s) \notin Unsettled
    BY <2>1, <2>2, <2>3, <2>4 DEF Unwritten, Writes, Entering, InEmission
  <2>5. CASE Where(s) \in Unsettled
    <3>1. \A e \in Events : Ahead(s, e)' => Ahead(s, e)
      BY <2>1, <2>2 DEF Ahead, Entering, InEmission
    <3>. QED  BY <1>0, <2>1, <2>3, <2>5, <3>1, ShrinksAhead DEF Writes
  <2>. QED  BY <2>4, <2>5
<1>. QED
  BY <1>2, <1>3, <1>4

LEMMA AwayStepsNumbers ==
  ASSUME SlotInv, NEW s \in Sessions, status[s] # "absent",
         \/ StepRaises(s) \/ EmitVerdict(s) \/ Settle(s) \/ ScheduleAnalysis(s) \/ Unexpected(s)
         \/ RowGone(s) \/ DoneCallback(s) \/ EmitDuplicate(s) \/ MarkFailed(s)
         \/ DeliveryError(s) \/ Fallback(s) \/ StoreFault(s)
  PROVE  (Numbered(s) /\ Unwritten(s))'
<1>. USE DEF stored, Local, At, Goto
<1>0. /\ TypeOK /\ frame[s] \in Frames /\ frame[s].verdict \in Terminal
      /\ pc \in [Sessions -> Labels] /\ status \in [Sessions -> Status]
  BY DEF SlotInv, TypeOK, Frames
<1>1. status'[s] # "absent"
  BY <1>0 DEF StepRaises, EmitVerdict, Settle, ScheduleAnalysis, Unexpected, RowGone, DoneCallback,
     EmitDuplicate, MarkFailed, DeliveryError, Fallback, StoreFault, SetStatus, Terminal
<1>2. CASE EmitVerdict(s)
  <2>1. Emit(s, frame[s], Ev(VerdictType[frame[s].verdict], 0), "settle")
    BY <1>2 DEF EmitVerdict
  <2>2. /\ pc'[s] = "append" /\ Where(s)' = "settle" /\ frame'[s].then = "settle"
        /\ frame'[s].verdict = frame[s].verdict
        /\ frame'[s].event = Ev(VerdictType[frame[s].verdict], 0)
    BY <1>0, <2>1, EmitFrame
  <2>. QED  BY <1>1, <2>2, AwayNumbers DEF EventAt, Unsettled
<1>3. CASE ~EmitVerdict(s)
  <2>1. Raise(s) \/ Finish(s)
        \/ \E l \in {"none", "schedule", "fallback", "verdict", "delivery_error"} :
             pc' = [pc EXCEPT ![s] = l]
    BY <1>3 DEF StepRaises, Settle, ScheduleAnalysis, Unexpected, RowGone, DoneCallback,
       EmitDuplicate, MarkFailed, DeliveryError, Fallback, StoreFault
  <2>2. pc'[s] \in {"finished", "unexpected", "none", "schedule", "fallback", "verdict",
                    "delivery_error"}
    BY <1>0, <2>1, RaiseQuiet
  <2>3. Where(s)' \notin Unsettled /\ pc'[s] \notin InEmission
    BY <2>2 DEF Where, InEmission, Unsettled
  <2>. QED  BY <1>1, <2>3, AwayNumbers DEF InEmission
<1>. QED
  BY <1>2, <1>3

(* The coroutine stands still; the row is answered or expires.             *)
LEMMA StillNumbers ==
  ASSUME ViewInv, TypeOK, NEW t \in Sessions, pc'[t] = pc[t], frame'[t] = frame[t],
         status'[t] = "absent" => status[t] = "absent",
         log'[t] = log[t] \/ log'[t] = <<>>
  PROVE  (Numbered(t) /\ Unwritten(t))'
<1>1. Where(t)' = Where(t) /\ Numbered(t) /\ Unwritten(t) /\ (Writes(t)' <=> Writes(t))
  BY DEF ViewInv, Where, Writes, Entering
<1>2. Numbered(t)'
  BY <1>1 DEF Numbered
<1>3. CASE log'[t] = log[t] /\ Writes(t)
  <2>1. \A e \in Events : Ahead(t, e)' => Ahead(t, e)
    BY <1>1 DEF Ahead, Entering
  <2>. QED  BY <1>1, <1>2, <1>3, <2>1, ShrinksAhead
<1>4. CASE log'[t] = <<>> \/ ~Writes(t)
  BY <1>1, <1>2, <1>4 DEF Unwritten
<1>. QED
  BY <1>3, <1>4

LEMMA ClientNumbers ==
  ASSUME ViewInv, PlacesInv, SlotInv, NEW E \in SUBSET Expirable,
         ListSessions(E) \/ \E s \in Sessions : CreateSession(s, E)
  PROVE  ViewInv'
<1>. SUFFICES ASSUME NEW t \in Sessions PROVE (Numbered(t) /\ Unwritten(t))'
  BY DEF ViewInv
<1>0. /\ TypeOK /\ pc \in [Sessions -> Labels] /\ PlaceInv(t) /\ Numbered(t) /\ frame' = frame
  BY DEF SlotInv, TypeOK, PlacesInv, ViewInv, ListSessions, CreateSession
<1>1. CASE CreateSession(t, E)
  <2>1. /\ pc'[t] = "creating" /\ status'[t] = "created" /\ status[t] = "absent"
        /\ Forget(E, {t}) /\ t \notin E
    BY <1>0, <1>1 DEF CreateSession, Goto, Expirable, Terminal
  <2>2. log'[t] = <<>> /\ frame'[t] = NoFrame
    BY <1>0, <2>1 DEF PlaceInv, Numbered, Forget
  <2>3. Where(t)' = "creating" /\ NoFrame.step = 0 /\ ~NoFrame.recovering
    BY <2>1 DEF Where, InEmission, NoFrame
  <2>. QED  BY <2>1, <2>2, <2>3 DEF Numbered, Unwritten, InEmission, Asking
<1>2. CASE ~CreateSession(t, E)
  <2>1. /\ pc'[t] = pc[t] /\ (log'[t] = log[t] \/ log'[t] = <<>>)
        /\ status'[t] = "absent" => status[t] = "absent"
    <3>1. CASE ListSessions(E)
      BY <3>1 DEF ListSessions, Forget
    <3>2. ASSUME NEW s \in Sessions, s # t, CreateSession(s, E)
          PROVE  /\ pc'[t] = pc[t] /\ (log'[t] = log[t] \/ log'[t] = <<>>)
                 /\ status'[t] = "absent" => status[t] = "absent"
      BY <1>0, <3>2 DEF CreateSession, Forget, Goto
    <3>. QED  BY <1>2, <3>1, <3>2
  <2>. QED  BY <1>0, <2>1, StillNumbers
<1>. QED
  BY <1>1, <1>2

LEMMA RestartNumbers == Restart => ViewInv'
<1>. SUFFICES ASSUME Restart, NEW t \in Sessions PROVE (Numbered(t) /\ Unwritten(t))'
  BY DEF ViewInv
<1>1. Where(t)' = "none" /\ pc'[t] = "none" /\ frame'[t] = NoFrame
  BY DEF Restart, Where, InEmission
<1>. QED
  BY <1>1 DEF Numbered, Unwritten, Writes, Entering, Unsettled, InEmission, Asking

LEMMA ViewInvStep == ViewInv /\ ToldInv /\ PlacesInv /\ SlotInv /\ [Next]_vars => ViewInv'
<1>. SUFFICES ASSUME ViewInv, ToldInv, PlacesInv, SlotInv, [Next]_vars PROVE ViewInv'
  OBVIOUS
<1>0. TypeOK /\ 0 \in Nat /\ 1..MaxSteps \subseteq Nat
  BY ConstantsAssumption DEF SlotInv, ConstantsAssumption
<1>1. ASSUME NEW s \in Sessions, NEW r \in Nat, Runner(s) \/ StoreFault(s) \/ ApplyReply(s, r)
      PROVE  ViewInv'
  <2>. SUFFICES ASSUME NEW t \in Sessions PROVE (Numbered(t) /\ Unwritten(t))'
    BY DEF ViewInv
  <2>1. CASE t # s
    <3>1. Stays(t)
      BY <1>0, <1>1, <2>1, OthersStay
    <3>. QED  BY <1>0, <3>1, StillNumbers DEF Stays
  <2>2. CASE t = s /\ ApplyReply(s, r)
    <3>1. pc' = pc /\ frame' = frame /\ log' = log /\ status'[s] # "absent"
      BY <1>0, <2>2 DEF ApplyReply, TypeOK
    <3>. QED  BY <1>0, <2>2, <3>1, StillNumbers
  <2>3. CASE t = s /\ (Runner(s) \/ StoreFault(s))
    <3>1. pc[s] # "none"
      BY <2>3 DEF Runner, Emission, StartTask, Boot, Authenticate, BeginStep, RunStep, StepRaises,
         Dispatch, AskUser, Woken, PopReply, EmitVerdict, Settle, ScheduleAnalysis, Unexpected,
         RowGone, DoneCallback, EmitAppend, EmitDuplicate, Delivered, AttemptFails, MarkDelivered,
         MarkFailed, DeliveryError, Fallback, StoreFault, StoreCalls, ReadsRow, At
    <3>2. status[s] # "absent"
      BY <3>1 DEF PlacesInv, PlaceInv
    <3>. QED
      BY <2>3, <3>2, StepNumbers, ResultNumbers, EmissionNumbers, AwayStepsNumbers
      DEF Runner, Emission
  <2>. QED  BY <1>1, <2>1, <2>2, <2>3
<1>2. CASE UNCHANGED vars
  <2>. SUFFICES ASSUME NEW t \in Sessions PROVE (Numbered(t) /\ Unwritten(t))'
    BY DEF ViewInv
  <2>1. pc'[t] = pc[t] /\ frame'[t] = frame[t] /\ status'[t] = status[t] /\ log'[t] = log[t]
    BY <1>2 DEF vars, stored
  <2>. QED  BY <1>0, <2>1, StillNumbers
<1>. QED
  BY <1>0, <1>1, <1>2, ClientNumbers, RestartNumbers DEF Next, Client

LEMMA SpecViewInv == Spec => []ViewInv
  BY ViewInvInit, ViewInvStep, SpecToldInv, SpecPlacesInv, SpecSlotInv, PTL DEF Spec

-----------------------------------------------------------------------------
(* BuyerView: what is seen of a session, and the steps it may take         *)

Look(at, out, tries, n, m, q) ==
  [at |-> at, out |-> out, tries |-> tries, step |-> n, asked |-> m, question |-> q]
Asks(s) == IF status[s] = "waiting_user" THEN question[s] ELSE 0

LEMMA LookSteps ==
  ASSUME NEW at, NEW out, NEW tries, NEW n, NEW m, NEW q
  PROVE  LET b == Look(at, out, tries, n, m, q)
         IN /\ \A type, to : View!Say(b, type, to)
                              = Look(to, View!Event(type, 0), tries, n, m, q)
            /\ View!StartStep(b)
                 = Look("result", View!Event("agent_step_started", n + 1), tries, n + 1, m, q)
            /\ View!Ask(b)
                 = Look("asked", View!Event("ask_user", m + 1), tries, n, m + 1, m + 1)
            /\ View!Delivered(b) = Look(at, View!Silence, 0, n, m, q)
            /\ View!GiveUp(b) = Look("settle", View!Silence, 0, n, m, q)
            /\ View!Answer(b) = Look(at, out, tries, n, m, 0)
            /\ View!Hear(b) = Look("step", out, tries, n, m, q)
            /\ View!Retry(b) = IF tries + 1 = MaxAttempts
                               THEN Look("settle", View!Silence, 0, n, m, q)
                               ELSE Look(at, out, tries + 1, n, m, q)
<1>. DEFINE R(y1, y2, y3, y4, y5, y6) ==
              [at |-> y1, out |-> y2, tries |-> y3, step |-> y4, asked |-> y5, question |-> y6]
            b == Look(at, out, tries, n, m, q)
<1>1. /\ b.at = at /\ b.out = out /\ b.tries = tries
      /\ b.step = n /\ b.asked = m /\ b.question = q
  BY DEF Look
<1>2. b = R(at, out, tries, n, m, q)
  BY DEF Look
<1>0. \A y1, y2, y3, y4, y5, y6 : R(y1, y2, y3, y4, y5, y6) = Look(y1, y2, y3, y4, y5, y6)
  BY DEF Look
<1>. HIDE DEF b
<1>3. ASSUME NEW e, NEW to
      PROVE  [b EXCEPT !.out = e, !.at = to] = Look(to, e, tries, n, m, q)
  <2>. DEFINE c == [b EXCEPT !.out = e]
  <2>1. c = R(at, e, tries, n, m, q)
    BY <1>2
  <2>3. [b EXCEPT !.out = e, !.at = to] = [c EXCEPT !.at = to]
    OBVIOUS
  <2>. HIDE DEF c
  <2>2. [c EXCEPT !.at = to] = R(to, e, tries, n, m, q)
    BY <2>1
  <2>. HIDE DEF R
  <2>. QED  BY <1>0, <2>2, <2>3
<1>4. ASSUME NEW e, NEW y
      PROVE  [b EXCEPT !.out = e, !.step = y, !.at = "result"] = Look("result", e, tries, y, m, q)
  <2>. DEFINE c == [b EXCEPT !.out = e]
              d == [c EXCEPT !.step = y]
  <2>1. c = R(at, e, tries, n, m, q)
    BY <1>2
  <2>2. [b EXCEPT !.out = e, !.step = y, !.at = "result"] = [d EXCEPT !.at = "result"]
    OBVIOUS
  <2>. HIDE DEF c
  <2>3. d = R(at, e, tries, y, m, q)
    BY <2>1
  <2>. HIDE DEF d
  <2>4. [d EXCEPT !.at = "result"] = R("result", e, tries, y, m, q)
    BY <2>3
  <2>. HIDE DEF R
  <2>. QED  BY <1>0, <2>2, <2>4
<1>5. ASSUME NEW e, NEW y
      PROVE  [b EXCEPT !.out = e, !.asked = y, !.question = y, !.at = "asked"]
               = Look("asked", e, tries, n, y, y)
  <2>. DEFINE c == [b EXCEPT !.out = e]
              d == [c EXCEPT !.asked = y]
              g == [d EXCEPT !.question = y]
  <2>1. c = R(at, e, tries, n, m, q)
    BY <1>2
  <2>2. [b EXCEPT !.out = e, !.asked = y, !.question = y, !.at = "asked"]
          = [g EXCEPT !.at = "asked"]
    OBVIOUS
  <2>. HIDE DEF c
  <2>3. d = R(at, e, tries, n, y, q)
    BY <2>1
  <2>. HIDE DEF d
  <2>4. g = R(at, e, tries, n, y, y)
    BY <2>3
  <2>. HIDE DEF g
  <2>5. [g EXCEPT !.at = "asked"] = R("asked", e, tries, n, y, y)
    BY <2>4
  <2>. HIDE DEF R
  <2>. QED  BY <1>0, <2>2, <2>5
<1>6. /\ [b EXCEPT !.out = View!Silence, !.tries = 0] = R(at, View!Silence, 0, n, m, q)
      /\ [b EXCEPT !.out = View!Silence, !.tries = 0, !.at = "settle"]
           = R("settle", View!Silence, 0, n, m, q)
  <2>. DEFINE e == View!Silence
              c == [b EXCEPT !.out = e]
              d == [c EXCEPT !.tries = 0]
  <2>1. /\ [b EXCEPT !.out = e, !.tries = 0] = d
        /\ [b EXCEPT !.out = e, !.tries = 0, !.at = "settle"] = [d EXCEPT !.at = "settle"]
    OBVIOUS
  <2>. HIDE DEF e
  <2>2. c = R(at, e, tries, n, m, q)
    BY <1>2
  <2>. HIDE DEF c
  <2>3. d = R(at, e, 0, n, m, q)
    BY <2>2
  <2>. HIDE DEF d
  <2>4. [d EXCEPT !.at = "settle"] = R("settle", e, 0, n, m, q)
    BY <2>3
  <2>. HIDE DEF R
  <2>. QED  BY <2>1, <2>3, <2>4 DEF e
<1>7. [b EXCEPT !.question = 0] = R(at, out, tries, n, m, 0)
  BY <1>2
<1>8. [b EXCEPT !.at = "step"] = R("step", out, tries, n, m, q)
  BY <1>2
<1>9. ASSUME NEW y PROVE [b EXCEPT !.tries = y] = R(at, out, y, n, m, q)
  BY <1>2
<1>10. ASSUME NEW type, NEW to
       PROVE  View!Say(b, type, to) = Look(to, View!Event(type, 0), tries, n, m, q)
  BY <1>3 DEF View!Say
<1>11. View!StartStep(b)
         = Look("result", View!Event("agent_step_started", n + 1), tries, n + 1, m, q)
  BY <1>1, <1>4 DEF View!StartStep
<1>12. View!Ask(b) = Look("asked", View!Event("ask_user", m + 1), tries, n, m + 1, m + 1)
  <2>. DEFINE y == m + 1
  <2>1. View!Ask(b)
          = [b EXCEPT !.out = View!Event("ask_user", y), !.asked = y, !.question = y, !.at = "asked"]
    BY <1>1 DEF View!Ask
  <2>. HIDE DEF y
  <2>2. View!Ask(b) = Look("asked", View!Event("ask_user", y), tries, n, y, y)
    BY <1>5, <2>1
  <2>. QED  BY <2>2 DEF y
<1>. HIDE DEF R
<1>13. /\ View!Delivered(b) = Look(at, View!Silence, 0, n, m, q)
       /\ View!GiveUp(b) = Look("settle", View!Silence, 0, n, m, q)
       /\ View!Answer(b) = Look(at, out, tries, n, m, 0)
       /\ View!Hear(b) = Look("step", out, tries, n, m, q)
  BY <1>0, <1>6, <1>7, <1>8 DEF View!Delivered, View!GiveUp, View!Answer, View!Hear
<1>14. View!Retry(b) = IF tries + 1 = MaxAttempts THEN Look("settle", View!Silence, 0, n, m, q)
                       ELSE Look(at, out, tries + 1, n, m, q)
  <2>. DEFINE y == tries + 1
  <2>1. [b EXCEPT !.tries = @ + 1] = [b EXCEPT !.tries = y]
    BY <1>1
  <2>. HIDE DEF y
  <2>2. [b EXCEPT !.tries = @ + 1] = Look(at, out, y, n, m, q)
    BY <1>0, <1>9, <2>1
  <2>. QED  BY <1>1, <1>13, <2>2 DEF View!Retry, y
<1>15. \A type, to : View!Say(b, type, to) = Look(to, View!Event(type, 0), tries, n, m, q)
  BY <1>10
<1>. QED
  BY <1>11, <1>12, <1>13, <1>14, <1>15 DEF b

LEMMA ViewSpeaks ==
  ASSUME NEW n, NEW m, NEW q
  PROVE  LET Mute(at) == Look(at, View!Silence, 0, n, m, q)
             Says(at, type) == Look(at, View!Event(type, 0), 0, n, m, q)
         IN /\ \A at \in {"step", "result"} :
                 /\ View!Moves(Mute(at), Look("result", View!Event("agent_step_started", n + 1),
                                                0, n + 1, m, q))
                 /\ View!Moves(Mute(at), Says("settle", "failed"))
                 /\ View!Moves(Mute(at), Mute("settle"))
            /\ View!Moves(Mute("result"),
                          Look("asked", View!Event("ask_user", m + 1), 0, n, m + 1, m + 1))
            /\ View!Moves(Mute("result"), Says("paid", "payment_ready"))
            /\ View!Moves(Mute("result"), Says("found", "payment_unverified"))
            /\ View!Moves(Mute("paid"), Says("settle", "completed"))
            /\ View!Moves(Mute("found"), Says("settle", "unverified"))
            /\ View!Moves(Mute("settle"), View!Over)
<1>. DEFINE Mute(at) == Look(at, View!Silence, 0, n, m, q)
            Says(at, type) == Look(at, View!Event(type, 0), 0, n, m, q)
<1>1. \A at \in {"step", "result", "paid", "found", "settle"} :
        View!Idle(Mute(at)) /\ Mute(at).at = at
  BY DEF Look, View!Idle, View!Active
<1>2. \A at \in {"step", "result", "paid", "found", "settle"} :
        \A c \in View!Speeches(Mute(at)) : View!Moves(Mute(at), c)
  BY <1>1 DEF View!Moves
<1>3. ASSUME NEW at \in {"step", "result"}
      PROVE  /\ View!Moves(Mute(at), Look("result", View!Event("agent_step_started", n + 1),
                                            0, n + 1, m, q))
             /\ View!Moves(Mute(at), Says("settle", "failed"))
             /\ View!Moves(Mute(at), Mute("settle"))
  <2>1. View!StartStep(Mute(at)) = Look("result", View!Event("agent_step_started", n + 1),
                                          0, n + 1, m, q)
    BY LookSteps
  <2>2. View!Say(Mute(at), "failed", "settle") = Says("settle", "failed")
        /\ View!GiveUp(Mute(at)) = Mute("settle")
    BY LookSteps
  <2>3. {View!StartStep(Mute(at)), View!Say(Mute(at), "failed", "settle")}
          \subseteq View!Speeches(Mute(at))
    BY <1>1 DEF View!Speeches
  <2>4. View!MayFallSilent(Mute(at))
    BY <1>1 DEF View!MayFallSilent
  <2>. QED  BY <1>2, <2>1, <2>2, <2>3, <2>4 DEF View!Moves
<1>4. /\ View!Ask(Mute("result"))
           = Look("asked", View!Event("ask_user", m + 1), 0, n, m + 1, m + 1)
      /\ View!Ask(Mute("result")) \in View!Speeches(Mute("result"))
  <2>1. View!Ask(Mute("result")) \in View!Speeches(Mute("result"))
    BY <1>1 DEF View!Speeches
  <2>. QED  BY <2>1, LookSteps
<1>5. ASSUME NEW x \in {<<"result", "paid", "payment_ready">>,
                        <<"result", "found", "payment_unverified">>,
                        <<"paid", "settle", "completed">>, <<"found", "settle", "unverified">>}
      PROVE  View!Moves(Mute(x[1]), Says(x[2], x[3]))
  <2>1. View!Say(Mute(x[1]), x[3], x[2]) = Says(x[2], x[3])
    BY LookSteps
  <2>2. View!Say(Mute(x[1]), x[3], x[2]) \in View!Speeches(Mute(x[1]))
    BY <1>1 DEF View!Speeches
  <2>. QED  BY <1>2, <2>1, <2>2
<1>6. View!Moves(Mute("settle"), View!Over)
  BY <1>1 DEF View!Moves, View!MaySettle
<1>. QED
  BY <1>2, <1>3, <1>4, <1>5, <1>6

LEMMA ViewHears ==
  ASSUME NEW at \in View!Places, NEW out, NEW tries, NEW n, NEW m, NEW q
  PROVE  /\ q # 0 => View!Moves(Look(at, out, tries, n, m, q), Look(at, out, tries, n, m, 0))
         /\ View!Moves(Look("asked", View!Silence, 0, n, m, 0),
                       Look("step", View!Silence, 0, n, m, 0))
         /\ View!Moves(View!Absent, Look("step", View!Silence, 0, 0, 0, 0))
<1>1. View!Answer(Look(at, out, tries, n, m, q)) = Look(at, out, tries, n, m, 0)
      /\ View!Hear(Look("asked", View!Silence, 0, n, m, 0)) = Look("step", View!Silence, 0, n, m, 0)
  BY LookSteps
<1>2. /\ View!MayHear(Look("asked", View!Silence, 0, n, m, 0))
      /\ Look(at, out, tries, n, m, q).question = q
  BY DEF Look, View!MayHear, View!Idle, View!Active
<1>3. View!Created = Look("step", View!Silence, 0, 0, 0, 0) /\ View!Absent.at = "absent"
  <2>1. View!Absent = Look("absent", View!Silence, 0, 0, 0, 0) /\ View!Absent.at = "absent"
    BY DEF View!Absent, Look
  <2>2. View!Hear(View!Absent) = Look("step", View!Silence, 0, 0, 0, 0)
    BY <2>1, LookSteps
  <2>. QED  BY <2>1, <2>2 DEF View!Created, View!Hear
<1>. QED
  BY <1>1, <1>2, <1>3 DEF View!Moves

LEMMA ViewDelivers ==
  ASSUME NEW at, NEW out, NEW tries, NEW n, NEW m, NEW q, out # View!Silence
  PROVE  LET b == Look(at, out, tries, n, m, q)
             c == IF tries + 1 = MaxAttempts THEN Look("settle", View!Silence, 0, n, m, q)
                  ELSE Look(at, out, tries + 1, n, m, q)
         IN /\ View!Moves(b, Look(at, View!Silence, 0, n, m, q))
            /\ View!Moves(b, c) /\ View!Retry(b) = c
<1>. DEFINE b == Look(at, out, tries, n, m, q)
<1>1. b.out # View!Silence
  BY DEF Look
<1>2. View!Delivered(b) = Look(at, View!Silence, 0, n, m, q)
  BY LookSteps
<1>3. View!Retry(b) = IF tries + 1 = MaxAttempts THEN Look("settle", View!Silence, 0, n, m, q)
                      ELSE Look(at, out, tries + 1, n, m, q)
  BY LookSteps
<1>. HIDE DEF b
<1>4. View!Moves(b, View!Delivered(b)) /\ View!Moves(b, View!Retry(b))
  BY <1>1 DEF View!Moves
<1>. QED
  BY <1>2, <1>3, <1>4 DEF b

(* A session that is driven is seen as active, one that is over as over.   *)
LEMMA Looks ==
  ASSUME NEW s \in Sessions
  PROVE  /\ IsActive(s) =>
              Sees(s) = Look(Place(s, Where(s)), OnWire(s),
                             IF OnWire(s) = View!Silence THEN 0 ELSE frame[s].tries,
                             frame[s].step, frame[s].asked, Asks(s))
         /\ status[s] # "absent" /\ ~IsActive(s) => Sees(s) = View!Over
         /\ status[s] = "absent" => Sees(s) = View!Absent
<1>1. IsActive(s) => status[s] # "absent"
  BY DEF IsActive, ActiveStatus
<1>. QED
  BY <1>1 DEF Sees, Look, Asks, Where, InEmission

LEMMA LooksNext ==
  ASSUME NEW s \in Sessions
  PROVE  /\ IsActive(s)' =>
              Sees(s)' = Look(Place(s, Where(s))', OnWire(s)',
                              IF OnWire(s)' = View!Silence THEN 0 ELSE frame'[s].tries,
                              frame'[s].step, frame'[s].asked, Asks(s)')
         /\ status'[s] # "absent" /\ ~IsActive(s)' => Sees(s)' = View!Over
         /\ status'[s] = "absent" => Sees(s)' = View!Absent
<1>1. IsActive(s)' => status'[s] # "absent"
  BY DEF IsActive, ActiveStatus
<1>. QED
  BY <1>1 DEF Sees, Look, Asks, Where, InEmission

LEMMA LooksActive ==
  ASSUME NEW s \in Sessions, IsActive(s)
  PROVE  View!Active(Sees(s))
<1>1. Place(s, Where(s)) \notin {"absent", "over"}
  BY DEF Place, Failing
<1>. QED
  BY <1>1, Looks DEF Look, View!Active

(* A coroutine that has not ended drives its session, and shows it.        *)
LEMMA Driven ==
  ASSUME SlotInv, PlacesInv, NEW s \in Sessions, Calm(s), pc[s] \notin Ended \cup {"none"}
  PROVE  IsActive(s)
<1>1. status[s] \notin Over /\ status[s] # "absent" /\ status[s] \in Status
  BY DEF Calm, PlacesInv, PlaceInv, SlotInv, TypeOK
<1>. QED
  BY <1>1 DEF SlotInv, HasRunner, Ended, Status, Over

LEMMA DrivenNext ==
  ASSUME SlotInv', PlacesInv', NEW s \in Sessions, Calm(s)', pc'[s] \notin Ended \cup {"none"}
  PROVE  IsActive(s)'
<1>1. status'[s] \notin Over /\ status'[s] # "absent" /\ status'[s] \in Status
  BY DEF Calm, PlacesInv, PlaceInv, SlotInv, TypeOK
<1>. QED
  BY <1>1 DEF SlotInv, HasRunner, Ended, Status, Over

(* While no repository call raises, no event is written twice.             *)
LEMMA NeverDuplicate ==
  ASSUME SlotInv, ToldInv, ViewInv, NEW s \in Sessions, Calm(s)
  PROVE  ~EmitDuplicate(s)
<1>. SUFFICES ASSUME EmitDuplicate(s) PROVE FALSE
  OBVIOUS
<1>0. /\ TypeOK /\ PathInv(s) /\ Numbered(s) /\ Unwritten(s) /\ frame[s] \in Frames
  BY DEF SlotInv, TypeOK, ToldInv, ViewInv
<1>1. Where(s) \in Unsettled \cup {"verdict"}
  BY <1>0, NoDuplicateVerdict
<1>2. /\ pc[s] = "append" /\ Where(s) = frame[s].then /\ Fits(frame[s])
      /\ frame[s].event = EventAt(frame[s])
      /\ \E i \in DOMAIN log[s] : frame[s].event = log[s][i]
  BY <1>0 DEF EmitDuplicate, At, Where, InEmission, PathInv, Numbered
<1>3. Writes(s)
  BY <1>1, <1>2 DEF Writes, Entering
<1>4. Ahead(s, frame[s].event)
  <2>1. frame[s].then \in {"auth", "run", "result", "await", "verdict"}
    BY <1>1, <1>2 DEF Fits, Unsettled
  <2>2. frame[s].step \in Nat /\ frame[s].asked \in Nat
    BY <1>0 DEF Frames
  <2>. QED  BY <1>2, <2>1, <2>2 DEF Ahead, Entering, EventAt, Ev, Payments, PaymentOf
<1>. QED
  BY <1>0, <1>2, <1>3, <1>4 DEF Unwritten


(* What a step of the coroutine of session s, or a reply to it, may show.  *)
ViewStep(s) ==
  \/ Sees(s)' = Sees(s)
  \/ /\ View!Moves(Sees(s), Sees(s)')
     /\ OnWire(s) # View!Silence /\ OnWire(s)' = View!Silence =>
          frame[s].event \in {inbox'[s][i] : i \in DOMAIN inbox'[s]}
          \/ Sees(s)' = View!Retry(Sees(s))

(* What the step lemmas start from.                                        *)
ViewReady(s) ==
  /\ SlotInv /\ PlacesInv /\ ToldInv /\ ViewInv /\ Calm(s)
  /\ SlotInv' /\ PlacesInv' /\ Calm(s)'

LEMMA ViewFacts ==
  ASSUME NEW s \in Sessions, ViewReady(s)
  PROVE  /\ TypeOK /\ pc \in [Sessions -> Labels] /\ status \in [Sessions -> Status]
         /\ frame \in [Sessions -> Frames] /\ question \in [Sessions -> Nat]
         /\ frame[s] \in Frames /\ frame[s].step \in Nat /\ frame[s].asked \in Nat
         /\ PlaceInv(s) /\ PathInv(s) /\ Numbered(s) /\ Calm(s)
         /\ pc[s] \notin Ended \cup {"none"} => IsActive(s)
         /\ pc'[s] \notin Ended \cup {"none"} => IsActive(s)'
  BY Driven, DrivenNext DEF ViewReady, SlotInv, TypeOK, PlacesInv, ToldInv, ViewInv, Frames

(* Nothing to see.                                                         *)
LEMMA ViewStutters ==
  ASSUME NEW s \in Sessions, IsActive(s), IsActive(s)',
         Place(s, Where(s))' = Place(s, Where(s)), OnWire(s)' = OnWire(s),
         OnWire(s) # View!Silence => frame'[s].tries = frame[s].tries,
         frame'[s].step = frame[s].step, frame'[s].asked = frame[s].asked,
         status'[s] = "waiting_user" <=> status[s] = "waiting_user", question'[s] = question[s]
  PROVE  ViewStep(s)
<1>1. Sees(s)' = Sees(s)
  BY Looks, LooksNext DEF Asks
<1>. QED
  BY <1>1 DEF ViewStep

(* From silence to a step of BuyerView.                                    *)
LEMMA ViewSays ==
  ASSUME NEW s \in Sessions, IsActive(s), IsActive(s)', OnWire(s) = View!Silence,
         View!Moves(Look(Place(s, Where(s)), View!Silence, 0, frame[s].step, frame[s].asked, Asks(s)),
                    Look(Place(s, Where(s))', OnWire(s)',
                         IF OnWire(s)' = View!Silence THEN 0 ELSE frame'[s].tries,
                         frame'[s].step, frame'[s].asked, Asks(s)'))
  PROVE  ViewStep(s)
<1>1. View!Moves(Sees(s), Sees(s)')
  BY Looks, LooksNext
<1>. QED
  BY <1>1 DEF ViewStep

LEMMA ViewMeaning ==
  /\ \A n : /\ Meaning(Ev("start", n)) = View!Silence
            /\ Meaning(Ev("step-finished", n)) = View!Silence
            /\ Meaning(Ev("step-started", n)) = View!Event("agent_step_started", n)
            /\ Meaning(Ev("ask-user", n)) = View!Event("ask_user", n)
            /\ Meaning(Ev("payment-ready", n)) = View!Event("payment_ready", 0)
            /\ Meaning(Ev("payment-unverified", n)) = View!Event("payment_unverified", 0)
            /\ Meaning(Ev("scenario-finished", n)) = View!Event("completed", 0)
            /\ Meaning(Ev("scenario-unverified", n)) = View!Event("unverified", 0)
            /\ Meaning(Ev("scenario-failed", n)) = View!Event("failed", 0)
  /\ \A type \in View!EventTypes : \A n : View!Event(type, n) # View!Silence
BY DEF Meaning, Ev, View!Event, View!Silence, View!EventTypes

(* The steps in which the receiver sees nothing.                           *)
LEMMA MovesStutter ==
  ASSUME NEW s \in Sessions, ViewReady(s),
         \/ StartTask(s) \/ Boot(s) \/ Authenticate(s) \/ Woken(s) \/ Unexpected(s)
         \/ MarkFailed(s) \/ EmitAppend(s) \/ MarkDelivered(s) \/ StepRaises(s) \/ RunStep(s)
  PROVE  ViewStep(s)
<1>. USE DEF Local, stored, At, Goto
<1>. DEFINE f == frame[s]
<1>0. /\ TypeOK /\ pc \in [Sessions -> Labels] /\ status \in [Sessions -> Status]
      /\ frame \in [Sessions -> Frames] /\ f \in Frames /\ f.step \in Nat
      /\ PlaceInv(s) /\ PathInv(s) /\ Numbered(s) /\ Calm(s)
      /\ pc[s] \notin Ended \cup {"none"} => IsActive(s)
      /\ pc'[s] \notin Ended \cup {"none"} => IsActive(s)'
  BY ViewFacts
<1>1. CASE StartTask(s) \/ Authenticate(s) \/ Woken(s) \/ MarkFailed(s)
  <2>1. /\ frame' = frame /\ question' = question
        /\ \/ pc[s] = "creating" /\ pc'[s] = "boot" /\ status[s] = "created" /\ status'[s] = "running"
           \/ /\ status' = status
              /\ \/ pc[s] = "auth" /\ pc'[s] = "loop" /\ ~f.recovering
                 \/ pc[s] = "await" /\ pc'[s] = "pop"
                 \/ pc[s] = "mark_failed" /\ pc'[s] = "delivery_error"
    BY <1>0, <1>1 DEF StartTask, Authenticate, Woken, MarkFailed, Numbered, PlaceInv, Where,
       InEmission
  <2>2. /\ Where(s) = pc[s] /\ Where(s)' = pc'[s]
        /\ OnWire(s) = View!Silence /\ OnWire(s)' = View!Silence
    BY <2>1 DEF Where, InEmission, OnWire
  <2>3. Place(s, Where(s))' = Place(s, Where(s))
    BY <2>1, <2>2 DEF Place
  <2>4. IsActive(s) /\ IsActive(s)'
    BY <1>0, <2>1 DEF Ended
  <2>. QED  BY <2>1, <2>2, <2>3, <2>4, ViewStutters
<1>2. CASE Boot(s)
  <2>1. Emit(s, f, Ev("start", 0), "auth") /\ pc[s] = "boot" /\ UNCHANGED <<status, question>>
    BY <1>2 DEF Boot
  <2>2. /\ pc'[s] = "append" /\ Where(s)' = "auth" /\ frame'[s].step = f.step
        /\ frame'[s].asked = f.asked /\ frame'[s].event = Ev("start", 0)
    BY <1>0, <2>1, EmitFrame
  <2>3. Where(s) = "boot" /\ OnWire(s) = View!Silence /\ OnWire(s)' = View!Silence
    BY <2>1, <2>2, ViewMeaning DEF Where, InEmission, OnWire
  <2>4. Place(s, Where(s)) = "step" /\ Place(s, Where(s))' = "step"
    BY <2>2, <2>3 DEF Place
  <2>5. IsActive(s) /\ IsActive(s)'
    BY <1>0, <2>1, <2>2 DEF Ended
  <2>. QED  BY <2>1, <2>2, <2>3, <2>4, <2>5, ViewStutters
<1>3. CASE RunStep(s)
  <2>1. PICK r \in Results :
          /\ Emit(s, [f EXCEPT !.result = r], Ev("step-finished", f.step), "result")
          /\ pc[s] = "run" /\ UNCHANGED <<status, question>>
    BY <1>3 DEF RunStep
  <2>. DEFINE g == [f EXCEPT !.result = r]
  <2>2. g \in Frames /\ g.step = f.step /\ g.asked = f.asked
    BY <1>0 DEF Frames
  <2>3. Emit(s, g, Ev("step-finished", f.step), "result")
    BY <2>1
  <2>. HIDE DEF g
  <2>4. /\ pc'[s] = "append" /\ Where(s)' = "result" /\ frame'[s].step = f.step
        /\ frame'[s].asked = f.asked /\ frame'[s].event = Ev("step-finished", f.step)
    BY <1>0, <2>2, <2>3, EmitFrame
  <2>5. Where(s) = "run" /\ OnWire(s) = View!Silence /\ OnWire(s)' = View!Silence
    BY <2>1, <2>4, ViewMeaning DEF Where, InEmission, OnWire
  <2>6. Place(s, Where(s)) = "result" /\ Place(s, Where(s))' = "result"
    BY <2>4, <2>5 DEF Place
  <2>7. IsActive(s) /\ IsActive(s)'
    BY <1>0, <2>1, <2>4 DEF Ended
  <2>. QED  BY <2>1, <2>4, <2>5, <2>6, <2>7, ViewStutters
<1>4. CASE StepRaises(s) \/ Unexpected(s)
  <2>1. /\ UNCHANGED <<status, question>>
        /\ \/ pc[s] \in {"run", "auth"} /\ pc'[s] = "unexpected"
              /\ frame' = [frame EXCEPT ![s].handling = TRUE]
           \/ pc[s] = "unexpected" /\ pc'[s] = "verdict"
              /\ frame' = [frame EXCEPT ![s].verdict = "failed"]
    BY <1>0, <1>4 DEF StepRaises, Unexpected, Raise, Calm, Where, InEmission, Unsettled
  <2>2. /\ frame'[s].step = f.step /\ frame'[s].asked = f.asked
        /\ pc'[s] = "verdict" => frame'[s].verdict = "failed"
    BY <1>0, <2>1 DEF Frames
  <2>3. /\ Where(s) = pc[s] /\ Where(s)' = pc'[s]
        /\ OnWire(s) = View!Silence /\ OnWire(s)' = View!Silence
    BY <2>1 DEF Where, InEmission, OnWire
  <2>4. /\ pc[s] = "run" => f.step > 0
        /\ pc[s] = "auth" => f.step = 0
    BY <1>0, <2>1, <2>3 DEF Numbered
  <2>5. Place(s, Where(s))' = Place(s, Where(s))
    BY <1>0, <2>1, <2>2, <2>3, <2>4 DEF Place, Failing
  <2>6. IsActive(s) /\ IsActive(s)'
    BY <1>0, <2>1 DEF Ended
  <2>. QED  BY <2>1, <2>2, <2>3, <2>5, <2>6, ViewStutters
<1>5. CASE EmitAppend(s) \/ MarkDelivered(s)
  <2>1. /\ UNCHANGED <<status, question, frame>>
        /\ \/ pc[s] = "append" /\ pc'[s] = "deliver"
           \/ pc[s] = "mark_delivered" /\ pc'[s] = f.then
    BY <1>0, <1>5 DEF EmitAppend, MarkDelivered
  <2>2. Fits(f)
    BY <1>0, <2>1 DEF PathInv, InEmission
  <2>3. /\ Where(s) = f.then /\ Where(s)' = f.then /\ OnWire(s)' = OnWire(s)
        /\ pc'[s] \notin Ended \cup {"none"}
    BY <2>1, <2>2 DEF Where, InEmission, OnWire, Fits, Ended
  <2>4. Place(s, Where(s))' = Place(s, Where(s))
    BY <2>1, <2>3 DEF Place, Failing
  <2>5. IsActive(s) /\ IsActive(s)'
    BY <1>0, <2>1, <2>3 DEF Ended
  <2>. QED  BY <2>1, <2>3, <2>4, <2>5, ViewStutters
<1>. QED
  BY <1>1, <1>2, <1>3, <1>4, <1>5

(* The steps in which the session says something.                          *)
LEMMA SpeaksView ==
  ASSUME NEW s \in Sessions, ViewReady(s),
         BeginStep(s) \/ AskUser(s) \/ EmitVerdict(s)
  PROVE  ViewStep(s)
<1>. USE DEF Local, stored, At, Goto
<1>. DEFINE f == frame[s]
<1>0. /\ TypeOK /\ pc \in [Sessions -> Labels] /\ status \in [Sessions -> Status]
      /\ question \in [Sessions -> Nat] /\ f \in Frames /\ f.step \in Nat /\ f.asked \in Nat
      /\ PlaceInv(s) /\ Numbered(s)
      /\ pc[s] \notin Ended \cup {"none"} => IsActive(s)
      /\ pc'[s] \notin Ended \cup {"none"} => IsActive(s)'
  BY ViewFacts
<1>1. /\ pc[s] \in {"loop", "ask", "verdict"} /\ pc'[s] = "append"
      /\ IsActive(s) /\ IsActive(s)' /\ OnWire(s) = View!Silence /\ Where(s) = pc[s]
  <2>1. pc[s] \in {"loop", "ask", "verdict"} /\ pc'[s] = "append"
    BY <1>0 DEF BeginStep, AskUser, EmitVerdict, Emit
  <2>2. IsActive(s) /\ IsActive(s)'
    BY <1>0, <2>1 DEF Ended
  <2>. QED  BY <2>1, <2>2 DEF Where, InEmission, OnWire
<1>2. OnWire(s)' = Meaning(frame'[s].event) /\ Where(s)' = frame'[s].then
  BY <1>1 DEF OnWire, Meaning, Where, InEmission
<1>3. \A type \in View!EventTypes : \A n : View!Event(type, n) # View!Silence
  BY ViewMeaning
<1>4. CASE BeginStep(s)
  <2>. DEFINE g == [f EXCEPT !.step = f.step + 1]
  <2>1. /\ Emit(s, g, Ev("step-started", f.step + 1), "run") /\ pc[s] = "loop"
        /\ UNCHANGED <<status, question>>
    BY <1>4 DEF BeginStep
  <2>2. g \in Frames /\ g.step = f.step + 1 /\ g.asked = f.asked
    BY <1>0 DEF Frames
  <2>. HIDE DEF g
  <2>3. /\ Where(s)' = "run" /\ frame'[s].step = f.step + 1 /\ frame'[s].asked = f.asked
        /\ frame'[s].event = Ev("step-started", f.step + 1) /\ frame'[s].tries = 0
    BY <1>0, <2>1, <2>2, EmitFrame
  <2>4. OnWire(s)' = View!Event("agent_step_started", f.step + 1)
    BY <1>2, <2>3, ViewMeaning
  <2>5. Place(s, Where(s)) \in {"step", "result"} /\ Place(s, Where(s))' = "result"
    BY <1>1, <2>1, <2>3 DEF Place
  <2>6. Asks(s)' = Asks(s)
    BY <2>1 DEF Asks
  <2>7. View!Moves(Look(Place(s, Where(s)), View!Silence, 0, f.step, f.asked, Asks(s)),
                   Look("result", View!Event("agent_step_started", f.step + 1), 0, f.step + 1,
                        f.asked, Asks(s)))
    BY <2>5, ViewSpeaks
  <2>8. (IF OnWire(s)' = View!Silence THEN 0 ELSE frame'[s].tries) = 0
    BY <2>3
  <2>. QED  BY <1>1, <2>3, <2>4, <2>5, <2>6, <2>7, <2>8, ViewSays
<1>5. CASE AskUser(s)
  <2>. DEFINE g == [f EXCEPT !.asked = f.asked + 1]
  <2>1. /\ Emit(s, g, Ev("ask-user", f.asked + 1), "await") /\ pc[s] = "ask"
        /\ status'[s] = "waiting_user" /\ question'[s] = f.asked + 1
    BY <1>0, <1>5 DEF AskUser
  <2>2. g \in Frames /\ g.step = f.step /\ g.asked = f.asked + 1
    BY <1>0 DEF Frames
  <2>. HIDE DEF g
  <2>3. /\ Where(s)' = "await" /\ frame'[s].step = f.step /\ frame'[s].asked = f.asked + 1
        /\ frame'[s].event = Ev("ask-user", f.asked + 1) /\ frame'[s].tries = 0
    BY <1>0, <2>1, <2>2, EmitFrame
  <2>4. OnWire(s)' = View!Event("ask_user", f.asked + 1)
    BY <1>2, <2>3, ViewMeaning
  <2>5. Place(s, Where(s)) = "result" /\ Place(s, Where(s))' = "asked"
    BY <1>1, <2>1, <2>3 DEF Place
  <2>6. Asks(s)' = f.asked + 1
    BY <2>1 DEF Asks
  <2>7. View!Moves(Look("result", View!Silence, 0, f.step, f.asked, Asks(s)),
                   Look("asked", View!Event("ask_user", f.asked + 1), 0, f.step,
                        f.asked + 1, f.asked + 1))
    BY ViewSpeaks
  <2>8. (IF OnWire(s)' = View!Silence THEN 0 ELSE frame'[s].tries) = 0
    BY <2>3
  <2>. QED  BY <1>1, <2>3, <2>4, <2>5, <2>6, <2>7, <2>8, ViewSays
<1>6. CASE EmitVerdict(s)
  <2>1. /\ Emit(s, f, Ev(VerdictType[f.verdict], 0), "settle") /\ pc[s] = "verdict"
        /\ UNCHANGED <<status, question>>
    BY <1>6 DEF EmitVerdict
  <2>2. /\ Where(s)' = "settle" /\ frame'[s].step = f.step /\ frame'[s].asked = f.asked
        /\ frame'[s].event = Ev(VerdictType[f.verdict], 0) /\ frame'[s].tries = 0
    BY <1>0, <2>1, EmitFrame
  <2>3. Place(s, Where(s))' = "settle" /\ Asks(s)' = Asks(s)
    BY <2>1, <2>2 DEF Place, Asks
  <2>4. (IF OnWire(s)' = View!Silence THEN 0 ELSE frame'[s].tries) = 0
    BY <2>2
  <2>5. PICK type \in {"completed", "unverified", "failed"} :
          /\ OnWire(s)' = View!Event(type, 0)
          /\ type = "completed" => Place(s, Where(s)) = "paid"
          /\ type = "unverified" => Place(s, Where(s)) = "found"
          /\ type = "failed" => Place(s, Where(s)) \in {"step", "result"}
    <3>1. f.verdict \in Terminal
      BY <1>0 DEF Frames
    <3>2. CASE f.verdict = "completed"
      BY <1>1, <1>2, <2>1, <2>2, <3>2, ViewMeaning DEF VerdictType, Place
    <3>3. CASE f.verdict = "unverified"
      BY <1>1, <1>2, <2>1, <2>2, <3>3, ViewMeaning DEF VerdictType, Place
    <3>4. CASE f.verdict = "failed"
      BY <1>1, <1>2, <2>1, <2>2, <3>4, ViewMeaning DEF VerdictType, Place, Failing
    <3>. QED  BY <3>1, <3>2, <3>3, <3>4 DEF Terminal
  <2>6. View!Moves(Look(Place(s, Where(s)), View!Silence, 0, f.step, f.asked, Asks(s)),
                   Look("settle", View!Event(type, 0), 0, f.step, f.asked, Asks(s)))
    BY <2>5, ViewSpeaks
  <2>. QED  BY <1>1, <2>2, <2>3, <2>4, <2>5, <2>6, ViewSays
<1>. QED
  BY <1>4, <1>5, <1>6

(* What the result of a step shows.                                        *)
LEMMA DispatchView ==
  ASSUME NEW s \in Sessions, ViewReady(s), Dispatch(s)
  PROVE  ViewStep(s)
<1>. USE DEF Local, stored, Goto
<1>. DEFINE f == frame[s]
            g == [f EXCEPT !.latest = 0, !.result = NoFrame.result]
            calm == [g EXCEPT !.recovering = FALSE]
<1>0. /\ TypeOK /\ pc \in [Sessions -> Labels] /\ frame \in [Sessions -> Frames]
      /\ f \in Frames /\ f.step \in Nat /\ f.asked \in Nat /\ Numbered(s)
      /\ pc[s] \notin Ended \cup {"none"} => IsActive(s)
      /\ pc'[s] \notin Ended \cup {"none"} => IsActive(s)'
  BY ViewFacts
<1>1. /\ pc[s] = "result" /\ UNCHANGED <<status, question>>
      /\ Where(s) = "result" /\ OnWire(s) = View!Silence /\ f.step > 0
      /\ Place(s, Where(s)) = "result" /\ IsActive(s)
  <2>1. pc[s] = "result" /\ UNCHANGED <<status, question>>
    BY DEF Dispatch
  <2>2. Where(s) = "result" /\ OnWire(s) = View!Silence
    BY <2>1 DEF Where, InEmission, OnWire
  <2>. QED  BY <1>0, <2>1, <2>2 DEF Numbered, Place, Ended
<1>2. /\ g \in Frames /\ g.step = f.step /\ g.asked = f.asked
      /\ calm \in Frames /\ calm.step = f.step /\ calm.asked = f.asked
  BY <1>0 DEF Frames, NoFrame, Results
<1>3. \/ frame' = [frame EXCEPT ![s] = calm] /\ pc' = [pc EXCEPT ![s] = "ask"]
      \/ Emit(s, [calm EXCEPT !.verdict = "completed"], Ev("payment-ready", 0), "verdict")
      \/ Emit(s, [calm EXCEPT !.verdict = "unverified"], Ev("payment-unverified", 0), "verdict")
      \/ frame' = [frame EXCEPT ![s] = [g EXCEPT !.recovering = TRUE]]
         /\ pc' = [pc EXCEPT ![s] = "loop"]
      \/ frame' = [frame EXCEPT ![s] = [g EXCEPT !.verdict = "failed"]]
         /\ pc' = [pc EXCEPT ![s] = "verdict"]
  BY DEF Dispatch
<1>. HIDE DEF calm, g
<1>4. CASE \/ frame' = [frame EXCEPT ![s] = calm] /\ pc' = [pc EXCEPT ![s] = "ask"]
           \/ frame' = [frame EXCEPT ![s] = [g EXCEPT !.recovering = TRUE]]
              /\ pc' = [pc EXCEPT ![s] = "loop"]
           \/ frame' = [frame EXCEPT ![s] = [g EXCEPT !.verdict = "failed"]]
              /\ pc' = [pc EXCEPT ![s] = "verdict"]
  <2>1. /\ frame'[s].step = f.step /\ frame'[s].asked = f.asked
        /\ \/ pc'[s] = "ask"
           \/ pc'[s] = "loop" /\ frame'[s].recovering
           \/ pc'[s] = "verdict" /\ frame'[s].verdict = "failed"
    BY <1>0, <1>2, <1>4 DEF Frames
  <2>2. Where(s)' = pc'[s] /\ OnWire(s)' = View!Silence /\ IsActive(s)'
    BY <1>0, <2>1 DEF Where, InEmission, OnWire, Ended
  <2>3. Place(s, Where(s))' = "result"
    BY <1>0, <1>1, <2>1, <2>2 DEF Place, Failing
  <2>. QED  BY <1>1, <2>1, <2>2, <2>3, ViewStutters
<1>5. ASSUME NEW v \in {"completed", "unverified"},
             Emit(s, [calm EXCEPT !.verdict = v], Ev(PaymentOf(v), 0), "verdict")
      PROVE  ViewStep(s)
  <2>. DEFINE h == [calm EXCEPT !.verdict = v]
  <2>1. h \in Frames /\ h.step = f.step /\ h.asked = f.asked /\ h.verdict = v
    BY <1>2 DEF Frames, Terminal
  <2>2. Emit(s, h, Ev(PaymentOf(v), 0), "verdict")
    BY <1>5
  <2>. HIDE DEF h
  <2>3. /\ pc'[s] = "append" /\ Where(s)' = "verdict" /\ frame'[s].step = f.step
        /\ frame'[s].asked = f.asked /\ frame'[s].verdict = v /\ frame'[s].tries = 0
        /\ frame'[s].event = Ev(PaymentOf(v), 0)
    BY <1>0, <2>1, <2>2, EmitFrame
  <2>4. IsActive(s)' /\ OnWire(s)' = Meaning(Ev(PaymentOf(v), 0)) /\ Asks(s)' = Asks(s)
    BY <1>0, <1>1, <2>3 DEF Ended, OnWire, Meaning, Asks
  <2>5. (IF OnWire(s)' = View!Silence THEN 0 ELSE frame'[s].tries) = 0
    BY <2>3
  <2>6. View!Moves(Look("result", View!Silence, 0, f.step, f.asked, Asks(s)),
                   Look(Place(s, Where(s))', OnWire(s)', 0, f.step, f.asked, Asks(s)))
    <3>1. CASE v = "completed"
      <4>1. Place(s, Where(s))' = "paid" /\ OnWire(s)' = View!Event("payment_ready", 0)
        BY <2>3, <2>4, <3>1, ViewMeaning DEF Place, PaymentOf
      <4>. QED  BY <4>1, ViewSpeaks
    <3>2. CASE v = "unverified"
      <4>1. Place(s, Where(s))' = "found" /\ OnWire(s)' = View!Event("payment_unverified", 0)
        BY <2>3, <2>4, <3>2, ViewMeaning DEF Place, PaymentOf
      <4>. QED  BY <4>1, ViewSpeaks
    <3>. QED  BY <3>1, <3>2
  <2>. QED  BY <1>1, <2>3, <2>4, <2>5, <2>6, ViewSays
<1>6. PaymentOf("completed") = "payment-ready" /\ PaymentOf("unverified") = "payment-unverified"
  BY DEF PaymentOf
<1>7. CASE Emit(s, [calm EXCEPT !.verdict = "completed"], Ev("payment-ready", 0), "verdict")
  BY <1>5, <1>6, <1>7
<1>8. CASE Emit(s, [calm EXCEPT !.verdict = "unverified"], Ev("payment-unverified", 0), "verdict")
  BY <1>5, <1>6, <1>8
<1>. QED
  BY <1>3, <1>4, <1>7, <1>8

(* The operator answers, and the coroutine takes the answer.               *)
LEMMA RepliesView ==
  ASSUME NEW s \in Sessions, NEW r \in Nat \ {0}, ViewReady(s), PopReply(s) \/ ApplyReply(s, r)
  PROVE  ViewStep(s)
<1>. USE DEF Local, stored, At, Goto
<1>. DEFINE f == frame[s]
<1>0. /\ TypeOK /\ pc \in [Sessions -> Labels] /\ status \in [Sessions -> Status]
      /\ frame \in [Sessions -> Frames] /\ question \in [Sessions -> Nat]
      /\ f \in Frames /\ f.step \in Nat /\ f.asked \in Nat
      /\ PlaceInv(s) /\ Numbered(s)
      /\ pc[s] \notin Ended \cup {"none"} => IsActive(s)
      /\ pc'[s] \notin Ended \cup {"none"} => IsActive(s)'
  BY ViewFacts
<1>1. CASE PopReply(s)
  <2>1. pc[s] = "pop" /\ UNCHANGED <<status, question>>
    BY <1>1 DEF PopReply
  <2>2. Where(s) = "pop" /\ OnWire(s) = View!Silence
    BY <2>1 DEF Where, InEmission, OnWire
  <2>3. pending[s] # 0 /\ status[s] = "running" /\ ~f.recovering /\ IsActive(s)
    BY <1>0, <2>1, <2>2 DEF PlaceInv, Numbered, Asking, Busy, Ended
  <2>4. frame' = [frame EXCEPT ![s].latest = pending[s]] /\ pc' = [pc EXCEPT ![s] = "loop"]
    BY <1>1, <2>3 DEF PopReply
  <2>5. pc'[s] = "loop" /\ frame'[s] = [f EXCEPT !.latest = pending[s]]
    BY <1>0, <2>4
  <2>6. frame'[s].step = f.step /\ frame'[s].asked = f.asked /\ frame'[s].recovering = f.recovering
    BY <1>0, <2>5 DEF Frames
  <2>7. Where(s)' = "loop" /\ OnWire(s)' = View!Silence /\ IsActive(s)'
    BY <1>0, <2>5 DEF Where, InEmission, OnWire, Ended
  <2>8. /\ Place(s, Where(s)) = "asked" /\ Place(s, Where(s))' = "step"
        /\ Asks(s) = 0 /\ Asks(s)' = 0
    BY <2>1, <2>2, <2>3, <2>6, <2>7 DEF Place, Asks
  <2>9. View!Moves(Look("asked", View!Silence, 0, f.step, f.asked, 0),
                   Look("step", View!Silence, 0, f.step, f.asked, 0))
    BY ViewHears DEF View!Places
  <2>. QED  BY <2>2, <2>3, <2>6, <2>7, <2>8, <2>9, ViewSays
<1>2. CASE ApplyReply(s, r)
  <2>1. /\ IsActive(s) /\ status[s] = "waiting_user" /\ question[s] # 0
        /\ status'[s] = "running" /\ UNCHANGED <<runtime, task, pc, frame, inbox>>
    BY <1>0, <1>2 DEF ApplyReply, MayReply
  <2>2. IsActive(s)'
    BY <2>1 DEF IsActive, ActiveStatus
  <2>3. /\ Where(s)' = Where(s) /\ OnWire(s)' = OnWire(s)
        /\ Asks(s) # 0 /\ Asks(s)' = 0
    BY <2>1 DEF Where, OnWire, Asks
  <2>4. Place(s, Where(s))' = Place(s, Where(s))
    BY <2>1, <2>3 DEF Place, Failing
  <2>5. Place(s, Where(s)) \in View!Places
    BY DEF Place, Failing, View!Places
  <2>6. View!Moves(Sees(s), Sees(s)')
    BY <2>1, <2>2, <2>3, <2>4, <2>5, ViewHears, Looks, LooksNext
  <2>. QED  BY <2>1, <2>3, <2>6 DEF ViewStep
<1>. QED
  BY <1>1, <1>2

(* An attempt to deliver: the event is heard, or tried again, or given up. *)
LEMMA DeliversView ==
  ASSUME NEW s \in Sessions, ViewReady(s), Delivered(s) \/ AttemptFails(s)
  PROVE  ViewStep(s)
<1>. USE DEF Local, stored, Goto
<1>. DEFINE f == frame[s]
            at == Place(s, f.then)
            q == Asks(s)
<1>0. /\ TypeOK /\ pc \in [Sessions -> Labels] /\ frame \in [Sessions -> Frames]
      /\ f \in Frames /\ f.step \in Nat /\ f.asked \in Nat /\ PathInv(s) /\ Numbered(s)
      /\ pc[s] \notin Ended \cup {"none"} => IsActive(s)
      /\ pc'[s] \notin Ended \cup {"none"} => IsActive(s)'
  BY ViewFacts
<1>1. /\ pc[s] = "deliver" /\ UNCHANGED <<status, question>>
      /\ \/ /\ pc'[s] = "mark_delivered" /\ Receive(s)
            /\ frame' = [frame EXCEPT ![s] = [f EXCEPT !.tries = 0]]
         \/ pc'[s] = "mark_failed" /\ frame' = frame /\ f.tries + 1 = MaxAttempts
         \/ /\ pc'[s] = "deliver" /\ f.tries + 1 # MaxAttempts
            /\ frame' = [frame EXCEPT ![s] = [f EXCEPT !.tries = f.tries + 1]]
  BY <1>0 DEF Delivered, AttemptFails
<1>2. /\ frame'[s].step = f.step /\ frame'[s].asked = f.asked /\ frame'[s].then = f.then
      /\ frame'[s].event = f.event /\ frame'[s].recovering = f.recovering
      /\ frame'[s].verdict = f.verdict
      /\ pc'[s] = "deliver" => frame'[s].tries = f.tries + 1
  BY <1>0, <1>1 DEF Frames
<1>3. /\ IsActive(s) /\ IsActive(s)' /\ Where(s) = f.then /\ OnWire(s) = Meaning(f.event)
      /\ Asks(s)' = q
  BY <1>0, <1>1 DEF Ended, Where, InEmission, OnWire, Meaning, Asks
<1>4. Fits(f)
  BY <1>0, <1>1 DEF PathInv, InEmission
<1>5. pc'[s] # "mark_failed" => Where(s)' = f.then /\ Place(s, Where(s))' = at
  BY <1>1, <1>2 DEF Where, InEmission, Place, Failing
<1>6. pc'[s] = "mark_failed" => Where(s)' = "mark_failed" /\ Place(s, Where(s))' = "settle"
  BY DEF Where, InEmission, Place
<1>7. OnWire(s)' = IF pc'[s] = "deliver" THEN Meaning(f.event) ELSE View!Silence
  BY <1>1, <1>2 DEF OnWire, Meaning
<1>8. CASE Meaning(f.event) = View!Silence
  <2>1. at \in {"step", "result"} /\ Place(s, Where(s)) = at
    <3>1. f.event = EventAt(f)
      BY <1>0, <1>1 DEF Numbered, InEmission
    <3>2. f.then \in {"auth", "run", "result", "await", "verdict", "settle"} /\ f.verdict \in Terminal
      BY <1>0, <1>4 DEF Fits, Frames
    <3>3. f.then \in {"auth", "result"}
      <4>1. CASE f.then = "run"
        BY <1>8, <3>1, <4>1, ViewMeaning DEF EventAt, View!EventTypes
      <4>2. CASE f.then = "await"
        BY <1>8, <3>1, <4>2, ViewMeaning DEF EventAt, View!EventTypes
      <4>3. CASE f.then = "verdict"
        BY <1>8, <3>1, <4>3, ViewMeaning DEF EventAt, View!EventTypes, PaymentOf
      <4>4. CASE f.then = "settle"
        BY <1>8, <3>1, <3>2, <4>4, ViewMeaning DEF EventAt, View!EventTypes, VerdictType, Terminal
      <4>. QED  BY <3>2, <4>1, <4>2, <4>3, <4>4
    <3>. QED  BY <1>3, <3>3 DEF Place
  <2>2. OnWire(s) = View!Silence /\ OnWire(s)' = View!Silence
    BY <1>3, <1>7, <1>8
  <2>3. CASE pc'[s] = "mark_failed"
    <3>1. View!Moves(Look(at, View!Silence, 0, f.step, f.asked, q),
                     Look("settle", View!Silence, 0, f.step, f.asked, q))
      BY <2>1, ViewSpeaks
    <3>. QED  BY <1>2, <1>3, <1>6, <2>1, <2>2, <2>3, <3>1, ViewSays
  <2>4. CASE pc'[s] # "mark_failed"
    BY <1>1, <1>2, <1>3, <1>5, <2>1, <2>2, <2>4, ViewStutters
  <2>. QED  BY <2>3, <2>4
<1>9. CASE Meaning(f.event) # View!Silence
  <2>. DEFINE e == Meaning(f.event)
              b == Look(at, e, f.tries, f.step, f.asked, q)
              c == IF f.tries + 1 = MaxAttempts THEN Look("settle", View!Silence, 0, f.step, f.asked, q)
                   ELSE Look(at, e, f.tries + 1, f.step, f.asked, q)
  <2>1. Sees(s) = b
    BY <1>3, <1>9, Looks
  <2>2. /\ View!Moves(b, Look(at, View!Silence, 0, f.step, f.asked, q))
        /\ View!Moves(b, c) /\ View!Retry(b) = c
    BY <1>9, ViewDelivers
  <2>3. Sees(s)' = Look(Place(s, Where(s))', OnWire(s)',
                        IF OnWire(s)' = View!Silence THEN 0 ELSE frame'[s].tries,
                        f.step, f.asked, q)
    BY <1>2, <1>3, LooksNext
  <2>. HIDE DEF b, c
  <2>4. CASE pc'[s] = "mark_delivered"
    <3>1. Sees(s)' = Look(at, View!Silence, 0, f.step, f.asked, q)
      BY <1>5, <1>7, <2>3, <2>4
    <3>2. \E i \in DOMAIN inbox'[s] : inbox'[s][i] = f.event
      <4>1. inbox[s] \in Seq(Events) /\ f.event \in Events /\ inbox \in [Sessions -> Seq(Events)]
        BY <1>0 DEF TypeOK, Frames
      <4>2. inbox'[s] = IF \E i \in DOMAIN inbox[s] : inbox[s][i] = f.event
                        THEN inbox[s] ELSE Append(inbox[s], f.event)
        BY <1>1, <2>4, <4>1 DEF Receive
      <4>3. CASE \E i \in DOMAIN inbox[s] : inbox[s][i] = f.event
        BY <4>2, <4>3
      <4>4. CASE ~\E i \in DOMAIN inbox[s] : inbox[s][i] = f.event
        <5>1. inbox'[s] = Append(inbox[s], f.event)
          BY <4>2, <4>4
        <5>2. Len(inbox[s]) + 1 \in DOMAIN inbox'[s] /\ inbox'[s][Len(inbox[s]) + 1] = f.event
          BY <4>1, <5>1
        <5>. QED  BY <5>2
      <4>. QED  BY <4>3, <4>4
    <3>. QED  BY <1>3, <2>1, <2>2, <3>1, <3>2 DEF ViewStep
  <2>5. CASE pc'[s] # "mark_delivered"
    <3>1. Sees(s)' = c
      <4>1. CASE pc'[s] = "mark_failed"
        BY <1>1, <1>6, <1>7, <2>3, <4>1 DEF c
      <4>2. CASE pc'[s] = "deliver"
        BY <1>1, <1>2, <1>5, <1>7, <1>9, <2>3, <4>2 DEF c
      <4>. QED  BY <1>1, <2>5, <4>1, <4>2
    <3>. QED  BY <1>3, <2>1, <2>2, <3>1 DEF ViewStep
  <2>. QED  BY <2>4, <2>5
<1>. QED
  BY <1>8, <1>9

(* Only a delivery tells the receiver anything, and that what is on the    *)
(* wire of a session that is active.                                       *)
LEMMA TellsNothing ==
  ASSUME TypeOK, NEW s \in Sessions, NEW r \in Nat,
         Runner(s) \/ StoreFault(s) \/ ApplyReply(s, r), ~Delivered(s), ~AttemptFails(s)
  PROVE  inbox'[s] = inbox[s]
<1>. USE DEF stored, Local, Goto, Emit, Finish, Raise, SetStatus
<1>1. CASE StartTask(s) \/ Boot(s) \/ Authenticate(s) \/ BeginStep(s) \/ RunStep(s)
  BY <1>1 DEF StartTask, Boot, Authenticate, BeginStep, RunStep
<1>2. CASE StepRaises(s) \/ AskUser(s) \/ Woken(s) \/ PopReply(s) \/ Dispatch(s)
  BY <1>2 DEF StepRaises, AskUser, Woken, PopReply, Dispatch
<1>3. CASE EmitVerdict(s) \/ Settle(s) \/ ScheduleAnalysis(s) \/ Unexpected(s) \/ RowGone(s)
           \/ DoneCallback(s)
  BY <1>3 DEF EmitVerdict, Settle, ScheduleAnalysis, Unexpected, RowGone, DoneCallback
<1>4. CASE EmitAppend(s) \/ EmitDuplicate(s) \/ MarkDelivered(s) \/ MarkFailed(s)
           \/ DeliveryError(s) \/ Fallback(s)
  BY <1>4 DEF EmitAppend, EmitDuplicate, MarkDelivered, MarkFailed, DeliveryError, Fallback
<1>5. CASE StoreFault(s) \/ ApplyReply(s, r)
  BY <1>5 DEF StoreFault, ApplyReply
<1>. QED
  BY <1>1, <1>2, <1>3, <1>4, <1>5 DEF Runner, Emission

LEMMA StepTells ==
  ASSUME NEW s \in Sessions, NEW r \in Nat, ViewReady(s),
         Runner(s) \/ StoreFault(s) \/ ApplyReply(s, r)
  PROVE  inbox'[s] # inbox[s] => Arrives(s)
<1>. SUFFICES ASSUME inbox'[s] # inbox[s] PROVE Arrives(s)
  OBVIOUS
<1>0. TypeOK /\ (pc[s] \notin Ended \cup {"none"} => IsActive(s))
  BY ViewFacts
<1>1. Delivered(s) \/ AttemptFails(s)
  BY <1>0, TellsNothing
<1>2. pc[s] = "deliver" /\ inbox'[s] = Append(inbox[s], frame[s].event)
  BY <1>0, <1>1 DEF Delivered, AttemptFails, Receive, TypeOK
<1>3. IsActive(s) /\ OnWire(s) = Meaning(frame[s].event)
  BY <1>0, <1>2 DEF Ended, OnWire
<1>4. Sees(s) = Look(Place(s, Where(s)), OnWire(s), IF OnWire(s) = View!Silence THEN 0 ELSE frame[s].tries,
                     frame[s].step, frame[s].asked, Asks(s))
  BY <1>3, Looks
<1>5. Sees(s).out = OnWire(s)
  BY <1>4 DEF Look
<1>6. View!Active(Sees(s))
  BY <1>3, LooksActive
<1>. QED
  BY <1>2, <1>3, <1>5, <1>6 DEF Arrives

(* A verdict is stored, and what comes after it.                           *)
LEMMA EndsView ==
  ASSUME NEW s \in Sessions, ViewReady(s),
         \/ Settle(s) \/ DeliveryError(s) \/ ScheduleAnalysis(s) \/ Fallback(s)
         \/ DoneCallback(s) \/ RowGone(s)
  PROVE  ViewStep(s)
<1>. USE DEF Local, stored, At, Goto
<1>0. /\ TypeOK /\ status \in [Sessions -> Status] /\ frame[s].verdict \in Terminal
      /\ Calm(s) /\ inbox' = inbox
      /\ pc[s] \notin Ended \cup {"none"} => IsActive(s)
  BY ViewFacts DEF Frames, Settle, DeliveryError, ScheduleAnalysis, Fallback, DoneCallback, RowGone
<1>1. CASE Settle(s) \/ DeliveryError(s)
  <2>1. pc[s] \in {"settle", "delivery_error"} /\ status'[s] \in Terminal
    BY <1>0, <1>1 DEF Settle, DeliveryError, SetStatus, Terminal
  <2>2. IsActive(s) /\ OnWire(s) = View!Silence /\ Place(s, Where(s)) = "settle"
    BY <1>0, <2>1 DEF Ended, OnWire, Where, InEmission, Place
  <2>3. status'[s] # "absent" /\ ~IsActive(s)'
    BY <2>1 DEF IsActive, ActiveStatus, Terminal
  <2>4. Sees(s)' = View!Over
    BY <2>3, LooksNext
  <2>5. Sees(s) = Look("settle", View!Silence, 0, frame[s].step, frame[s].asked, Asks(s))
    BY <2>2, Looks
  <2>6. View!Moves(Sees(s), Sees(s)')
    BY <2>4, <2>5, ViewSpeaks
  <2>. QED  BY <1>0, <2>2, <2>6 DEF ViewStep
<1>2. CASE ScheduleAnalysis(s) \/ Fallback(s) \/ DoneCallback(s) \/ RowGone(s)
  <2>1. status' = status /\ status[s] \in Over
    BY <1>0, <1>2 DEF ScheduleAnalysis, Fallback, DoneCallback, RowGone, Calm, Ended, Over
  <2>2. /\ status[s] # "absent" /\ ~IsActive(s)
        /\ status'[s] # "absent" /\ ~IsActive(s)'
    BY <2>1 DEF IsActive, ActiveStatus, Terminal, Over
  <2>3. Sees(s)' = Sees(s)
    BY <2>2, Looks, LooksNext
  <2>. QED  BY <1>0, <2>3 DEF ViewStep
<1>. QED
  BY <1>1, <1>2

(* What is seen of a session depends on its own state only.                *)
LEMMA SameSight ==
  ASSUME NEW t \in Sessions, status'[t] = status[t], IsActive(t)' <=> IsActive(t),
         pc'[t] = pc[t], frame'[t] = frame[t], question'[t] = question[t]
  PROVE  Sees(t)' = Sees(t)
<1>1. Where(t)' = Where(t) /\ OnWire(t)' = OnWire(t) /\ Asks(t)' = Asks(t)
  BY DEF Where, OnWire, Asks
<1>2. Place(t, Where(t))' = Place(t, Where(t))
  BY <1>1 DEF Place, Failing
<1>. QED
  BY <1>1, <1>2, Looks, LooksNext

LEMMA OthersView ==
  ASSUME TypeOK, NEW s \in Sessions, NEW r \in Nat,
         Runner(s) \/ StoreFault(s) \/ ApplyReply(s, r),
         NEW t \in Sessions \ {s}
  PROVE  Sees(t)' = Sees(t) /\ inbox'[t] = inbox[t]
<1>1. Stays(t)
  BY OthersStay
<1>2. question'[t] = question[t]
  BY OthersStill DEF Still, SameTalk
<1>3. IsActive(t)' <=> IsActive(t)
  BY OthersPhase
<1>. QED
  BY <1>1, <1>2, <1>3, SameSight DEF Stays

(* A step of the buyer that shows one session, none, or ends them all.     *)
ViewStart == \A s \in Sessions : Sees(s) = View!Absent
ViewNext ==
  /\ \A s \in Sessions : inbox'[s] # inbox[s] => Arrives(s)
  /\ \/ \E s \in Sessions : ViewMoves(s)
     \/ restarts' # restarts /\ \A s \in Sessions : Sees(s)' = View!Cut(Sees(s))
     \/ \A s \in Sessions : Sees(s)' = Sees(s)

LEMMA OneShows ==
  ASSUME TypeOK, NEW s \in Sessions, NEW r \in Nat,
         Runner(s) \/ StoreFault(s) \/ ApplyReply(s, r), ViewReady(s), ViewStep(s)
  PROVE  ViewNext
<1>1. \A t \in Sessions \ {s} : Sees(t)' = Sees(t) /\ inbox'[t] = inbox[t]
  BY OthersView
<1>2. \A t \in Sessions : inbox'[t] # inbox[t] => Arrives(t)
  BY <1>1, StepTells
<1>3. CASE Sees(s)' = Sees(s)
  BY <1>1, <1>2, <1>3 DEF ViewNext
<1>4. CASE Sees(s)' # Sees(s)
  <2>1. ViewMoves(s)
    BY <1>1, <1>4 DEF ViewStep, ViewMoves
  <2>. QED  BY <1>2, <2>1 DEF ViewNext
<1>. QED
  BY <1>3, <1>4

(* Expiry is not seen: the session was over.                               *)
LEMMA ForgetSight ==
  ASSUME SlotInv, NEW E \in SUBSET Expirable, NEW U, Forget(E, U), NEW t \in Sessions, t \notin U,
         status'[t] = IF t \in E THEN "gone" ELSE status[t], pc'[t] = pc[t], frame'[t] = frame[t]
  PROVE  Sees(t)' = Sees(t)
<1>1. /\ t \in runtime' => t \in runtime /\ task[t] # "done"
      /\ task'[t] # "done"
      /\ IsActive(t) => t \in runtime' /\ t \notin E
  BY ForgetSlot
<1>2. CASE t \in E
  <2>1. /\ status[t] # "absent" /\ ~IsActive(t)
        /\ status'[t] # "absent" /\ ~IsActive(t)'
    BY <1>2 DEF IsActive, ActiveStatus, Expirable, Terminal
  <2>. QED  BY <2>1, Looks, LooksNext
<1>3. CASE t \notin E
  <2>1. status'[t] = status[t] /\ question'[t] = question[t]
    BY <1>3 DEF Forget
  <2>2. IsActive(t)' <=> IsActive(t)
    BY <1>1, <2>1 DEF IsActive
  <2>. QED  BY <2>1, <2>2, SameSight
<1>. QED
  BY <1>2, <1>3

LEMMA CreateShows ==
  ASSUME SlotInv, PlacesInv, ViewInv, NEW s \in Sessions, NEW E \in SUBSET Expirable,
         CreateSession(s, E)
  PROVE  ViewNext
<1>1. /\ Forget(E, {s}) /\ status[s] = "absent" /\ s \notin E /\ frame' = frame /\ inbox' = inbox
      /\ status' = [t \in Sessions |-> IF t = s THEN "created"
                                       ELSE IF t \in E THEN "gone" ELSE status[t]]
      /\ pc' = [pc EXCEPT ![s] = "creating"]
      /\ pc \in [Sessions -> Labels]
  BY DEF CreateSession, Expirable, Terminal, Goto, SlotInv, TypeOK
<1>2. IsActive(s)'
  <2>1. s \in runtime' /\ task'[s] # "done"
    BY <1>1 DEF Forget, Finished, SlotInv, TypeOK
  <2>. QED  BY <1>1, <2>1 DEF IsActive, ActiveStatus
<1>3. ASSUME NEW t \in Sessions \ {s} PROVE Sees(t)' = Sees(t)
  BY <1>1, <1>3, ForgetSight
<1>4. View!Moves(Sees(s), Sees(s)')
  <2>1. Sees(s) = View!Absent
    BY <1>1, Looks
  <2>2. frame[s] = NoFrame
    BY <1>1 DEF ViewInv, Numbered
  <2>3. pc'[s] = "creating" /\ status'[s] = "created"
    BY <1>1
  <2>4. Where(s)' = "creating" /\ OnWire(s)' = View!Silence /\ Asks(s)' = 0
    BY <2>3 DEF Where, InEmission, OnWire, Asks
  <2>5. Place(s, Where(s))' = "step" /\ frame'[s].step = 0 /\ frame'[s].asked = 0
    BY <1>1, <2>2, <2>4 DEF Place, NoFrame
  <2>6. Sees(s)' = Look("step", View!Silence, 0, 0, 0, 0)
    BY <1>2, <2>4, <2>5, LooksNext
  <2>. QED  BY <2>1, <2>6, ViewHears DEF View!Places
<1>5. OnWire(s) = View!Silence
  BY <1>1 DEF PlacesInv, PlaceInv, OnWire
<1>6. ViewMoves(s)
  BY <1>3, <1>4, <1>5 DEF ViewMoves
<1>. QED
  BY <1>1, <1>6 DEF ViewNext

LEMMA ListShows ==
  ASSUME SlotInv, NEW E \in SUBSET Expirable, ListSessions(E)
  PROVE  ViewNext
<1>1. ASSUME NEW t \in Sessions PROVE Sees(t)' = Sees(t)
  BY ForgetSight DEF ListSessions
<1>. QED
  BY <1>1 DEF ViewNext, ListSessions

LEMMA RestartShows ==
  ASSUME TypeOK, Restart
  PROVE  ViewNext
<1>1. restarts' # restarts /\ inbox' = inbox
  BY DEF Restart, TypeOK
<1>2. ASSUME NEW t \in Sessions PROVE Sees(t)' = View!Cut(Sees(t))
  <2>1. ~IsActive(t)' /\ status'[t] = status[t]
    BY DEF Restart, stored, IsActive
  <2>2. ~View!Active(View!Absent) /\ ~View!Active(View!Over)
    <3>1. View!Absent.at = "absent"
      BY DEF View!Absent
    <3>2. View!Over.at = "over"
      <4>. DEFINE b == View!Absent
      <4>1. b = [at |-> "absent", out |-> View!Silence, tries |-> 0, step |-> 0, asked |-> 0,
                 question |-> 0]
        BY DEF View!Absent
      <4>. HIDE DEF b
      <4>2. [b EXCEPT !.at = "over"].at = "over"
        BY <4>1
      <4>. QED  BY <4>2 DEF View!Over, b
    <3>. QED  BY <3>1, <3>2 DEF View!Active
  <2>3. CASE IsActive(t)
    <3>1. status[t] # "absent"
      BY <2>3 DEF IsActive, ActiveStatus
    <3>. QED  BY <2>1, <2>3, <3>1, LooksActive, LooksNext DEF View!Cut
  <2>4. CASE ~IsActive(t)
    BY <2>1, <2>2, <2>4, Looks, LooksNext DEF View!Cut
  <2>. QED  BY <2>3, <2>4
<1>. QED
  BY <1>1, <1>2 DEF ViewNext

LEMMA ViewShows ==
  ASSUME CalmInv, ViewInv, ToldInv, PlacesInv, SlotInv, CalmInv', PlacesInv', SlotInv',
         faults = 0, faults' = 0, [Next]_vars
  PROVE  ViewNext
<1>0. /\ TypeOK /\ 0 \in Nat /\ 1 \in Nat \ {0} /\ 1..MaxSteps \subseteq Nat \ {0}
      /\ \A s \in Sessions : Calm(s) /\ Calm(s)'
  BY ConstantsAssumption DEF SlotInv, ConstantsAssumption, CalmInv
<1>1. \A s \in Sessions : ViewReady(s)
  BY <1>0 DEF ViewReady
<1>2. ASSUME NEW s \in Sessions, Runner(s) PROVE ViewNext
  <2>1. ~EmitDuplicate(s)
    BY <1>0, NeverDuplicate
  <2>2. ViewStep(s)
    BY <1>0, <1>1, <1>2, <2>1, MovesStutter, SpeaksView, DispatchView, RepliesView, DeliversView,
       EndsView DEF Runner, Emission
  <2>. QED  BY <1>0, <1>1, <1>2, <2>2, OneShows
<1>3. ASSUME NEW s \in Sessions, NEW r \in 1..MaxSteps, ApplyReply(s, r) PROVE ViewNext
  <2>1. r \in Nat /\ r \in Nat \ {0}
    BY <1>0
  <2>2. ViewStep(s)
    BY <1>1, <1>3, <2>1, RepliesView
  <2>. QED  BY <1>0, <1>1, <1>3, <2>1, <2>2, OneShows
<1>4. ASSUME NEW s \in Sessions, StoreFault(s) PROVE ViewNext
  BY <1>4 DEF StoreFault
<1>5. CASE UNCHANGED vars
  <2>1. inbox' = inbox /\ \A s \in Sessions : Sees(s)' = Sees(s)
    BY <1>5, SameSight DEF vars, stored, IsActive
  <2>. QED  BY <2>1 DEF ViewNext
<1>. QED
  BY <1>0, <1>2, <1>3, <1>4, <1>5, CreateShows, ListShows, RestartShows DEF Next, Client

LEMMA ViewInit == Init => ViewStart
  BY Looks DEF Init, ViewStart

(* While no repository call raises, all that the receiver of the callbacks *)
(* sees of the buyer are steps of BuyerView, one session at a time:        *)
(* numbered steps and questions, a payment before its verdict, one verdict *)
(* and then silence, a call given up after MaxAttempts, whatever is lost,  *)
(* expires or restarts.  EvalRun is built of these steps.                  *)
THEOREM ViewIsKept == MaxFaults = 0 => (Spec => KeepsView)
<1>. SUFFICES ASSUME MaxFaults = 0 PROVE Spec => KeepsView
  OBVIOUS
<1>1. CalmInv /\ ViewInv /\ ToldInv /\ PlacesInv /\ SlotInv /\ CalmInv' /\ PlacesInv' /\ SlotInv'
        /\ faults = 0 /\ (faults = 0)' /\ [Next]_vars => [ViewNext]_vars
  BY ViewShows
<1>2. Spec => [](faults = 0)
  BY FaultsBounded
<1>3. Spec => ViewStart /\ [][ViewNext]_vars
  BY <1>1, <1>2, ViewInit, SpecViewInv, SpecCalmInv, SpecToldInv, SpecPlacesInv, SpecSlotInv, PTL
  DEF Spec
<1>. QED
  BY <1>3 DEF KeepsView, ViewStart, ViewNext
=============================================================================
