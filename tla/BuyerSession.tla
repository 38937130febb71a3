---------------------------- MODULE BuyerSession ----------------------------
(***************************************************************************)
(* One buyer process: the SessionStore (buyer/app/state.py), the runner    *)
(* coroutine BuyerService._run_session (buyer/app/service.py) of every     *)
(* session, the callback client that delivers its events                   *)
(* (buyer/app/callback.py), the operator who answers questions, and the    *)
(* receiver of the callbacks.                                              *)
(*                                                                         *)
(* A step of this model is what the event loop executes between two        *)
(* awaits.  Each SessionStore method holds the store's lock from its read  *)
(* to its write, so it is one step.  status, question, pending and log are *)
(* rows of the repository and survive a restart of the process; wake,      *)
(* runtime, task, pc and frame live in the process and do not.             *)
(***************************************************************************)
EXTENDS Integers, Sequences, FiniteSets

CONSTANTS
  Sessions,     \* session ids the process may create
  MaxActive,    \* max_active_sessions of the SessionStore
  MaxAttempts,  \* callback_retries of the callback client
  MaxSteps,     \* bound: agent steps of one session
  MaxFaults,    \* bound: repository calls that raise
  MaxRestarts   \* bound: restarts of the process

ASSUME ConstantsAssumption ==
  /\ IsFiniteSet(Sessions)
  /\ MaxActive \in Nat /\ MaxAttempts \in Nat \ {0}
  /\ MaxSteps \in Nat /\ MaxFaults \in Nat /\ MaxRestarts \in Nat

VARIABLES
  status,    \* SessionState.status; "absent" before creation, "gone" once expired
  question,  \* waiting_reply_id, 0 when None: the n-th question of the session
  pending,   \* pending_reply_text as the question it answers, 0 when None
  log,       \* SessionState.events, the outbox of the session
  wake,      \* the asyncio.Event the runner waits on
  runtime,   \* _runtime_sessions
  task,      \* _task_refs: "none" without an entry, else "live" or "done"
  pc, frame, \* the coroutine of the session and its local variables
  analysis,  \* sessions whose post-session analysis was scheduled
  inbox,     \* what the receiver holds of each session, without duplicates
  accepted,  \* replies the API has accepted
  given,     \* replies handed to the agent, in order
  faults, restarts

stored == <<status, question, pending, log>>
vars == <<stored, wake, runtime, task, pc, frame, analysis, inbox, accepted,
          given, faults, restarts>>

ActiveStatus == {"created", "running", "waiting_user"}
Terminal == {"completed", "failed", "unverified"}
Status == {"absent", "gone"} \cup ActiveStatus \cup Terminal

(* What a step comes to: the agent asks, or claims completion and           *)
(* verify_completed_payment accepts it or finds it unverified, or the step  *)
(* fails on a transient CDP error or for good (a rejected claim included).  *)
Results == {"needs_user_input", "accepted", "unverified", "transient", "failed"}

(* An event is named by the suffix of its idempotency key and a step or    *)
(* question number.                                                        *)
Ev(type, n) == [type |-> type, n |-> n]
VerdictType == [completed |-> "scenario-finished",
                unverified |-> "scenario-unverified",
                failed |-> "scenario-failed"]
EventTypes == {"start", "step-started", "step-finished", "ask-user",
               "payment-ready", "payment-unverified",
               "scenario-failed-callback-delivery", "scenario-failed-unhandled"}
              \cup {VerdictType[v] : v \in Terminal}
Events == [type : EventTypes, n : Nat]

Labels == {"none", "creating", "boot", "append", "deliver", "mark_delivered",
           "mark_failed", "auth", "loop", "run", "result", "ask", "await",
           "pop", "verdict", "settle", "schedule", "unexpected",
           "delivery_error", "fallback", "finished"}
(* The calls that raise SessionNotFoundError when the row has expired.     *)
ReadsRow == {"boot", "append", "loop", "ask", "pop", "settle", "schedule",
             "unexpected", "delivery_error", "fallback"}
StoreCalls == ReadsRow \cup {"mark_delivered", "mark_failed", "result"}

NoFrame == [step |-> 0, asked |-> 0, latest |-> 0, result |-> "failed",
            verdict |-> "failed", recovering |-> FALSE, handling |-> FALSE,
            event |-> Ev("start", 0), tries |-> 0, then |-> "none"]

Init ==
  /\ status = [s \in Sessions |-> "absent"]
  /\ question = [s \in Sessions |-> 0] /\ pending = [s \in Sessions |-> 0]
  /\ log = [s \in Sessions |-> <<>>]
  /\ wake = [s \in Sessions |-> FALSE]
  /\ runtime = {} /\ task = [s \in Sessions |-> "none"]
  /\ pc = [s \in Sessions |-> "none"] /\ frame = [s \in Sessions |-> NoFrame]
  /\ analysis = {}
  /\ inbox = [s \in Sessions |-> <<>>]
  /\ accepted = [s \in Sessions |-> {}] /\ given = [s \in Sessions |-> <<>>]
  /\ faults = 0 /\ restarts = 0

-----------------------------------------------------------------------------
(* The store *)

(* Mutant: a session that waits for the operator does not count. *)
IsActiveUnlessWaiting(s) ==
  status[s] \in {"created", "running"} /\ s \in runtime /\ task[s] # "done"

IsActive(s) == status[s] \in ActiveStatus /\ s \in runtime /\ task[s] # "done"

Expirable == {s \in Sessions : status[s] \in Terminal}
Finished == {s \in Sessions : task[s] = "done"}

(* _prune_and_list_locked deletes the rows and the runtime entries of the  *)
(* expired sessions E, then _drop_finished_runtime_tasks_locked forgets    *)
(* the tasks that are done; "used" joins the runtime set.                  *)
Forget(E, used) ==
  /\ log' = [s \in Sessions |-> IF s \in E THEN <<>> ELSE log[s]]
  /\ question' = [s \in Sessions |-> IF s \in E THEN 0 ELSE question[s]]
  /\ pending' = [s \in Sessions |-> IF s \in E THEN 0 ELSE pending[s]]
  /\ wake' = [s \in Sessions |-> s \notin E /\ wake[s]]
  /\ task' = [s \in Sessions |-> IF s \in E \cup Finished THEN "none" ELSE task[s]]
  /\ runtime' = (runtime \ (E \cup Finished)) \cup used

(* POST /v1/tasks up to the row: refused when MaxActive sessions are       *)
(* active, but the pruning has happened all the same (see ListSessions).   *)
CreateSession(s, E) ==
  /\ status[s] = "absent" /\ E \subseteq Expirable
  /\ Cardinality({t \in Sessions : IsActive(t)}) < MaxActive
  /\ status' = [t \in Sessions |-> IF t = s THEN "created"
                                   ELSE IF t \in E THEN "gone" ELSE status[t]]
  /\ Forget(E, {s})
  /\ pc' = [pc EXCEPT ![s] = "creating"]
  /\ UNCHANGED <<frame, analysis, inbox, accepted, given, faults, restarts>>

(* GET /v1/sessions, and the refused POST /v1/tasks. *)
ListSessions(E) ==
  /\ E \subseteq Expirable
  /\ E \cup Finished # {}
  /\ status' = [t \in Sessions |-> IF t \in E THEN "gone" ELSE status[t]]
  /\ Forget(E, {})
  /\ UNCHANGED <<pc, frame, analysis, inbox, accepted, given, faults, restarts>>

(* The rest of create_session: RUNNING, and the task with its reference.   *)
StartTask(s) ==
  /\ pc[s] = "creating"
  /\ status' = [status EXCEPT ![s] = "running"]
  /\ task' = [task EXCEPT ![s] = "live"]
  /\ runtime' = runtime \cup {s}
  /\ pc' = [pc EXCEPT ![s] = "boot"]
  /\ UNCHANGED <<question, pending, log, wake, frame, analysis, inbox, accepted,
                 given, faults, restarts>>

(* Mutants: any reply id will do; the runtime is not looked at. *)
MayReplyAnyId(s, r) == status[s] = "waiting_user" /\ IsActive(s)
MayReplyWithoutRunner(s, r) == status[s] = "waiting_user" /\ question[s] = r

MayReply(s, r) == status[s] = "waiting_user" /\ question[s] = r /\ IsActive(s)

(* Mutant: apply_reply without wake_event.set(). *)
ApplyReplyNoWake(s, r) ==
  /\ MayReply(s, r)
  /\ pending' = [pending EXCEPT ![s] = r]
  /\ question' = [question EXCEPT ![s] = 0]
  /\ status' = [status EXCEPT ![s] = "running"]
  /\ accepted' = [accepted EXCEPT ![s] = @ \cup {r}]
  /\ UNCHANGED <<log, wake, runtime, task, pc, frame, analysis, inbox, given,
                 faults, restarts>>

(* POST /v1/replies: apply_reply on the row, for any reply id r of the     *)
(* session, old ones included; a refused reply changes nothing.            *)
ApplyReply(s, r) ==
  /\ MayReply(s, r)
  /\ pending' = [pending EXCEPT ![s] = r]
  /\ question' = [question EXCEPT ![s] = 0]
  /\ status' = [status EXCEPT ![s] = "running"]
  /\ wake' = [wake EXCEPT ![s] = TRUE]
  /\ accepted' = [accepted EXCEPT ![s] = @ \cup {r}]
  /\ UNCHANGED <<log, runtime, task, pc, frame, analysis, inbox, given, faults,
                 restarts>>

SetStatus(s, v) ==
  /\ status' = [status EXCEPT ![s] = v]
  /\ runtime' = IF v \in Terminal THEN runtime \ {s} ELSE runtime

-----------------------------------------------------------------------------
(* The runner coroutine *)

At(s, label) == pc[s] = label /\ (label \in ReadsRow => status[s] # "gone")
Goto(s, label) == pc' = [pc EXCEPT ![s] = label]

(* Enter _emit_event for event e, to continue at label. *)
Emitting(f, e, label) == [f EXCEPT !.event = e, !.tries = 0, !.then = label]
Emit(s, f, e, label) ==
  /\ frame' = [frame EXCEPT ![s] = Emitting(f, e, label)]
  /\ Goto(s, "append")

(* The coroutine returns or dies: the task is done. *)
Finish(s) ==
  /\ Goto(s, "finished")
  /\ task' = [task EXCEPT ![s] = IF @ = "live" THEN "done" ELSE @]
  /\ frame' = [frame EXCEPT ![s] = NoFrame]

(* An exception that is not a delivery error: the last handler reports a   *)
(* failed scenario; raised inside a handler it ends the task.              *)
Raise(s) ==
  IF frame[s].handling
  THEN Finish(s)
  ELSE /\ Goto(s, "unexpected")
       /\ frame' = [frame EXCEPT ![s].handling = TRUE]
       /\ UNCHANGED task

(* The done callback of the task, a later turn of the event loop. *)
DoneCallback(s) ==
  /\ pc[s] = "finished"
  /\ runtime' = runtime \ {s}
  /\ Goto(s, "none")
  /\ UNCHANGED <<stored, wake, task, frame, analysis, inbox, accepted, given,
                 faults, restarts>>

Local == <<stored, wake, runtime, task, analysis, inbox, accepted, given,
           faults, restarts>>

Boot(s) ==
  /\ At(s, "boot")
  /\ Emit(s, frame[s], Ev("start", 0), "auth")
  /\ UNCHANGED Local

(* _run_sberid_auth_flow returns a summary, whatever the way in. *)
Authenticate(s) == pc[s] = "auth" /\ Goto(s, "loop") /\ UNCHANGED <<Local, frame>>

BeginStep(s) ==
  /\ At(s, "loop") /\ frame[s].step < MaxSteps
  /\ LET n == frame[s].step + 1
     IN Emit(s, [frame[s] EXCEPT !.step = n], Ev("step-started", n), "run")
  /\ UNCHANGED Local

(* runner.run_step with the latest reply; a session may ask again only     *)
(* while the bound leaves it another step.                                 *)
RunStep(s) ==
  /\ pc[s] = "run"
  /\ given' = [given EXCEPT ![s] = IF frame[s].latest = 0 THEN @
                                   ELSE Append(@, frame[s].latest)]
  /\ \E r \in Results :
       /\ r \in {"needs_user_input", "transient"} => frame[s].step < MaxSteps
       /\ Emit(s, [frame[s] EXCEPT !.result = r], Ev("step-finished", frame[s].step),
               "result")
  /\ UNCHANGED <<stored, wake, runtime, task, analysis, inbox, accepted, faults,
                 restarts>>

(* run_step or the profile file raises. *)
StepRaises(s) ==
  /\ pc[s] \in {"run", "auth"}
  /\ Raise(s)
  /\ UNCHANGED <<stored, wake, runtime, analysis, inbox, accepted, given, faults,
                 restarts>>

(* The first transient failure opens the recovery window, so it is always  *)
(* retried; a later one may find the window elapsed.                       *)
Dispatch(s) ==
  /\ pc[s] = "result"
  /\ LET r == frame[s].result
         f == [frame[s] EXCEPT !.latest = 0, !.result = NoFrame.result]
         calm == [f EXCEPT !.recovering = FALSE]
     IN \/ /\ r = "needs_user_input"
           /\ frame' = [frame EXCEPT ![s] = calm] /\ Goto(s, "ask")
        \/ /\ r = "accepted"
           /\ Emit(s, [calm EXCEPT !.verdict = "completed"],
                   Ev("payment-ready", 0), "verdict")
        \/ /\ r = "unverified"
           /\ Emit(s, [calm EXCEPT !.verdict = "unverified"],
                   Ev("payment-unverified", 0), "verdict")
        \/ /\ r = "transient"
           /\ frame' = [frame EXCEPT ![s] = [f EXCEPT !.recovering = TRUE]]
           /\ Goto(s, "loop")
        \/ /\ \/ r = "failed"
              \/ r = "transient" /\ f.recovering
           /\ frame' = [frame EXCEPT ![s] = [f EXCEPT !.verdict = "failed"]]
           /\ Goto(s, "verdict")
  /\ UNCHANGED Local

(* Mutant: set_waiting_question without wake_event.clear(). *)
AskUserKeepsWake(s) ==
  /\ At(s, "ask")
  /\ LET n == frame[s].asked + 1
     IN /\ question' = [question EXCEPT ![s] = n]
        /\ Emit(s, [frame[s] EXCEPT !.asked = n], Ev("ask-user", n), "await")
  /\ pending' = [pending EXCEPT ![s] = 0]
  /\ status' = [status EXCEPT ![s] = "waiting_user"]
  /\ UNCHANGED <<log, wake, runtime, task, analysis, inbox, accepted, given, faults,
                 restarts>>

(* _ask_user_for_reply: set_waiting_question, then the ask_user event. *)
AskUser(s) ==
  /\ At(s, "ask")
  /\ LET n == frame[s].asked + 1
     IN /\ question' = [question EXCEPT ![s] = n]
        /\ Emit(s, [frame[s] EXCEPT !.asked = n], Ev("ask-user", n), "await")
  /\ pending' = [pending EXCEPT ![s] = 0]
  /\ wake' = [wake EXCEPT ![s] = FALSE]
  /\ status' = [status EXCEPT ![s] = "waiting_user"]
  /\ UNCHANGED <<log, runtime, task, analysis, inbox, accepted, given, faults,
                 restarts>>

Woken(s) == pc[s] = "await" /\ wake[s] /\ Goto(s, "pop") /\ UNCHANGED <<Local, frame>>

(* pop_reply raises ReplyValidationError when there is none, and the       *)
(* runner then returns without a word.                                     *)
PopReply(s) ==
  /\ At(s, "pop")
  /\ IF pending[s] = 0
     THEN Finish(s) /\ UNCHANGED pending
     ELSE /\ frame' = [frame EXCEPT ![s].latest = pending[s]]
          /\ pending' = [pending EXCEPT ![s] = 0]
          /\ Goto(s, "loop") /\ UNCHANGED task
  /\ UNCHANGED <<status, question, log, wake, runtime, analysis, inbox, accepted,
                 given, faults, restarts>>

(* Mutant: the status is stored before scenario_finished is delivered. *)
EmitVerdictSettled(s) ==
  /\ pc[s] = "verdict"
  /\ SetStatus(s, frame[s].verdict)
  /\ Emit(s, frame[s], Ev(VerdictType[frame[s].verdict], 0), "settle")
  /\ UNCHANGED <<question, pending, log, wake, task, analysis, inbox, accepted,
                 given, faults, restarts>>

(* The scenario_finished event of _handle_completed, _handle_unverified    *)
(* and _handle_failed.                                                     *)
EmitVerdict(s) ==
  /\ pc[s] = "verdict"
  /\ Emit(s, frame[s], Ev(VerdictType[frame[s].verdict], 0), "settle")
  /\ UNCHANGED Local

(* record_artifacts and set_status; an unverified session is not analysed. *)
Settle(s) ==
  /\ At(s, "settle")
  /\ SetStatus(s, frame[s].verdict)
  /\ IF frame[s].verdict = "unverified"
     THEN Finish(s)
     ELSE Goto(s, "schedule") /\ UNCHANGED <<task, frame>>
  /\ UNCHANGED <<question, pending, log, wake, analysis, inbox, accepted, given,
                 faults, restarts>>

ScheduleAnalysis(s) ==
  /\ At(s, "schedule")
  /\ analysis' = analysis \cup {s}
  /\ Finish(s)
  /\ UNCHANGED <<stored, wake, runtime, inbox, accepted, given, faults, restarts>>

-----------------------------------------------------------------------------
(* _emit_event: append to the outbox, deliver with retries, mark *)

(* Mutant: the event is sent without being written to the outbox. *)
EmitUnlogged(s) == At(s, "append") /\ Goto(s, "deliver") /\ UNCHANGED <<Local, frame>>

EmitAppend(s) ==
  /\ At(s, "append") /\ frame[s].event \notin {log[s][i] : i \in DOMAIN log[s]}
  /\ log' = [log EXCEPT ![s] = Append(@, frame[s].event)]
  /\ Goto(s, "deliver")
  /\ UNCHANGED <<status, question, pending, wake, runtime, task, frame, analysis,
                 inbox, accepted, given, faults, restarts>>

(* buyer_events.idempotency_key is UNIQUE: the same event again raises. *)
EmitDuplicate(s) ==
  /\ At(s, "append") /\ frame[s].event \in {log[s][i] : i \in DOMAIN log[s]}
  /\ Raise(s)
  /\ UNCHANGED <<stored, wake, runtime, analysis, inbox, accepted, given, faults,
                 restarts>>

(* The receiver takes an event once, by its idempotency key. *)
Receive(s) ==
  inbox' = [inbox EXCEPT ![s] = IF \E i \in DOMAIN @ : @[i] = frame[s].event
                                THEN @ ELSE Append(@, frame[s].event)]

(* A POST answered with 2xx. *)
Delivered(s) ==
  /\ pc[s] = "deliver"
  /\ Receive(s)
  /\ Goto(s, "mark_delivered") /\ frame' = [frame EXCEPT ![s].tries = 0]
  /\ UNCHANGED <<stored, wake, runtime, task, analysis, accepted, given, faults,
                 restarts>>

(* Mutant: one attempt too many. *)
AttemptFailsOnceMore(s) ==
  /\ pc[s] = "deliver"
  /\ Receive(s) \/ UNCHANGED inbox
  /\ IF frame[s].tries = MaxAttempts
     THEN Goto(s, "mark_failed") /\ UNCHANGED frame
     ELSE frame' = [frame EXCEPT ![s].tries = @ + 1] /\ UNCHANGED pc
  /\ UNCHANGED <<stored, wake, runtime, task, analysis, accepted, given, faults,
                 restarts>>

(* A POST that raises: the request was lost, or only its answer was. *)
AttemptFails(s) ==
  /\ pc[s] = "deliver"
  /\ Receive(s) \/ UNCHANGED inbox
  /\ IF frame[s].tries + 1 = MaxAttempts
     THEN Goto(s, "mark_failed") /\ UNCHANGED frame
     ELSE frame' = [frame EXCEPT ![s].tries = @ + 1] /\ UNCHANGED pc
  /\ UNCHANGED <<stored, wake, runtime, task, analysis, accepted, given, faults,
                 restarts>>

MarkDelivered(s) ==
  pc[s] = "mark_delivered" /\ Goto(s, frame[s].then) /\ UNCHANGED <<Local, frame>>

(* Mutant: a delivery that failed for good is only logged. *)
MarkFailedGoesOn(s) ==
  pc[s] = "mark_failed" /\ Goto(s, frame[s].then) /\ UNCHANGED <<Local, frame>>

(* CallbackDeliveryError leaves _emit_event. *)
MarkFailed(s) ==
  pc[s] = "mark_failed" /\ Goto(s, "delivery_error") /\ UNCHANGED <<Local, frame>>

(* Mutants: the failed delivery is reported by _handle_failed, or analysed. *)
DeliveryErrorReported(s) ==
  /\ At(s, "delivery_error")
  /\ frame' = [frame EXCEPT ![s].handling = TRUE, ![s].verdict = "failed"]
  /\ Goto(s, "verdict")
  /\ UNCHANGED Local
DeliveryErrorAnalysed(s) ==
  /\ At(s, "delivery_error")
  /\ SetStatus(s, "failed")
  /\ Goto(s, "schedule")
  /\ UNCHANGED <<question, pending, log, wake, task, frame, analysis, inbox,
                 accepted, given, faults, restarts>>

(* except CallbackDeliveryError, in _run_session and in its last handler:  *)
(* FAILED, and an event that is written to the outbox but not delivered.   *)
DeliveryError(s) ==
  /\ At(s, "delivery_error")
  /\ SetStatus(s, "failed")
  /\ Goto(s, "fallback")
  /\ UNCHANGED <<question, pending, log, wake, task, frame, analysis, inbox,
                 accepted, given, faults, restarts>>

Fallback(s) ==
  /\ At(s, "fallback")
  /\ log' = [log EXCEPT ![s] = Append(@, Ev(IF frame[s].handling
                                            THEN "scenario-failed-unhandled"
                                            ELSE "scenario-failed-callback-delivery", 0))]
  /\ Finish(s)
  /\ UNCHANGED <<status, question, pending, wake, runtime, analysis, inbox,
                 accepted, given, faults, restarts>>

(* except Exception: report a failed scenario. *)
Unexpected(s) ==
  /\ At(s, "unexpected")
  /\ frame' = [frame EXCEPT ![s].verdict = "failed"]
  /\ Goto(s, "verdict")
  /\ UNCHANGED Local

-----------------------------------------------------------------------------
(* What the environment does to the process *)

(* The row expired under the coroutine: SessionNotFoundError. *)
RowGone(s) ==
  /\ pc[s] \in ReadsRow /\ status[s] = "gone"
  /\ Finish(s)
  /\ UNCHANGED <<stored, wake, runtime, analysis, inbox, accepted, given, faults,
                 restarts>>

(* A repository call raises.  In create_session the client gets an error   *)
(* and no task is started; in an except clause the task dies.              *)
StoreFault(s) ==
  /\ faults < MaxFaults /\ faults' = faults + 1
  /\ \/ /\ pc[s] = "creating"
        /\ Goto(s, "none") /\ UNCHANGED <<task, frame>>
     \/ /\ pc[s] \in {"delivery_error", "fallback", "unexpected"}
        /\ Finish(s)
     \/ /\ pc[s] \in StoreCalls \ {"delivery_error", "fallback", "unexpected"}
        /\ Raise(s)
  /\ UNCHANGED <<stored, wake, runtime, analysis, inbox, accepted, given, restarts>>

(* The process stops and starts again: startup only opens the repository.  *)
Restart ==
  /\ restarts < MaxRestarts /\ restarts' = restarts + 1
  /\ wake' = [s \in Sessions |-> FALSE]
  /\ runtime' = {} /\ task' = [s \in Sessions |-> "none"]
  /\ pc' = [s \in Sessions |-> "none"] /\ frame' = [s \in Sessions |-> NoFrame]
  /\ UNCHANGED <<stored, analysis, inbox, accepted, given, faults>>

Emission(s) ==
  \/ EmitAppend(s) \/ EmitDuplicate(s) \/ Delivered(s) \/ AttemptFails(s)
  \/ MarkDelivered(s) \/ MarkFailed(s) \/ DeliveryError(s) \/ Fallback(s)

Runner(s) ==
  \/ StartTask(s) \/ Boot(s) \/ Authenticate(s) \/ BeginStep(s) \/ RunStep(s)
  \/ StepRaises(s) \/ Dispatch(s) \/ AskUser(s) \/ Woken(s) \/ PopReply(s)
  \/ EmitVerdict(s) \/ Settle(s) \/ ScheduleAnalysis(s) \/ Unexpected(s)
  \/ RowGone(s) \/ DoneCallback(s) \/ Emission(s)

Client(s) ==
  \/ \E E \in SUBSET Expirable : CreateSession(s, E)
  \/ \E r \in 1..MaxSteps : ApplyReply(s, r)

Next ==
  \/ \E s \in Sessions : Runner(s) \/ Client(s) \/ StoreFault(s)
  \/ \E E \in SUBSET Expirable : ListSessions(E)
  \/ Restart

Spec == Init /\ [][Next]_vars

(* The event loop runs every coroutine that can go on; nobody has to       *)
(* create a session or to answer a question.                               *)
FairSpec == Spec /\ \A s \in Sessions : WF_vars(Runner(s))

-----------------------------------------------------------------------------
(* Properties *)

(* Every variable has its type: what the rows, the runtime maps and the    *)
(* frames of the coroutines of state.py and service.py hold.               *)
Frames == [step : Nat, asked : Nat, latest : Nat, result : Results,
           verdict : Terminal, recovering : BOOLEAN, handling : BOOLEAN,
           event : Events, tries : 0..(MaxAttempts - 1), then : Labels]
TypeOK ==
  /\ status \in [Sessions -> Status]
  /\ question \in [Sessions -> Nat] /\ pending \in [Sessions -> Nat]
  /\ log \in [Sessions -> Seq(Events)] /\ inbox \in [Sessions -> Seq(Events)]
  /\ wake \in [Sessions -> BOOLEAN]
  /\ runtime \in SUBSET Sessions
  /\ task \in [Sessions -> {"none", "live", "done"}]
  /\ pc \in [Sessions -> Labels] /\ frame \in [Sessions -> Frames]
  /\ analysis \in SUBSET Sessions
  /\ accepted \in [Sessions -> SUBSET Nat] /\ given \in [Sessions -> Seq(Nat)]
  /\ faults \in Nat /\ restarts \in Nat

HasRunner(s) == pc[s] \notin {"none", "finished"}
Received(s, type) == \E i \in DOMAIN inbox[s] : inbox[s][i].type = type

(* At most MaxActive sessions drive the shared browser: the coroutines     *)
(* that have not settled their session never outnumber the limit that      *)
(* SessionStore.create_session enforces by counting rows and runtime       *)
(* entries, whatever expires, ends, raises or restarts in between.         *)
BrowserNotShared ==
  Cardinality({s \in Sessions : HasRunner(s) /\ status[s] \in ActiveStatus})
    <= MaxActive

(* The agent is handed the answer of every question it asked, once, in the *)
(* order of the questions, and only answers that POST /v1/replies took:    *)
(* the handshake of set_waiting_question, apply_reply and pop_reply.       *)
AnswersMatchQuestions ==
  \A s \in Sessions : \A i \in DOMAIN given[s] :
    given[s][i] = i /\ i \in accepted[s]

(* A session is stored as completed or unverified only when the receiver   *)
(* holds that verdict, and the payment event that goes with it.            *)
StoredVerdictIsTold ==
  \A s \in Sessions :
    /\ status[s] = "completed" =>
         Received(s, "payment-ready") /\ Received(s, "scenario-finished")
    /\ status[s] = "unverified" =>
         Received(s, "payment-unverified") /\ Received(s, "scenario-unverified")

(* The receiver is never told of a verified payment and of an unverified   *)
(* one in the same session, nor of a completed scenario without having     *)
(* been told first that its payment is ready.                              *)
PaymentToldOnce ==
  \A s \in Sessions :
    /\ ~(Received(s, "payment-ready") /\ Received(s, "payment-unverified"))
    /\ \A j \in DOMAIN inbox[s] : inbox[s][j].type = "scenario-finished" =>
         \E i \in 1..(j - 1) : inbox[s][i].type = "payment-ready"

(* Nothing reaches the receiver that is not in the outbox of the session:  *)
(* _emit_event appends before it delivers, and a crash loses no row.       *)
OutboxBeforeWire ==
  \A s \in Sessions : status[s] # "gone" =>
    \A i \in DOMAIN inbox[s] : \E j \in DOMAIN log[s] : inbox[s][i] = log[s][j]

(* The receiver holds the events of a session in the order of its outbox   *)
(* and without a gap, in spite of lost requests, lost answers and retries: *)
(* a delivery that fails for good ends the session.                        *)
NoGapAtReceiver ==
  \A s \in Sessions : status[s] # "gone" =>
    /\ Len(inbox[s]) <= Len(log[s])
    /\ \A i \in DOMAIN inbox[s] : inbox[s][i] = log[s][i]

(* The receiver never holds two verdicts of one session. *)
OneVerdictTold ==
  \A s \in Sessions : \A u, v \in Terminal :
    Received(s, VerdictType[u]) /\ Received(s, VerdictType[v]) => u = v

(* A coroutine that has ended leaves a terminal status: the silent return  *)
(* of _run_session on ReplyValidationError or SessionConflictError never   *)
(* leaves a session running with nobody to run it.                         *)
NoSilentEnd ==
  \A s \in Sessions : pc[s] = "finished" => status[s] \in Terminal \cup {"gone"}

(* A session is analysed only after the receiver got its verdict.          *)
AnalysisAfterVerdict ==
  \A s \in analysis : Received(s, "scenario-finished") \/ Received(s, "scenario-failed")

(* A verdict is final: set_status has no guard, so this is up to the order *)
(* of the calls in _run_session and in its handlers.                       *)
VerdictIsFinal ==
  [][\A s \in Sessions : status[s] \in Terminal =>
       status'[s] \in {status[s], "gone"}]_vars

(* The process keeps the promise of SessionLifecycle: the phase of a       *)
(* session is its status, and in hand are the sessions that                *)
(* _is_active_in_current_runtime counts.                                   *)
Phase(s) == CASE status[s] \in {"created", "running"} -> "open"
              [] status[s] = "waiting_user" -> "waiting"
              [] OTHER -> status[s]
Lifecycle == INSTANCE SessionLifecycle
  WITH phase <- [s \in Sessions |-> Phase(s)],
       inHand <- {s \in Sessions : IsActive(s)}
KeepsLifecycle == Lifecycle!LSpec

(* What the process does to the row of a session are calls of SessionRow,  *)
(* one at a time, whatever raises in between: SessionRepository implements *)
(* the same module with tables and transactions.                           *)
RowOf(s) ==
  IF status[s] \in {"absent", "gone"}
  THEN [status |-> "absent", question |-> 0, pending |-> 0, log |-> <<>>]
  ELSE [status |-> status[s], question |-> question[s], pending |-> pending[s],
        log |-> log[s]]
Row(s) == INSTANCE SessionRow WITH row <- RowOf(s)
KeepsRow ==
  /\ \A s \in Sessions : Row(s)!RInit
  /\ [][\A s \in Sessions : [Row(s)!RNext]_(RowOf(s))]_vars

(* What the receiver can see of the buyer are steps of BuyerView, one      *)
(* session at a time, or a restart that ends them all; it gets what the    *)
(* session has on the wire, and nothing of one that is over; and an event  *)
(* is off the wire once it has arrived or was given up.  EvalRun is built  *)
(* of the same steps, so what it shows of a run holds with this buyer.     *)
View == INSTANCE BuyerView
Meaning(e) ==
  CASE e.type = "step-started"        -> View!Event("agent_step_started", e.n)
    [] e.type = "ask-user"            -> View!Event("ask_user", e.n)
    [] e.type = "payment-ready"       -> View!Event("payment_ready", 0)
    [] e.type = "payment-unverified"  -> View!Event("payment_unverified", 0)
    [] e.type = "scenario-finished"   -> View!Event("completed", 0)
    [] e.type = "scenario-unverified" -> View!Event("unverified", 0)
    [] e.type = "scenario-failed"     -> View!Event("failed", 0)
    [] OTHER                          -> View!Silence
OnWire(s) == IF pc[s] \in {"append", "deliver"} THEN Meaning(frame[s].event) ELSE View!Silence

(* The place of BuyerView that stands for a place of the coroutine; a      *)
(* scenario may fail before its first step, and after one.                 *)
Failing(s) == IF frame[s].step = 0 THEN "step" ELSE "result"
Place(s, at) ==
  CASE at \in {"creating", "boot", "auth"} -> "step"
    [] at = "loop"                     -> IF frame[s].recovering THEN "result" ELSE "step"
    [] at \in {"run", "result", "ask"} -> "result"
    [] at \in {"await", "pop"}         -> "asked"
    [] at = "verdict"    -> CASE frame[s].verdict = "completed"  -> "paid"
                              [] frame[s].verdict = "unverified" -> "found"
                              [] OTHER                           -> Failing(s)
    [] at = "unexpected" -> Failing(s)
    [] OTHER             -> "settle"
Sees(s) ==
  IF status[s] = "absent" THEN View!Absent
  ELSE IF ~IsActive(s) THEN View!Over
  ELSE [at |-> Place(s, IF pc[s] \in {"append", "deliver", "mark_delivered"}
                        THEN frame[s].then ELSE pc[s]),
        out |-> OnWire(s), tries |-> IF OnWire(s) = View!Silence THEN 0 ELSE frame[s].tries,
        step |-> frame[s].step, asked |-> frame[s].asked,
        question |-> IF status[s] = "waiting_user" THEN question[s] ELSE 0]
Arrives(s) ==
  /\ View!Active(Sees(s)) /\ Sees(s).out = Meaning(frame[s].event)
  /\ inbox'[s] = Append(inbox[s], frame[s].event)
ViewMoves(s) ==
  /\ View!Moves(Sees(s), Sees(s)')
  /\ OnWire(s) # View!Silence /\ OnWire(s)' = View!Silence =>
       frame[s].event \in {inbox'[s][i] : i \in DOMAIN inbox'[s]} \/ Sees(s)' = View!Retry(Sees(s))
  /\ \A t \in Sessions \ {s} : Sees(t)' = Sees(t)
KeepsView ==
  /\ \A s \in Sessions : Sees(s) = View!Absent
  /\ [][/\ \A s \in Sessions : inbox'[s] # inbox[s] => Arrives(s)
        /\ \/ \E s \in Sessions : ViewMoves(s)
           \/ restarts' # restarts /\ \A s \in Sessions : Sees(s)' = View!Cut(Sees(s))
           \/ \A s \in Sessions : Sees(s)' = Sees(s)]_vars

(* An answer that was accepted reaches the agent, unless the session fails *)
(* first (the event that asked could not be delivered, or a step raised).  *)
AcceptedAnswerIsHeard ==
  \A s \in Sessions : \A r \in 1..MaxSteps :
    (r \in accepted[s]) ~>
      ((\E i \in DOMAIN given[s] : given[s][i] = r) \/ status[s] \in Terminal \cup {"gone"})

(* A session that has started reaches a verdict or waits for the operator. *)
RunnerSettles ==
  \A s \in Sessions :
    (status[s] = "running") ~> (status[s] \in Terminal \cup {"waiting_user", "gone"})

(* Delivery is at least once: what the outbox of a session holds reaches   *)
(* the receiver, or its session has failed.                                *)
EventBound == 3 * MaxSteps + 3
EveryEventIsSent ==
  \A s \in Sessions : \A n \in 1..EventBound :
    (Len(log[s]) >= n) ~> (Len(inbox[s]) >= n \/ status[s] \in {"failed", "gone"})

(* Once completed a session stays completed until it expires, whatever     *)
(* happens around its post-session analysis: an error there changes no     *)
(* status and sends no callback (docs/architecture-decisions.md).          *)
AnalysisKeepsVerdict ==
  [][\A s \in Sessions : status[s] = "completed" =>
       status'[s] \in {"completed", "gone"}]_vars
=============================================================================
