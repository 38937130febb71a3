------------------------------- MODULE EvalRun -------------------------------
(***************************************************************************)
(* One eval run of eval_service: the coroutines that walk the cases of its *)
(* manifest (eval_service/app/orchestrator.py), the callback and operator  *)
(* reply handlers that change the same manifest                            *)
(* (eval_service/app/callbacks.py, run_store.py), and the buyer that runs  *)
(* the cases: BuyerView, of which BuyerSession is the detailed model.      *)
(*                                                                         *)
(* A step is what the event loop of eval_service executes between two      *)
(* awaits: every read of the manifest and the writes decided on it.        *)
(***************************************************************************)
EXTENDS Integers, FiniteSets, FiniteSetsExt

CONSTANTS
  N,            \* cases of the run, in the order of the manifest
  NoAuth,       \* cases whose auth profile cannot be loaded
  MaxAttempts,  \* callback_retries of the buyer
  MaxSteps,     \* bound: agent steps of one buyer session
  MaxReplies,   \* bound: replies of the operator
  MaxLost,      \* bound: requests or answers the network loses
  MaxFaults,    \* bound: coroutines of the run that raise
  MaxRestarts,  \* bound: restarts of eval_service and of the buyer
  MaxTroubles   \* bound: losses, raises and restarts, counted together

Cases == 1..N
Tasks == 0..MaxReplies   \* the run's own coroutine and one per operator reply
Questions == 1..MaxSteps \* a session asks once per step at most

ASSUME ConstantsAssumption ==
  /\ N \in Nat \ {0} /\ NoAuth \subseteq Cases
  /\ MaxAttempts \in Nat \ {0}
  /\ {MaxSteps, MaxReplies, MaxLost, MaxFaults, MaxRestarts, MaxTroubles} \subseteq Nat

VARIABLES
  run,       \* EvalRunManifest.status
  case,      \* EvalRunManifest.cases
  task,      \* the coroutines that walk the cases
  buyer,     \* the buyer session of each case
  reply,     \* POST .../reply in flight, by case and question
  replies, lost, faults, restarts

bounds == <<replies, lost, faults, restarts>>
vars == <<run, case, task, buyer, reply, bounds>>

CaseStates == {"pending", "skipped_auth_missing", "starting", "running",
               "waiting_user", "payment_ready", "unverified", "finished",
               "failed", "timeout"}
Terminal == {"skipped_auth_missing", "unverified", "finished", "failed", "timeout"}

View == INSTANCE BuyerView
Event(type, n) == View!Event(type, n)
Events == [type : View!EventTypes, n : 0..MaxSteps]

(* The next n troubles are within the bounds. *)
Troubled(n) == lost + faults + restarts + n <= MaxTroubles

(* A question is named by its number in the session; 0 is no question.     *)
NewCase == [state |-> "pending", session |-> FALSE, waiting |-> 0, seen |-> {}]
NoTask == [pc |-> "none", case |-> 0]

(* POST /runs has stored the manifest and scheduled the coroutine.         *)
Init ==
  /\ run = "running"
  /\ case = [c \in Cases |-> NewCase]
  /\ task = [t \in Tasks |-> IF t = 0 THEN [pc |-> "start", case |-> 0] ELSE NoTask]
  /\ buyer = [c \in Cases |-> View!Absent]
  /\ reply = [c \in Cases |-> [r \in Questions |-> "none"]]
  /\ replies = 0 /\ lost = 0 /\ faults = 0 /\ restarts = 0

-----------------------------------------------------------------------------
(* The coroutines: _run_cases_until_waiting, _run_case, _wait_for_case.    *)
(* m is the list of cases as the step has left it so far, and s the run    *)
(* status it has written.                                                  *)

At(t, pc, c) == task' = [task EXCEPT ![t] = [pc |-> pc, case |-> c]]

(* Mutant: a case that waits for the operator counts as over. *)
ReturnWaiting(t, m) ==
  /\ case' = m
  /\ run' = IF \A c \in Cases : m[c].state \in Terminal \cup {"waiting_user"}
            THEN "finished" ELSE "running"
  /\ task' = [task EXCEPT ![t] = NoTask]

(* _refresh_run_status, and the coroutine returns. *)
Return(t, m) ==
  /\ case' = m
  /\ run' = IF \A c \in Cases : m[c].state \in Terminal THEN "finished" ELSE "running"
  /\ task' = [task EXCEPT ![t] = NoTask]

(* _wait_for_case suspends: a poll interval, or the payment_ready grace.   *)
Suspend(t, c, m, s) ==
  /\ case' = m /\ run' = s
  /\ At(t, IF m[c].state = "payment_ready" THEN "grace" ELSE "wait", c)

(* Mutant: the case stays PENDING until create_task has returned. *)
CreateUnmarked(t, c, m, s) == case' = m /\ run' = s /\ At(t, "creating", c)

(* STARTING is written before create_task is awaited. *)
Create(t, c, m, s) ==
  /\ case' = [m EXCEPT ![c].state = "starting"]
  /\ run' = s
  /\ At(t, "creating", c)

Skipped(m, c) == m[c].state = "pending" /\ c \in NoAuth

Open(m, c) == m[c].state \notin Terminal /\ ~Skipped(m, c)

(* The loop of _run_cases_until_waiting from case i to its next await:     *)
(* cases that are over are passed, cases with no auth profile skipped, the *)
(* next case is created, waited for, or waits itself for the operator.     *)
Walk(t, i, m, s) ==
  LET open == {c \in i..N : Open(m, c)}
      skipped == {c \in i..N : Skipped(m, c) /\ \A d \in open : c < d}
      rest == [c \in Cases |-> IF c \in skipped
                               THEN [m[c] EXCEPT !.state = "skipped_auth_missing"]
                               ELSE m[c]]
  IN IF open = {} \/ m[Min(open)].state = "waiting_user"
     THEN Return(t, rest)
     ELSE IF m[Min(open)].state = "pending"
          THEN Create(t, Min(open), rest, s)
          ELSE Suspend(t, Min(open), rest, s)

(* Mutant: the walk does not stop at a case that waits for the operator. *)
ContinuePastWaiting(t, c, m, s) ==
  IF m[c].state \in Terminal \cup {"waiting_user"}
  THEN Walk(t, c + 1, m, s) ELSE Suspend(t, c, m, s)

(* What follows _wait_for_case, in the run as in a resumed run.            *)
Continue(t, c, m, s) ==
  CASE m[c].state \in Terminal     -> Walk(t, c + 1, m, s)
    [] m[c].state = "waiting_user" -> Return(t, m)
    [] OTHER                       -> Suspend(t, c, m, s)

Running(t, pc) == task[t].pc = pc /\ UNCHANGED <<buyer, reply, bounds>>

Start(t) == Running(t, "start") /\ Walk(t, 1, case, run)

(* resume_after_operator_reply. *)
Resume(t) == Running(t, "resume") /\ Continue(t, task[t].case, case, "running")

Poll(t) == Running(t, "wait") /\ Continue(t, task[t].case, case, run)

(* 600 s have passed since _wait_for_case was called.  A create_task that  *)
(* was under way then is over: its client gives up after 30 s.             *)
Timeout(t) ==
  LET c == task[t].case
  IN /\ Running(t, "wait")
     /\ case[c].state \notin Terminal \cup {"waiting_user", "payment_ready"}
     /\ \A u \in Tasks : task[u] # [pc |-> "creating", case |-> c]
     /\ Walk(t, c + 1, [case EXCEPT ![c].state = "timeout"], run)

GraceOver(t) ==
  LET c == task[t].case
      m == IF case[c].state = "payment_ready"
           THEN [case EXCEPT ![c].state = "finished", ![c].waiting = 0] ELSE case
  IN Running(t, "grace") /\ Continue(t, c, m, run)

(* _record_created_task: callbacks may have come before the answer.        *)
Created(t) ==
  LET c == task[t].case
      m == [case EXCEPT ![c].session = TRUE,
              ![c].state = IF @ \in {"pending", "starting", "running"} THEN "running" ELSE @]
  IN Running(t, "created") /\ Continue(t, c, m, run)

(* _mark_case_runtime_failure, whatever callbacks have come.               *)
CreateFailed(t) ==
  LET c == task[t].case
  IN /\ Running(t, "create_failed")
     /\ Continue(t, c, [case EXCEPT ![c].state = "failed", ![c].waiting = 0], run)

(* The coroutine raises (a manifest that cannot be read or written, a case *)
(* that has left the registry): _finalize_run_task, _mark_resume_failure.  *)
TaskRaises(t) ==
  /\ task[t].pc # "none" /\ faults < MaxFaults /\ Troubled(1)
  /\ faults' = faults + 1
  /\ run' = "failed"
  /\ task' = [task EXCEPT ![t] = NoTask]
  /\ UNCHANGED <<case, buyer, reply, replies, lost, restarts>>

-----------------------------------------------------------------------------
(* The callback handler *)

(* Mutant: scenario_finished is taken for a success whatever its status. *)
MovedToFinished(k, e) ==
  CASE e.type = "ask_user" -> [k EXCEPT !.state = "waiting_user", !.waiting = e.n]
    [] e.type = "agent_step_started" ->
         IF k.state = "waiting_user" \/ k.waiting # 0
         THEN [k EXCEPT !.state = "running", !.waiting = 0] ELSE k
    [] e.type = "payment_ready" -> [k EXCEPT !.state = "payment_ready", !.waiting = 0]
    [] e.type = "payment_unverified" -> [k EXCEPT !.state = "unverified", !.waiting = 0]
    [] OTHER -> [k EXCEPT !.state = "finished", !.waiting = 0]

(* _state_updates_for_callback on a case that is not over. *)
Moved(k, e) ==
  CASE e.type = "ask_user" -> [k EXCEPT !.state = "waiting_user", !.waiting = e.n]
    [] e.type = "agent_step_started" ->
         IF k.state = "waiting_user" \/ k.waiting # 0
         THEN [k EXCEPT !.state = "running", !.waiting = 0] ELSE k
    [] e.type = "payment_ready" -> [k EXCEPT !.state = "payment_ready", !.waiting = 0]
    [] e.type \in {"payment_unverified", "unverified"} ->
         [k EXCEPT !.state = "unverified", !.waiting = 0]
    [] e.type = "failed"    -> [k EXCEPT !.state = "failed", !.waiting = 0]
    [] e.type = "completed" -> [k EXCEPT !.state = "finished", !.waiting = 0]

(* Mutant: a callback changes a case that is over. *)
AfterCallbackAlways(k, e) ==
  IF e \in k.seen THEN k ELSE [Moved(k, e) EXCEPT !.session = TRUE, !.seen = @ \cup {e}]

(* append_callback_event: an event that was seen changes nothing, and a    *)
(* case that is over only records it.                                      *)
AfterCallback(k, e) ==
  IF e \in k.seen THEN k
  ELSE IF k.state \in Terminal THEN [k EXCEPT !.seen = @ \cup {e}]
  ELSE [Moved(k, e) EXCEPT !.session = TRUE, !.seen = @ \cup {e}]

Receive(c) == case' = [case EXCEPT ![c] = AfterCallback(@, buyer[c].out)]

-----------------------------------------------------------------------------
(* The operator reply handler *)

(* create_task of a coroutine that resumes the run after case c.           *)
Spawn(c) ==
  LET t == Min({u \in Tasks : task[u].pc = "none"})
  IN task' = [task EXCEPT ![t] = [pc |-> "resume", case |-> c]]

Answer(c, r, to) == reply' = [reply EXCEPT ![c][r] = to]

(* send_operator_reply up to the call of the buyer: the case must wait and *)
(* know its session; the question is claimed before the buyer is asked.    *)
ClaimReply(c, r) ==
  /\ case[c].state = "waiting_user" /\ case[c].session /\ case[c].waiting = r
  /\ replies < MaxReplies /\ replies' = replies + 1
  /\ case' = [case EXCEPT ![c].state = "running", ![c].waiting = 0]
  /\ Answer(c, r, "sent")
  /\ UNCHANGED <<run, task, buyer, lost, faults, restarts>>

(* Mutant: nobody goes on with the run. *)
ReplyAcceptedNoResume(c, r) ==
  /\ reply[c][r] = "accepted" /\ Answer(c, r, "none")
  /\ UNCHANGED <<run, case, task, buyer, bounds>>

(* The buyer has accepted the reply: the run goes on, unless the case      *)
(* waits for the answer of another question by now.                        *)
ReplyAccepted(c, r) ==
  /\ reply[c][r] = "accepted" /\ Answer(c, r, "none")
  /\ LET same == case[c].state = "waiting_user" /\ case[c].waiting = r
     IN /\ case' = IF same THEN [case EXCEPT ![c].state = "running", ![c].waiting = 0]
                   ELSE case
        /\ IF same \/ case[c].state # "waiting_user" THEN Spawn(c) ELSE UNCHANGED task
  /\ UNCHANGED <<run, buyer, bounds>>

(* _restore_operator_waiting_if_still_claimed *)
Claimed(c) == case[c].state = "running" /\ case[c].waiting = 0
Restored(c, r) == [case EXCEPT ![c].state = "waiting_user", ![c].waiting = r]

(* The call of the buyer raised: the claim is undone, or, when the case    *)
(* has moved on by itself, the run goes on.                                *)
ReplyFailed(c, r) ==
  /\ reply[c][r] = "failed" /\ Answer(c, r, "none")
  /\ case' = IF Claimed(c) THEN Restored(c, r) ELSE case
  /\ IF case'[c].state # "waiting_user" THEN Spawn(c) ELSE UNCHANGED task
  /\ UNCHANGED <<run, buyer, bounds>>

-----------------------------------------------------------------------------
(* The buyer and the network *)

Active(c) == View!Active(buyer[c])
Becomes(c, b) == buyer' = [buyer EXCEPT ![c] = b]
Lose(n) == lost + n <= MaxLost /\ Troubled(n) /\ lost' = lost + n

(* POST /v1/tasks: one active session at a time; the request or its answer *)
(* may be lost.                                                            *)
BuyerCreates(t) ==
  LET c == task[t].case
  IN /\ task[t].pc = "creating"
     /\ \/ /\ \A d \in Cases : ~Active(d)
           /\ Becomes(c, View!Created)
           /\ \/ At(t, "created", c) /\ Lose(0)
              \/ At(t, "create_failed", c) /\ Lose(1)
        \/ /\ At(t, "create_failed", c) /\ UNCHANGED buyer
           /\ \/ (\E d \in Cases : Active(d)) /\ Lose(0)
              \/ Lose(1)
     /\ UNCHANGED <<run, case, reply, replies, faults, restarts>>

(* POST /v1/replies: accepted while the question is open. *)
BuyerAnswers(c, r) ==
  /\ reply[c][r] = "sent"
  /\ \/ /\ buyer[c].question = r /\ Becomes(c, View!Answer(buyer[c]))
        /\ \/ Answer(c, r, "accepted") /\ Lose(0)
           \/ Answer(c, r, "failed") /\ Lose(1)
     \/ /\ UNCHANGED buyer /\ Answer(c, r, "failed")
        /\ \/ buyer[c].question # r /\ Lose(0)
           \/ Lose(1)
  /\ UNCHANGED <<run, case, task, replies, faults, restarts>>

(* A session that starts a step again or asks leaves itself another step.  *)
BuyerSpeaks(c) ==
  /\ View!Idle(buyer[c])
  /\ \E b \in View!Speeches(buyer[c]) :
       /\ b.step <= MaxSteps /\ (b.at = "asked" => b.step < MaxSteps)
       /\ Becomes(c, b)
  /\ UNCHANGED <<run, case, task, reply, bounds>>

BuyerHears(c) ==
  /\ View!MayHear(buyer[c]) /\ Becomes(c, View!Hear(buyer[c]))
  /\ UNCHANGED <<run, case, task, reply, bounds>>

(* set_status: the session lets go of the slot. *)
BuyerSettles(c) ==
  /\ View!MaySettle(buyer[c]) /\ Becomes(c, View!Over)
  /\ UNCHANGED <<run, case, task, reply, bounds>>

(* Every attempt to send session_started or agent_step_finished is lost.   *)
BuyerFallsSilent(c) ==
  /\ View!MayFallSilent(buyer[c]) /\ Lose(MaxAttempts)
  /\ Becomes(c, View!GiveUp(buyer[c]))
  /\ UNCHANGED <<run, case, task, reply, replies, faults, restarts>>

(* POST /callbacks/buyer, answered. *)
Delivered(c) ==
  /\ buyer[c].out # View!Silence
  /\ Receive(c) /\ Becomes(c, View!Delivered(buyer[c]))
  /\ UNCHANGED <<run, task, reply, bounds>>

(* The request is lost, or its answer. *)
DeliveryFails(c) ==
  /\ buyer[c].out # View!Silence
  /\ (Receive(c) \/ UNCHANGED case)
  /\ Lose(1)
  /\ Becomes(c, View!Retry(buyer[c]))
  /\ UNCHANGED <<run, task, reply, replies, faults, restarts>>

Restarts == restarts < MaxRestarts /\ Troubled(1) /\ restarts' = restarts + 1

(* eval_service restarts: the manifest stays, no coroutine is started.     *)
Restart ==
  /\ Restarts
  /\ task' = [t \in Tasks |-> NoTask]
  /\ reply' = [c \in Cases |-> [r \in Questions |-> "none"]]
  /\ UNCHANGED <<run, case, buyer, replies, lost, faults>>

(* The buyer restarts: its sessions say no more. *)
BuyerRestarts ==
  /\ Restarts
  /\ buyer' = [c \in Cases |-> View!Cut(buyer[c])]
  /\ UNCHANGED <<run, case, task, reply, replies, lost, faults>>

Coroutine(t) ==
  \/ Start(t) \/ Resume(t) \/ Poll(t) \/ Timeout(t) \/ GraceOver(t)
  \/ Created(t) \/ CreateFailed(t)
Handler(c) ==
  \E r \in Questions : ReplyAccepted(c, r) \/ ReplyFailed(c, r)
Buyer(c) ==
  \/ BuyerSpeaks(c) \/ BuyerHears(c) \/ BuyerSettles(c) \/ Delivered(c)
  \/ \E r \in Questions : BuyerAnswers(c, r)

Next ==
  \/ \E t \in Tasks : Coroutine(t) \/ TaskRaises(t) \/ BuyerCreates(t)
  \/ \E c \in Cases : Handler(c) \/ Buyer(c) \/ DeliveryFails(c) \/ BuyerFallsSilent(c)
  \/ \E c \in Cases, r \in Questions : ClaimReply(c, r)
  \/ Restart \/ BuyerRestarts

Spec == Init /\ [][Next]_vars

(* Coroutines, handlers and the buyer go on; nobody has to reply, and the  *)
(* network need not lose anything.                                         *)
FairSpec ==
  /\ Spec
  /\ \A t \in Tasks : WF_vars(Coroutine(t)) /\ WF_vars(BuyerCreates(t))
  /\ \A c \in Cases : WF_vars(Handler(c)) /\ WF_vars(Buyer(c))

-----------------------------------------------------------------------------
(* Properties *)

TypeOK ==
  /\ run \in {"running", "finished", "failed"}
  /\ case \in [Cases -> [state : CaseStates, session : BOOLEAN, waiting : 0..MaxSteps,
                         seen : SUBSET Events]]
  /\ task \in [Tasks -> [pc : {"none", "start", "resume", "wait", "grace", "creating",
                               "created", "create_failed"}, case : 0..N]]
  /\ buyer \in [Cases -> [at : View!Places, out : Events \cup {View!Silence},
                          tries : 0..(MaxAttempts - 1), step : 0..MaxSteps,
                          asked : 0..MaxSteps, question : 0..MaxSteps]]
  /\ reply \in [Cases -> [Questions -> {"none", "sent", "accepted", "failed"}]]
  /\ replies \in 0..MaxReplies /\ lost \in 0..MaxLost
  /\ faults \in 0..MaxFaults /\ restarts \in 0..MaxRestarts

Over(c) == case[c].state \in Terminal
Begun(c) == case[c].state \notin {"pending", "skipped_auth_missing"}

(* However many coroutines walk the run, its cases are begun in the order  *)
(* of the manifest, each when all before it are over.                      *)
CasesInOrder ==
  \A c, d \in Cases : c < d /\ Begun(d) => Over(c)

(* No two coroutines create a session at the same time, and none creates   *)
(* the session of a case that has one.                                     *)
CreatedOnce ==
  /\ \A t, u \in Tasks : task[t].pc = "creating" /\ task[u].pc = "creating" => t = u
  /\ \A t \in Tasks : task[t].pc = "creating" => buyer[task[t].case].at = "absent"

(* A case says only what its buyer session has told, however late, often   *)
(* or seldom the callbacks come: it ends as finished or unverified after   *)
(* that payment event, and the question the operator is shown was asked by *)
(* the session and can be answered.                                        *)
SaysWhatWasTold ==
  \A c \in Cases :
    /\ case[c].state = "finished" => Event("payment_ready", 0) \in case[c].seen
    /\ case[c].state = "unverified" => Event("payment_unverified", 0) \in case[c].seen
    /\ case[c].state = "waiting_user" =>
         case[c].session /\ Event("ask_user", case[c].waiting) \in case[c].seen

(* A run is reported finished only when all its cases are over. *)
FinishedIsOver == run = "finished" => \A c \in Cases : Over(c)

(* A case that is over keeps its state: callbacks, replies, polls and      *)
(* timeouts leave it alone.  Only a create_task that fails after the       *)
(* callbacks of its own session have come overwrites it.                   *)
OverIsFinal ==
  [][\A c \in Cases : Over(c) =>
       \/ case'[c].state = case[c].state
       \/ \E t \in Tasks : task[t] = [pc |-> "create_failed", case |-> c]]_vars

(* Every run comes to its end, fails, or waits for the operator. *)
RunGoesOn ==
  (run = "running") ~>
    (run \in {"finished", "failed"} \/ \E c \in Cases : case[c].state = "waiting_user")

(* The question the operator is shown is the last one the session asked:   *)
(* undoing a claim leaves a newer claim alone.                             *)
NoStaleQuestion ==
  \A c \in Cases : case[c].state = "waiting_user" =>
    \A n \in Questions : Event("ask_user", n) \in case[c].seen => n <= case[c].waiting

(* Cases run one after the other: no session is created while another is   *)
(* still active.                                                           *)
OneAfterTheOther ==
  \A t \in Tasks : task[t].pc = "creating" => \A c \in Cases : ~Active(c)
=============================================================================
