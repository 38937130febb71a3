------------------------------ MODULE BuyerView ------------------------------
(***************************************************************************)
(* What the receiver of its callbacks can see of one session of the buyer: *)
(* whether it holds the buyer, what it says next, and the question it      *)
(* waits on.  The session is a record and its steps are functions of it,   *)
(* so that BuyerSession can be shown to take no other steps, and EvalRun,  *)
(* which has one session per case, can be made of them.                    *)
(***************************************************************************)
EXTENDS Integers

CONSTANT MaxAttempts   \* callback_retries of the buyer

(* The events that mean something to the receiver; scenario_finished is    *)
(* named by its status.                                                    *)
Event(type, n) == [type |-> type, n |-> n]
EventTypes == {"agent_step_started", "ask_user", "payment_ready",
               "payment_unverified", "completed", "unverified", "failed"}
Silence == Event("none", 0)

(* at is where the session is when out, the event on the wire, has been    *)
(* delivered; step and asked number its steps and questions; question is   *)
(* the reply id that POST /v1/replies takes, 0 when none.                  *)
Places == {"absent", "step", "result", "asked", "paid", "found", "settle", "over"}
Absent == [at |-> "absent", out |-> Silence, tries |-> 0, step |-> 0, asked |-> 0,
           question |-> 0]
Created == [Absent EXCEPT !.at = "step"]
Over == [Absent EXCEPT !.at = "over"]

(* The session counts as active: no other may be created.                  *)
Active(b) == b.at \notin {"absent", "over"}
Idle(b) == Active(b) /\ b.out = Silence

Say(b, type, at) == [b EXCEPT !.out = Event(type, 0), !.at = at]
StartStep(b) == [b EXCEPT !.out = Event("agent_step_started", b.step + 1),
                          !.step = b.step + 1, !.at = "result"]
Ask(b) == [b EXCEPT !.out = Event("ask_user", b.asked + 1), !.asked = b.asked + 1,
                    !.question = b.asked + 1, !.at = "asked"]

(* What a session may say next.  It may fail before its first step, and    *)
(* start a step again after a transient error.                             *)
Speeches(b) ==
  CASE b.at = "step"   -> {StartStep(b), Say(b, "failed", "settle")}
    [] b.at = "result" -> {StartStep(b), Ask(b), Say(b, "payment_ready", "paid"),
                           Say(b, "payment_unverified", "found"), Say(b, "failed", "settle")}
    [] b.at = "paid"   -> {Say(b, "completed", "settle")}
    [] b.at = "found"  -> {Say(b, "unverified", "settle")}
    [] OTHER           -> {}

Delivered(b) == [b EXCEPT !.out = Silence, !.tries = 0]
GiveUp(b) == [b EXCEPT !.out = Silence, !.tries = 0, !.at = "settle"]
Retry(b) == IF b.tries + 1 = MaxAttempts THEN GiveUp(b) ELSE [b EXCEPT !.tries = @ + 1]
Answer(b) == [b EXCEPT !.question = 0]

(* The events left out (session_started, agent_step_finished) are sent     *)
(* before a step and after it, and end the session when they are not heard.*)
MayFallSilent(b) == Idle(b) /\ b.at \in {"step", "result"}
MayHear(b) == Idle(b) /\ b.at = "asked" /\ b.question = 0
Hear(b) == [b EXCEPT !.at = "step"]
MaySettle(b) == Idle(b) /\ b.at = "settle"

(* A step of a session. *)
Moves(b, c) ==
  \/ b.at = "absent" /\ c = Created
  \/ Idle(b) /\ c \in Speeches(b)
  \/ b.out # Silence /\ c \in {Delivered(b), Retry(b)}
  \/ MayFallSilent(b) /\ c = GiveUp(b)
  \/ b.question # 0 /\ c = Answer(b)
  \/ MayHear(b) /\ c = Hear(b)
  \/ MaySettle(b) /\ c = Over

(* A restart of the buyer ends its sessions. *)
Cut(b) == IF Active(b) THEN Over ELSE b
=============================================================================
