--------------------------- MODULE SessionSummary ---------------------------
(***************************************************************************)
(* What the operator page of micro-ui shows of a session: the fold of      *)
(* CallbackStore.list_sessions (micro-ui/app/store.py) over the events of  *)
(* the session in the order they came.                                     *)
(***************************************************************************)
EXTENDS Integers, Sequences

Clears == {"step-started", "payment-ready", "payment-unverified",
           "scenario-finished", "scenario-unverified", "scenario-failed"}
Verdict == [e \in {"scenario-finished", "scenario-unverified", "scenario-failed"} |->
              CASE e = "scenario-finished" -> "completed"
                [] e = "scenario-unverified" -> "unverified"
                [] OTHER -> "failed"]

(* Mutant: a completed scenario hides that its payment was not verified. *)
ShowsCompleted(shown, e) ==
  [status |-> IF e.type = "payment-unverified" THEN "unverified"
              ELSE IF e.type \in DOMAIN Verdict THEN "completed" ELSE shown.status,
   question |-> IF e.type = "ask-user" THEN e.n
                ELSE IF e.type \in Clears THEN 0 ELSE shown.question]

Shows(shown, e) ==
  [status |-> IF e.type = "payment-unverified" THEN "unverified"
              ELSE IF /\ e.type \in DOMAIN Verdict
                      /\ ~(shown.status = "unverified" /\ Verdict[e.type] = "completed")
                   THEN Verdict[e.type] ELSE shown.status,
   question |-> IF e.type = "ask-user" THEN e.n
                ELSE IF e.type \in Clears THEN 0 ELSE shown.question]

(* What the fold has after each number of events; question is the          *)
(* waiting_reply_id, 0 when None.                                          *)
ShownAfter(events) ==
  LET after[i \in 0..Len(events)] ==
        IF i = 0 THEN [status |-> "none", question |-> 0]
        ELSE Shows(after[i - 1], events[i])
  IN after

Summary(events) ==
  LET shown == ShownAfter(events)[Len(events)]
  IN [shown EXCEPT !.status =
        IF @ # "none" THEN @ ELSE IF shown.question = 0 THEN "running" ELSE "waiting_user"]
=============================================================================
