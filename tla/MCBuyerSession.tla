--------------------------- MODULE MCBuyerSession ---------------------------
(***************************************************************************)
(* Instances of BuyerSession for TLC, with the micro-ui as the receiver:   *)
(* what its operator page shows is the fold of SessionSummary.             *)
(***************************************************************************)
EXTENDS BuyerSession, TLC

SessionSymmetry == Permutations(Sessions)

Page == INSTANCE SessionSummary
Shown(s) == Page!Summary(inbox[s])

(* The page of micro-ui is told only by callbacks, and yet agrees with the *)
(* buyer where it matters, in spite of lost callbacks and failing          *)
(* handlers: a session that settled as completed or unverified is shown as *)
(* that, with no question left, unless an error after it was reported as a *)
(* failed scenario too; one whose runner waits for a reply is shown as     *)
(* waiting, with the reply id that apply_reply takes; and one whose agent  *)
(* is at work is shown as running.                                         *)
ShownStatus ==
  \A s \in Sessions :
    /\ status[s] \in {"completed", "unverified"} /\ ~Received(s, "scenario-failed") =>
         Shown(s) = [status |-> status[s], question |-> 0]
    /\ pc[s] = "await" /\ ~wake[s] =>
         Shown(s) = [status |-> "waiting_user", question |-> question[s]]
    /\ pc[s] = "run" => Shown(s) = [status |-> "running", question |-> 0]
=============================================================================
