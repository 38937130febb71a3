-------------------------- MODULE SessionLifecycle --------------------------
(***************************************************************************)
(* What a buyer process promises the client of its API about sessions,     *)
(* with no coroutine, no callback and no row in sight: at most MaxActive   *)
(* sessions are in hand, a question is asked and answered only while the   *)
(* session is, a session gets its verdict while it is in hand and never    *)
(* another one, and a session that was dropped with no verdict is never    *)
(* taken up again.  BuyerSession implements it.                            *)
(***************************************************************************)
EXTENDS Naturals, FiniteSets

CONSTANTS Sessions, MaxActive

VARIABLES
  phase,   \* what the API shows of a session
  inHand   \* the sessions this process is working on

lifecycleVars == <<phase, inHand>>

Verdicts == {"completed", "failed", "unverified"}
Phases == {"absent", "open", "waiting", "gone"} \cup Verdicts

LInit == phase = [s \in Sessions |-> "absent"] /\ inHand = {}

Settled == {s \in Sessions : phase[s] \in Verdicts}

(* Settled sessions are forgotten after a while. *)
Forgotten(E) == [s \in Sessions |-> IF s \in E THEN "gone" ELSE phase[s]]

Admit(s, E) ==
  /\ phase[s] = "absent" /\ Cardinality(inHand) < MaxActive
  /\ phase' = [Forgotten(E) EXCEPT ![s] = "open"]
  /\ inHand' = inHand \cup {s}

Forget(E) == phase' = Forgotten(E) /\ UNCHANGED inHand

Ask(s) ==
  /\ s \in inHand /\ phase[s] = "open"
  /\ phase' = [phase EXCEPT ![s] = "waiting"]
  /\ UNCHANGED inHand

Answer(s) ==
  /\ s \in inHand /\ phase[s] = "waiting"
  /\ phase' = [phase EXCEPT ![s] = "open"]
  /\ UNCHANGED inHand

Conclude(s, v) ==
  /\ s \in inHand
  /\ phase' = [phase EXCEPT ![s] = v]
  /\ inHand' = inHand \ {s}

(* The process dies, or a coroutine does: no verdict. *)
Drop(D) == inHand' = inHand \ D /\ UNCHANGED phase

LNext ==
  \/ \E E \in SUBSET Settled : Forget(E) \/ \E s \in Sessions : Admit(s, E)
  \/ \E s \in Sessions : Ask(s) \/ Answer(s) \/ \E v \in Verdicts : Conclude(s, v)
  \/ \E D \in SUBSET inHand : Drop(D)

LSpec == LInit /\ [][LNext]_lifecycleVars
=============================================================================
