----------------------------- MODULE SessionRow -----------------------------
(***************************************************************************)
(* What SessionStore (buyer/app/state.py) expects of one session's durable *)
(* state, whichever repository keeps it: each call replaces the whole of   *)
(* it, and the next call reads back what the last one wrote.  The state    *)
(* has no tables, no transaction and no delivery marks.                    *)
(***************************************************************************)
EXTENDS Integers, Sequences

VARIABLE row   \* status, open question, reply to be taken, outbox

NoRow == [status |-> "absent", question |-> 0, pending |-> 0, log |-> <<>>]
Terminal == {"completed", "failed", "unverified"}

RInit == row = NoRow

Exists == row.status # "absent"

Create == row = NoRow /\ row' = [NoRow EXCEPT !.status = "created"]

SetStatus == Exists /\ \E v \in Terminal \cup {"running"} : row' = [row EXCEPT !.status = v]

(* A question is put only when none is open and no reply is left to take.  *)
Ask ==
  /\ row.status = "running" /\ row.question = 0 /\ row.pending = 0
  /\ row'.question > 0
  /\ row' = [row EXCEPT !.status = "waiting_user", !.question = row'.question]

Reply ==
  /\ row.status = "waiting_user" /\ row.question > 0
  /\ row' = [row EXCEPT !.status = "running", !.question = 0, !.pending = row.question]

Take == row.pending > 0 /\ row' = [row EXCEPT !.pending = 0]

(* The outbox only grows, one event at a time. *)
AppendEvent ==
  /\ Exists /\ Len(row'.log) = Len(row.log) + 1
  /\ SubSeq(row'.log, 1, Len(row.log)) = row.log
  /\ row' = [row EXCEPT !.log = row'.log]

Expire == row.status \in Terminal /\ row' = NoRow

RNext == Create \/ SetStatus \/ Ask \/ Reply \/ Take \/ AppendEvent \/ Expire

RSpec == RInit /\ [][RNext]_row
=============================================================================
