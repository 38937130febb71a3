----------------------------- MODULE EvalJudge -----------------------------
(***************************************************************************)
(* Judging the cases of one eval run (eval_service/app/api.py and          *)
(* judge_runner.py): synchronous batches and background jobs, the codex    *)
(* process that writes the evaluation of a case in place, and the late     *)
(* callbacks of buyer sessions that outlived the time limit of their case. *)
(*                                                                         *)
(* The event loop runs a batch up to the thread of JudgeRunner and from    *)
(* its end to the next thread; the steps of a thread interleave freely.    *)
(***************************************************************************)
EXTENDS Integers, FiniteSetsExt

CONSTANTS
  N,            \* the cases of the run are 1..N
  Batches,      \* bound: batches at work at the same time
  MaxFaults     \* bound: reads or writes of artifacts that raise, and restarts

Cases == 1..N
Incomplete == {"pending", "starting", "running", "waiting_user", "payment_ready"}
Ended == {"skipped_auth_missing", "unverified", "finished", "timeout"}   \* FAILED is as FINISHED
Terminal == Ended \cup {"judged", "judge_failed"}
Evaluations == {"judged", "judge_failed", "judge_skipped"}

VARIABLES
  state,     \* EvalRunCase.state
  file,      \* <case>.evaluation.json: an evaluation by its status, "none",
             \* or "bad" when it is not JSON or not of the schema
  live,      \* cases whose session at the buyer still sends callbacks
  pc, kind,  \* per batch: where it is, and "sync" or "job"
  skip,      \* per batch: cases without credentials in the manifest it has read
  todo,      \* per batch: its cases left, in their order: the least is judged
  result,    \* per batch: status of the evaluation JudgeRunner returns
  wrote,     \* per batch: the codex that is running has written its file
  faults,
  overlap,   \* observed: a synchronous batch ran beside another one
  stranded,  \* observed: a restart or an error may have left cases pending,
             \* and no batch has taken them up again
  stale      \* observed: a case was judged by a file its codex did not write

manifest == <<state, file, live>>
batch == <<pc, kind, skip, todo, result, wrote>>
observed == <<overlap, stranded, stale>>
vars == <<manifest, batch, faults, observed>>

Init ==
  /\ state \in [Cases -> Ended]
  /\ file = [c \in Cases |-> "none"]
  /\ live = {c \in Cases : state[c] = "timeout"}
  /\ pc = [b \in Batches |-> "idle"] /\ kind = [b \in Batches |-> "none"]
  /\ skip = [b \in Batches |-> {}] /\ todo = [b \in Batches |-> {}]
  /\ result = [b \in Batches |-> "none"] /\ wrote = [b \in Batches |-> FALSE]
  /\ faults = 0 /\ overlap = FALSE /\ stranded = FALSE /\ stale = FALSE

(* _cases_requiring_judge *)
Requires(c) ==
  /\ state[c] # "unverified"
  /\ ~(state[c] = "judged" /\ file[c] \in Evaluations)
CasesRequiringJudge == {c \in Cases : Requires(c)}

Working(b) == pc[b] \notin {"idle", "failed"}

(* Mutant: the task is looked up only once it has begun to judge. *)
ActiveJobJudging == \E b \in Batches : kind[b] = "job" /\ pc[b] \in {"codex", "persist"}

(* _active_judge_task: the task of the run, unless it is done. *)
ActiveJob == \E b \in Batches : kind[b] = "job" /\ Working(b)

(* The local state of a batch that is not at work any more. *)
Leaves(b, to) ==
  /\ pc' = [pc EXCEPT ![b] = to] /\ kind' = [kind EXCEPT ![b] = "none"]
  /\ skip' = [skip EXCEPT ![b] = {}] /\ todo' = [todo EXCEPT ![b] = {}]
  /\ result' = [result EXCEPT ![b] = "none"] /\ wrote' = [wrote EXCEPT ![b] = FALSE]

(* A batch that raises: a request answers 500, a job is left to            *)
(* _finalize_judge_task.                                                   *)
Fails(b, k) ==
  /\ Leaves(b, IF k = "job" THEN "failed" ELSE "idle")
  /\ stranded' = (stranded \/ k = "sync")
Raises(b, k) == faults < MaxFaults /\ faults' = faults + 1 /\ Fails(b, k)

(* The next case of the batch is marked and handed to a thread; after the  *)
(* last one the summary is written.  Reading or writing an artifact may    *)
(* raise on the way, before or after the mark.                             *)
NextCase(b, k, skipped, m, left, cut) ==
  LET marked == IF left = {} \/ Min(left) \in skipped THEN m
                ELSE [m EXCEPT ![Min(left)] = "judge_pending"]
  IN
  \/ /\ left # {} /\ state' = marked
     /\ pc' = [pc EXCEPT ![b] = "codex"] /\ kind' = [kind EXCEPT ![b] = k]
     /\ skip' = [skip EXCEPT ![b] = skipped] /\ todo' = [todo EXCEPT ![b] = left]
     /\ result' = [result EXCEPT ![b] = "none"] /\ wrote' = [wrote EXCEPT ![b] = FALSE]
     /\ stranded' = cut /\ UNCHANGED faults
  \/ left = {} /\ state' = m /\ Leaves(b, "idle") /\ stranded' = cut /\ UNCHANGED faults
  \/ Raises(b, k) /\ state' \in {m, marked}

(* _run_judge_batch up to its first thread: it takes up every case that is *)
(* pending, whatever left it so.                                           *)
RunBatch(b, k) ==
  /\ \A c \in Cases : state[c] \notin Incomplete
  /\ NextCase(b, k, {c \in Cases : state[c] = "skipped_auth_missing"}, state,
              CasesRequiringJudge, FALSE)
  /\ overlap' = (overlap \/ \E a \in Batches \ {b} :
                              Working(a) /\ "sync" \in {k, kind[a]})
  /\ UNCHANGED <<file, live, stale>>

(* POST /runs/{id}/judge, answered when the batch is over. *)
JudgeRun(b) ==
  pc[b] = "idle" /\ RunBatch(b, "sync")

(* _mark_cases_judge_pending, as far as case n. *)
Marked(n) ==
  [c \in Cases |-> IF Requires(c) /\ state[c] # "skipped_auth_missing" /\ c <= n
                  THEN "judge_pending" ELSE state[c]]

(* _schedule_judge_run: the cases are marked one after the other, the job  *)
(* starts later; if marking raises there is no job behind what is marked.  *)
ScheduleJudgeRun(b) ==
  /\ pc[b] = "idle" /\ ~ActiveJob
  /\ \A c \in Cases : state[c] \notin Incomplete
  /\ CasesRequiringJudge # {}
  /\ \/ /\ state' = Marked(N) /\ stranded' = FALSE
        /\ pc' = [pc EXCEPT ![b] = "queued"] /\ kind' = [kind EXCEPT ![b] = "job"]
        /\ overlap' = (overlap \/ \E a \in Batches \ {b} : Working(a) /\ kind[a] = "sync")
        /\ UNCHANGED faults
     \/ /\ faults < MaxFaults /\ faults' = faults + 1
        /\ stranded' = TRUE /\ \E n \in Cases : state' = Marked(n - 1)
        /\ UNCHANGED <<pc, kind, overlap>>
  /\ UNCHANGED <<file, live, skip, todo, result, wrote, stale>>

(* The job reads the manifest anew, and fails if a case is live again. *)
RunJob(b) ==
  /\ pc[b] = "queued"
  /\ \/ RunBatch(b, "job")
     \/ /\ \E c \in Cases : state[c] \in Incomplete
        /\ Fails(b, "job")
        /\ UNCHANGED <<manifest, faults, overlap, stale>>

(* The case a batch is at. *)
At(b) == Min(todo[b])

(* codex exec -o writes the evaluation in place, whatever comes out (one   *)
(* that says judge_failed itself ends like a fallback).                    *)
CodexWrites(b) ==
  /\ pc[b] = "codex" /\ At(b) \notin skip[b]
  /\ \E v \in {"bad", "judged"} : file' = [file EXCEPT ![At(b)] = v]
  /\ wrote' = [wrote EXCEPT ![b] = TRUE]
  /\ UNCHANGED <<state, live, pc, kind, skip, todo, result, faults, observed>>

(* The end of codex: a time limit, an exit code, missing credentials of    *)
(* codex or another identity give a fallback, which ends as JUDGE_FAILED;  *)
(* on exit 0 the file is read, whoever wrote it: a codex that was cut      *)
(* short may have left it.  Without credentials of the shop codex is not   *)
(* run at all.                                                             *)
Outcome(b) ==
  IF At(b) \in skip[b] THEN {"judge_skipped"}
  ELSE {"judge_failed",
        IF file[At(b)] \in Evaluations THEN file[At(b)] ELSE "judge_failed"}
CodexEnds(b) ==
  /\ pc[b] = "codex" /\ pc' = [pc EXCEPT ![b] = "write"]
  /\ \E v \in Outcome(b) :
       /\ result' = [result EXCEPT ![b] = v]
       /\ stale' = (stale \/ (v = "judged" /\ ~wrote[b]))
  /\ wrote' = [wrote EXCEPT ![b] = FALSE]
  /\ UNCHANGED <<manifest, kind, skip, todo, faults, overlap, stranded>>

(* The evaluation is stored atomically, with the metadata of the server. *)
WriteEvaluation(b) ==
  /\ pc[b] = "write" /\ pc' = [pc EXCEPT ![b] = "persist"]
  /\ file' = [file EXCEPT ![At(b)] = result[b]]
  /\ UNCHANGED <<state, live, kind, skip, todo, result, wrote, faults, observed>>

(* _judge_case_state *)
JudgeCaseState(b, c) ==
  CASE c \in skip[b] /\ result[b] = "judge_skipped" -> state[c]
    [] result[b] = "judged" -> "judged"
    [] OTHER -> "judge_failed"

(* _persist_judge_result and on to the next case, if it does not raise. *)
PersistJudgeResult(b) ==
  /\ pc[b] = "persist"
  /\ LET c == At(b) IN
     \/ NextCase(b, kind[b], skip[b], [state EXCEPT ![c] = JudgeCaseState(b, c)],
                   todo[b] \ {c}, stranded)
     \/ Raises(b, kind[b]) /\ UNCHANGED state
  /\ UNCHANGED <<file, live, overlap, stale>>

(* _mark_pending_judge_cases_failed, as far as case n. *)
Settled(n) ==
  [c \in Cases |-> IF state[c] = "judge_pending" /\ c <= n THEN "judge_failed" ELSE state[c]]

(* Mutant: the exception of the task is taken and nothing is recorded. *)
FinalizeQuietly(b) ==
  /\ pc[b] = "failed" /\ pc' = [pc EXCEPT ![b] = "idle"]
  /\ UNCHANGED <<manifest, kind, skip, todo, result, wrote, faults, observed>>

(* _finalize_judge_task: if the manifest cannot be read it returns, and    *)
(* if a case cannot be written it goes no further.                         *)
FinalizeJudgeTask(b) ==
  /\ pc[b] = "failed" /\ pc' = [pc EXCEPT ![b] = "idle"]
  /\ \/ state' = Settled(N) /\ stranded' = FALSE /\ UNCHANGED faults
     \/ /\ faults < MaxFaults /\ faults' = faults + 1
        /\ stranded' = TRUE /\ \E n \in Cases : state' = Settled(n - 1)
  /\ UNCHANGED <<file, live, kind, skip, todo, result, wrote, overlap, stale>>

(* receive_buyer_callback: JUDGE_PENDING is no terminal state, so a late   *)
(* event of the buyer moves the case; its verdict ends the session.        *)
LateStates(s) ==
  {"waiting_user", "payment_ready"} \cup (IF s = "waiting_user" THEN {"running"} ELSE {})
LateVerdicts == {"unverified", "finished"}
LateCallback(c) ==
  /\ c \in live
  /\ \/ live' = live \ {c} /\ \E v \in LateVerdicts :
          state' = IF state[c] \in Terminal THEN state ELSE [state EXCEPT ![c] = v]
     \/ /\ state[c] \notin Terminal /\ UNCHANGED live
        /\ \E v \in LateStates(state[c]) : state' = [state EXCEPT ![c] = v]
  /\ UNCHANGED <<file, batch, faults, observed>>

Restart ==
  /\ faults < MaxFaults /\ faults' = faults + 1
  /\ stranded' = (stranded \/ \E b \in Batches : pc[b] # "idle")
  /\ pc' = [b \in Batches |-> "idle"] /\ kind' = [b \in Batches |-> "none"]
  /\ skip' = [b \in Batches |-> {}] /\ todo' = [b \in Batches |-> {}]
  /\ result' = [b \in Batches |-> "none"] /\ wrote' = [b \in Batches |-> FALSE]
  /\ UNCHANGED <<manifest, overlap, stale>>

Next ==
  \/ \E b \in Batches :
       \/ JudgeRun(b) \/ ScheduleJudgeRun(b) \/ RunJob(b) \/ CodexWrites(b) \/ CodexEnds(b)
       \/ WriteEvaluation(b) \/ PersistJudgeResult(b) \/ FinalizeJudgeTask(b)
  \/ \E c \in Cases : LateCallback(c)
  \/ Restart

Spec == Init /\ [][Next]_vars

-----------------------------------------------------------------------------
(* Properties *)

(* As long as batches are background jobs, or requests that did not run    *)
(* beside another batch, a case that is JUDGED has an evaluation with that *)
(* status: no later batch, restart or late callback takes it away.  If     *)
(* nothing raised and nothing was restarted either, no case was judged by  *)
(* a file that another codex had left; after a fault that may happen.      *)
JudgedIsEvaluated ==
  ~overlap => /\ \A c \in Cases : state[c] = "judged" => file[c] = "judged"
              /\ faults = 0 => ~stale

(* When no batch is at work no case is left JUDGE_PENDING, also if a late  *)
(* callback made a case live again under a job, unless a restart or an     *)
(* error came (in a synchronous request, while cases were marked for a     *)
(* job, or while those of a failed job were settled) and nothing has been  *)
(* judged since: the next batch takes up, and the next job that fails      *)
(* settles, everything that was left.                                      *)
NothingLeftPending ==
  (\A b \in Batches : pc[b] = "idle") /\ ~stranded =>
    \A c \in Cases : state[c] # "judge_pending"

(* An UNVERIFIED case stays so: it is not judged, and no judge that runs   *)
(* when the callback comes turns it into JUDGED (docs/repository-map.md).  *)
UnverifiedIsKept ==
  [][\A c \in Cases : state[c] = "unverified" => state'[c] = "unverified"]_vars
=============================================================================
