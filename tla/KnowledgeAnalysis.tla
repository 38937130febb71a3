------------------------- MODULE KnowledgeAnalysis -------------------------
(***************************************************************************)
(* The analysis of sessions that are over (buyer/app/service.py,           *)
(* knowledge_analyzer.py): background tasks that take turns, the codex     *)
(* process of the one whose turn it is, and the files it leaves in the     *)
(* trace directory of its session for a later review.                      *)
(***************************************************************************)
EXTENDS Sequences

CONSTANT Analysed   \* sessions whose verdict is sent, and analysed once

Kinds == {"positive", "negative"}   \* of a candidate: NEGATIVE_KNOWLEDGE_KINDS or not
None == [candidates |-> {}, playbook |-> "none", outcome |-> "none"]

VARIABLES
  stage,     \* per session: where its task is
  outcome,   \* per session: outcome in its snapshot
  turn,      \* waiters of _post_session_analysis_semaphore and its holder, in order
  codex,     \* sessions whose codex process runs
  output,    \* per session: the temporary file codex writes its answer to
  artifact,  \* per session: knowledge-analysis.json
  report,    \* per session: status in knowledge-analysis-trace.json
  down,      \* observed: the process has stopped or been told to
  killed     \* observed: ... without a chance to clean up

knowledgeVars == <<stage, outcome, turn, codex, output, artifact, report, down, killed>>

Init ==
  /\ stage = [s \in Analysed |-> "none"] /\ outcome = [s \in Analysed |-> "none"]
  /\ turn = <<>> /\ codex = {} /\ output = [s \in Analysed |-> "none"]
  /\ artifact = [s \in Analysed |-> None] /\ report = [s \in Analysed |-> "none"]
  /\ down = FALSE /\ killed = FALSE

(* _schedule_post_session_analysis: an unverified session has none. *)
Schedule(s) ==
  /\ stage[s] = "none" /\ ~down
  /\ \E o \in {"completed", "failed"} : outcome' = [outcome EXCEPT ![s] = o]
  /\ stage' = [stage EXCEPT ![s] = "waits"] /\ turn' = Append(turn, s)
  /\ UNCHANGED <<codex, output, artifact, report, down, killed>>

(* The task whose turn it is ends: the finally clause of analyze, then the *)
(* semaphore.                                                              *)
Leaves(s, cleaned) ==
  /\ stage' = [stage EXCEPT ![s] = "over"]
  /\ turn' = Tail(turn)
  /\ output' = IF cleaned THEN [output EXCEPT ![s] = "none"] ELSE output

(* analyze up to the process: the prompt, the file for the answer.  Any of *)
(* it may raise, and without credentials or binary the report says so.     *)
Analyse(s) ==
  /\ turn # <<>> /\ Head(turn) = s /\ stage[s] = "waits"
  /\ \/ /\ stage' = [stage EXCEPT ![s] = "runs"] /\ codex' = codex \cup {s}
        /\ output' = [output EXCEPT ![s] = "empty"]
        /\ UNCHANGED <<turn, report>>
     \/ /\ \E r \in {"skipped", "failed"} : report' = [report EXCEPT ![s] = r]
        /\ Leaves(s, TRUE) /\ UNCHANGED codex
     \/ Leaves(s, TRUE) /\ UNCHANGED <<codex, report>>
  /\ UNCHANGED <<outcome, artifact, down, killed>>

(* -o: codex writes its answer, JSON or not. *)
CodexAnswers(s) ==
  /\ s \in codex /\ output[s] = "empty"
  /\ \E a \in {"json", "bad"} : output' = [output EXCEPT ![s] = a]
  /\ UNCHANGED <<stage, outcome, turn, codex, artifact, report, down, killed>>

(* Mutant: only the candidates of a failed session are looked through. *)
NormalizeCandidatesOnly(raw, o) ==
  [candidates |-> IF o = "completed" THEN raw.candidates ELSE raw.candidates \ {"positive"},
   playbook |-> IF raw.playbook THEN "draft" ELSE "none", outcome |-> o]

(* normalize_analysis_payload: whatever status the answer claims, it is a  *)
(* draft; a failed session gives no playbook and only negative knowledge.  *)
NormalizeAnalysisPayload(raw, o) ==
  [candidates |-> IF o = "completed" THEN raw.candidates ELSE raw.candidates \ {"positive"},
   playbook |-> IF o = "completed" /\ raw.playbook THEN "draft" ELSE "none", outcome |-> o]

(* A time limit (the process is killed and reaped), an exit code, or an    *)
(* answer that cannot be read.                                             *)
CodexFails(s) ==
  /\ s \in codex /\ codex' = codex \ {s}
  /\ Leaves(s, TRUE)
  /\ \/ report' = [report EXCEPT ![s] = "failed"]
     \/ UNCHANGED report                    \* writing a file raises
  /\ UNCHANGED <<outcome, artifact, down, killed>>

(* write_fixed_session_text_file replaces the artifact in one step. *)
WriteArtifact(s) ==
  /\ s \in codex /\ output[s] = "json" /\ codex' = codex \ {s}
  /\ \E cs \in SUBSET Kinds, pb \in BOOLEAN :
       artifact' = [artifact EXCEPT ![s] =
         NormalizeAnalysisPayload([candidates |-> cs, playbook |-> pb], outcome[s])]
  /\ stage' = [stage EXCEPT ![s] = "written"]
  /\ UNCHANGED <<outcome, turn, output, report, down, killed>>

(* write_analysis_trace; nothing is awaited between it and the artifact. *)
WriteTrace(s) ==
  /\ stage[s] = "written"
  /\ \/ report' = [report EXCEPT ![s] = "completed"]
     \/ UNCHANGED report                    \* it raises
  /\ Leaves(s, TRUE)
  /\ UNCHANGED <<outcome, codex, artifact, down, killed>>

(* shutdown_post_session_analysis: every task is cancelled, one that waits *)
(* for its turn as well; a process is killed and reaped.                   *)
Shutdown ==
  /\ ~down /\ \A s \in Analysed : stage[s] # "written"
  /\ down' = TRUE /\ codex' = {} /\ turn' = <<>>
  /\ output' = [s \in Analysed |-> "none"]
  /\ stage' = [s \in Analysed |-> IF stage[s] = "none" THEN "none" ELSE "over"]
  /\ UNCHANGED <<outcome, artifact, report, killed>>

Kill ==
  /\ ~down /\ down' = TRUE /\ killed' = TRUE /\ codex' = {} /\ turn' = <<>>
  /\ stage' = [s \in Analysed |-> IF stage[s] = "none" THEN "none" ELSE "over"]
  /\ UNCHANGED <<outcome, output, artifact, report>>

Next ==
  \/ \E s \in Analysed :
       \/ Schedule(s) \/ Analyse(s) \/ CodexAnswers(s) \/ CodexFails(s)
       \/ WriteArtifact(s) \/ WriteTrace(s)
  \/ Shutdown \/ Kill

-----------------------------------------------------------------------------
(* Properties *)

(* One codex analyses at a time and leaves nothing but its reports: what   *)
(* they call completed has an artifact, a failed or skipped analysis has   *)
(* none, and that of a failed session never proposes a path to follow.     *)
AnalysisIsDraft ==
  /\ \A s, t \in codex : s = t
  /\ \A s \in Analysed :
       /\ report[s] = "completed" => artifact[s] # None
       /\ report[s] \in {"failed", "skipped"} => artifact[s] = None
       /\ artifact[s].outcome = "failed" =>
            artifact[s].playbook = "none" /\ artifact[s].candidates \subseteq {"negative"}
       /\ output[s] # "none" => killed \/ stage[s] \in {"runs", "written"}
=============================================================================
