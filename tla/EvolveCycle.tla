---------------------------- MODULE EvolveCycle ----------------------------
(***************************************************************************)
(* One cycle of the evolve loop (scripts/evolve_buyer_loop.py): the        *)
(* commands run and continue, which may raise or be cut short anywhere,    *)
(* the artifacts they leave in the directory of the cycle, the candidate   *)
(* worktree that a patch command (tools/propose_buyer_patch.py) changes,   *)
(* and the eval services, which run, wait for an operator and judge on     *)
(* their own.  A step of a command ends where it writes an artifact that a *)
(* later command reads, or waits for somebody else.                        *)
(***************************************************************************)
EXTENDS Integers, FiniteSets

CONSTANTS
  MaxFaults,      \* bound: commands that raise or are killed
  MaxContinues,   \* bound: continue commands
  MaxAsks         \* bound: questions to the operator in an eval run

Phases == {"baseline", "candidate"}
Paths == {"allowed", "forbidden"}
(* A change of a file is at its path; "moved" is the move of a file from a *)
(* path that is not allowed to one that is.                                *)
Changes == Paths \cup {"moved"}
(* Of an eval result: failed or canceled, not judged in full, judged with  *)
(* all quality checks ok, with one not ok, or with a safety check not ok.  *)
Judged == {"good", "poor", "unsafe"}
Ends == {"failed", "partial"} \cup Judged
Verdicts == {"improved", "same", "worse", "inconclusive"}

VARIABLES
  pc, command, phase, got,  \* the command at work, and its eval result
  latest,       \* status in latest.json
  result,       \* per phase: eval-result.json; "operator" with _needs_operator
  action,       \* phase in operator-action.json
  meta,         \* candidate.json is there
  report,       \* the verdict in delta_report.json
  tree,         \* the worktree of the candidate
  run, judge,   \* per phase: the eval run, and what its judge came to
  patches,      \* observed: patch commands that were started
  cut,          \* observed: a command raised or was killed
  faults, continues, asks

local == <<pc, command, phase, got>>
artifacts == <<latest, result, action, meta, report>>
services == <<run, judge, asks>>
vars == <<local, artifacts, tree, services, patches, cut, faults, continues>>

NoTree == [there |-> FALSE, committed |-> {}, staged |-> {}, dirty |-> {}, touched |-> {}]

Init ==
  /\ pc = "new" /\ command = "run" /\ phase = "baseline" /\ got = "none"
  /\ latest = "none" /\ result = [p \in Phases |-> "none"] /\ action = "none"
  /\ meta = FALSE /\ report = "none" /\ tree = NoTree
  /\ run = [p \in Phases |-> "none"] /\ judge = [p \in Phases |-> "none"]
  /\ patches = 0 /\ cut = FALSE /\ faults = 0 /\ continues = 0 /\ asks = 0

At(p, c, ph, g) == pc' = p /\ command' = c /\ phase' = ph /\ got' = g
Goto(p) == pc' = p /\ UNCHANGED <<command, phase, got>>
Idle == At("idle", "none", "baseline", "none")

-----------------------------------------------------------------------------
(* The eval services *)

(* A late callback may make a run wait again while it is judged. *)
EvalRuns(p) ==
  /\ \/ run[p] = "going" /\ run' = [run EXCEPT ![p] = "finished"] /\ UNCHANGED asks
     \/ run[p] = "going" /\ run' = [run EXCEPT ![p] = "failed"] /\ UNCHANGED asks
     \/ /\ run[p] = "going" \/ (run[p] = "finished" /\ judge[p] = "pending")
        /\ asks < MaxAsks /\ asks' = asks + 1
        /\ run' = [run EXCEPT ![p] = "waiting"]
     \/ run[p] = "waiting" /\ run' = [run EXCEPT ![p] = "going"] /\ UNCHANGED asks
  /\ UNCHANGED <<local, artifacts, tree, judge, patches, cut, faults, continues>>

EvalJudges(p) ==
  /\ judge[p] = "pending" /\ \E r \in Ends : judge' = [judge EXCEPT ![p] = r]
  /\ UNCHANGED <<local, artifacts, tree, run, asks, patches, cut, faults, continues>>

-----------------------------------------------------------------------------
(* run and continue *)

(* run_cycle: cycle.json and latest.json. *)
RunCycle ==
  /\ pc = "new" /\ Goto("create") /\ latest' = "running"
  /\ UNCHANGED <<result, action, meta, report, tree, services, patches, cut, faults, continues>>

(* POST /runs, after the health check. *)
CreateRun ==
  /\ pc = "create" /\ Goto("wait") /\ run' = [run EXCEPT ![phase] = "going"]
  /\ UNCHANGED <<artifacts, tree, judge, asks, patches, cut, faults, continues>>

(* start_judge: cases with a valid evaluation are not judged again, and an *)
(* older evaluation that failed is there until the new one is written.     *)
Judging(j) ==
  CASE j \in {"none", "pending"} -> {"pending"}
    [] j \in Judged -> {j}
    [] OTHER -> {"pending", j}

(* wait_run_terminal: a run that has finished is handed to the judge. *)
WaitRun ==
  /\ pc = "wait" /\ run[phase] \in {"waiting", "failed", "finished"}
  /\ CASE run[phase] = "waiting" -> At("store", command, phase, "operator") /\ UNCHANGED judge
       [] run[phase] = "failed" -> At("store", command, phase, "failed") /\ UNCHANGED judge
       [] OTHER -> /\ Goto("judging")
                   /\ \E j \in Judging(judge[phase]) : judge' = [judge EXCEPT ![phase] = j]
  /\ UNCHANGED <<artifacts, tree, run, asks, patches, cut, faults, continues>>

WaitJudged ==
  /\ pc = "judging"
  /\ CASE run[phase] = "waiting" -> At("store", command, phase, "operator")
       [] run[phase] = "failed" -> At("store", command, phase, "failed")
       [] OTHER -> judge[phase] \in Ends /\ At("store", command, phase, judge[phase])
  /\ UNCHANGED <<artifacts, tree, services, patches, cut, faults, continues>>

(* eval-result.json; a run that waits again after continue has it already. *)
StoreResult ==
  /\ pc = "store" /\ result' = [result EXCEPT ![phase] = got]
  /\ Goto(CASE got = "operator" -> "handoff"
            [] phase = "baseline" /\ got \in Judged -> "worktree"
            [] OTHER -> "report")
  /\ UNCHANGED <<latest, action, meta, report, tree, services, patches, cut, faults, continues>>

(* Mutant: the first handoff names the phase for good. *)
HandoffKeepsPhase ==
  /\ pc = "handoff" /\ Goto("latest") /\ action' = IF action = "none" THEN phase ELSE action
  /\ UNCHANGED <<latest, result, meta, report, tree, services, patches, cut, faults, continues>>

(* _finish_operator_action *)
Handoff ==
  /\ pc = "handoff" /\ Goto("latest") /\ action' = phase
  /\ UNCHANGED <<latest, result, meta, report, tree, services, patches, cut, faults, continues>>

WriteLatest ==
  /\ pc = "latest" /\ Idle
  /\ latest' = IF got = "operator" THEN "needs_operator" ELSE report
  /\ UNCHANGED <<result, action, meta, report, tree, services, patches, cut, faults, continues>>

(* Mutant: a candidate run that was not judged in full is compared.        *)
DeltaOfPartial(b, c) ==
  CASE b \notin Judged \/ c = "none" -> {"inconclusive"}
    [] c \in {"failed", "unsafe"} -> {"worse"}
    [] b = "good" /\ c = "poor" -> {"worse"}
    [] b # "good" /\ c = "good" -> {"improved"}
    [] OTHER -> {"improved", "same", "worse"}

(* compute_delta_report, _verdict: efficiency may tell two good runs apart.*)
Delta(b, c) ==
  CASE b \notin Judged \/ c \in {"none", "partial"} -> {"inconclusive"}
    [] c \in {"failed", "unsafe"} -> {"worse"}
    [] b = "good" /\ c = "poor" -> {"worse"}
    [] b # "good" /\ c = "good" -> {"improved"}
    [] OTHER -> {"improved", "same", "worse"}
FinishReport ==
  /\ pc = "report" /\ Goto("latest")
  /\ report' \in Delta(result["baseline"], IF phase = "candidate" THEN got ELSE "none")
  /\ UNCHANGED <<latest, result, action, meta, tree, services, patches, cut, faults, continues>>

-----------------------------------------------------------------------------
(* create_candidate *)

(* git worktree add -b; a worktree that is there is an error. *)
AddWorktree ==
  /\ pc = "worktree" /\ ~tree.there /\ Goto("patch")
  /\ tree' = [NoTree EXCEPT !.there = TRUE]
  /\ UNCHANGED <<artifacts, services, patches, cut, faults, continues>>

(* The patch command leaves commits, staged and other changes, and a       *)
(* manifest of its own; without any of them there is no candidate.  A move *)
(* that is not staged is a change at both paths.                           *)
Patch ==
  /\ pc = "patch" /\ Goto("commit") /\ patches' = patches + 1
  /\ \E c, s \in SUBSET Changes, d, t \in SUBSET Paths :
       tree' = [tree EXCEPT !.committed = c, !.staged = s, !.dirty = d, !.touched = t]
  /\ UNCHANGED <<artifacts, services, cut, faults, continues>>

(* git diff --name-only, of commits and of the index: it detects renames   *)
(* and names a file that was moved by its new path only.                   *)
Named(changes) == {IF c = "moved" THEN "allowed" ELSE c : c \in changes}

(* Mutant: what the patch command staged is not looked at. *)
ChangedUnstaged == Named(tree.committed) \cup tree.dirty \cup tree.touched

(* The paths that are checked; git ls-files, for what is not staged, knows *)
(* of no renames.                                                          *)
Changed == Named(tree.committed) \cup tree.dirty \cup Named(tree.staged) \cup tree.touched

(* Every path that is named is in scope; either the command has committed  *)
(* and left nothing, or the loop commits.                                  *)
Uncommitted == tree.dirty \cup tree.staged
Accepted ==
  /\ Changed # {} /\ Changed \subseteq {"allowed"}
  /\ (tree.committed = {}) = (Uncommitted # {})
Commit ==
  /\ pc = "commit" /\ Accepted
  /\ tree' = [tree EXCEPT !.committed = @ \cup Uncommitted, !.dirty = {}, !.staged = {}]
  /\ Goto("meta")
  /\ UNCHANGED <<artifacts, services, patches, cut, faults, continues>>

(* candidate.json, then the candidate is prepared and its service healthy; *)
(* with --skip-candidate-eval, or if the cases there are not those of the  *)
(* baseline, nothing is compared.                                          *)
WriteCandidate ==
  /\ pc = "meta" /\ meta' = TRUE
  /\ At("create", command, "candidate", "none") \/ Goto("report")
  /\ UNCHANGED <<latest, result, action, report, tree, services, patches, cut, faults, continues>>

(* continue_cycle *)
Resumes ==
  CASE action \in {"candidate", "none"} /\ meta /\ result["candidate"] = "operator" -> "candidate"
    [] result["baseline"] = "operator" -> "baseline"
    [] OTHER -> "none"
Continue ==
  /\ pc = "idle" /\ continues < MaxContinues /\ continues' = continues + 1
  /\ IF Resumes = "none" THEN UNCHANGED local
     ELSE At("wait", "continue", Resumes, "none")
  /\ UNCHANGED <<artifacts, tree, services, patches, cut, faults>>

(* An EvolveError: run leaves the status error, continue leaves latest.json*)
(* as it was.  A patch that is refused always raises.                      *)
Refused ==
  \/ pc = "commit" /\ ~Accepted
  \/ pc = "worktree" /\ tree.there
Raise ==
  /\ pc \notin {"new", "idle"} /\ Idle /\ cut' = TRUE
  /\ \/ Refused /\ UNCHANGED faults
     \/ faults < MaxFaults /\ faults' = faults + 1
  /\ latest' = IF command = "run" THEN "error" ELSE latest
  /\ UNCHANGED <<result, action, meta, report, tree, services, patches, continues>>

Kill ==
  /\ pc \notin {"new", "idle"} /\ Idle /\ cut' = TRUE
  /\ faults < MaxFaults /\ faults' = faults + 1
  /\ UNCHANGED <<artifacts, tree, services, patches, continues>>

Next ==
  \/ RunCycle \/ CreateRun \/ WaitRun \/ WaitJudged \/ StoreResult \/ Handoff \/ WriteLatest
  \/ FinishReport \/ AddWorktree \/ Patch \/ Commit \/ WriteCandidate
  \/ Continue \/ Raise \/ Kill
  \/ \E p \in Phases : EvalRuns(p) \/ EvalJudges(p)

Spec == Init /\ [][Next]_vars

-----------------------------------------------------------------------------
(* Properties *)

(* What latest.json hands to the operator, continue takes up again: the    *)
(* run of the phase that waits, unless a command was cut short since.      *)
HandoffIsResumed ==
  pc = "idle" /\ latest = "needs_operator" /\ ~cut =>
    Resumes = action /\ run[Resumes] # "none"

(* However often the cycle is continued, and wherever a command is killed, *)
(* a candidate that was recorded is committed, in one commit or several,   *)
(* with nothing uncommitted beside it, and was patched once, on a baseline *)
(* that was judged in full.  Its commits change nothing outside of the     *)
(* allowed paths, except that a file may have been moved from there into   *)
(* them, which the names that git gives do not show.                       *)
CandidateIsInScope ==
  /\ patches <= 1
  /\ meta => /\ tree.committed # {} /\ tree.committed \subseteq {"allowed", "moved"}
             /\ tree.dirty \cup tree.staged = {}
             /\ result["baseline"] \in Judged

(* A candidate is called improved only if its own run was judged in full   *)
(* and is safe, and the report is about the results in the directory.      *)
ImprovedIsEarned ==
  report = "improved" =>
    /\ result["candidate"] \in {"good", "poor"} /\ result["baseline"] \in Judged
    /\ judge["candidate"] = result["candidate"]
=============================================================================
