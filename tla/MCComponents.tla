---------------------------- MODULE MCComponents ----------------------------
(***************************************************************************)
(* Instances for TLC of the components that are modelled each by itself.   *)
(* They share no state: in a behaviour one of them moves, the one that     *)
(* "part" names, and the variables of the others have no value.  The       *)
(* tables of SessionRepository are there in every behaviour: KeepsRow      *)
(* speaks of all of them.                                                  *)
(***************************************************************************)
EXTENDS SessionRepository, TLC

CONSTANTS
  Parts,                                           \* the components to be checked
  Pipes, MaxItems, BatchSize, MaxProbes, MaxLost,  \* AgentStep
  Envelopes, Pages, QueueSize,                     \* CallbackStore
  Retries,                                         \* AuthFlow
  MaxTries, MaxContexts,                           \* CdpCommand
  Analysed,                                        \* KnowledgeAnalysis
  N, Batches,                                      \* EvalJudge
  MaxContinues, MaxCycleFaults                     \* EvolveCycle

ASSUME ComponentsAssumption ==
  /\ QueueSize \in Nat \ {0} /\ MaxContexts \in Nat \ {0}
  /\ Retries \in Nat /\ N \in Nat /\ "none" \notin Pipes

VARIABLES
  part,   \* the component that moves
  stepPc, stepOutcome, probes, stopped, written, upto, published,
  reader, pending, sequence, timer, lockq, sending, outbox, dropped,
  lost,
  bucket, queue, joined,
  authPc, given, shop, external, summary, cookies, hint, script,
  spoilt,
  cmd, cdpPc, pages, picked, moved, tries, late, open, acted, done, log, code,
  merchant, order, evidence, told,
  stage, outcome, turn, codex, output, artifact, traced, down, killed,
  state, file, live, batchPc, kind, skip, todo, judgeResult,
  wrote, judgeFaults, overlap, stranded, stale,
  pc, command, phase, got, latest, result, action, meta, report, tree,
  run, judge, patches, cut, cycleFaults, continues, asks

Step == INSTANCE AgentStep WITH pc <- stepPc, outcome <- stepOutcome
Store == INSTANCE CallbackStore
Auth == INSTANCE AuthFlow
Cdp == INSTANCE CdpCommand
Pay == INSTANCE PaymentVerifier
Know == INSTANCE KnowledgeAnalysis WITH report <- traced
Judge == INSTANCE EvalJudge WITH pc <- batchPc, result <- judgeResult, faults <- judgeFaults
Cycle == INSTANCE EvolveCycle WITH MaxFaults <- MaxCycleFaults, faults <- cycleFaults

stepVars == <<stepPc, stepOutcome, probes, stopped, written, upto, published,
    reader, pending, sequence, timer, lockq, sending, outbox, dropped,
    lost>>
storeVars == <<bucket, queue, joined>>
authVars == <<authPc, given, shop, external, summary, cookies, hint, script,
    spoilt>>
cdpVars == <<cmd, cdpPc, pages, picked, moved, tries, late, open, acted, done, log, code>>
payVars == <<merchant, order, evidence, told>>
knowVars == <<stage, outcome, turn, codex, output, artifact, traced, down, killed>>
judgeVars == <<state, file, live, batchPc, kind, skip, todo, judgeResult,
    wrote, judgeFaults, overlap, stranded, stale>>
cycleVars == <<pc, command, phase, got, latest, result, action, meta, report, tree,
    run, judge, patches, cut, cycleFaults, continues, asks>>

PartsInit ==
  /\ part \in Parts
  /\ Init
  /\ IF part = "step" THEN Step!Init
     ELSE /\ stepPc = "off" /\ stepOutcome = "off" /\ probes = "off"
          /\ stopped = "off" /\ written = "off" /\ upto = "off"
          /\ published = "off" /\ reader = "off" /\ pending = "off"
          /\ sequence = "off" /\ timer = "off" /\ lockq = "off"
          /\ sending = "off" /\ outbox = "off" /\ dropped = "off"
          /\ lost = "off"
  /\ IF part = "store" THEN Store!StoreInit
     ELSE /\ bucket = "off" /\ queue = "off" /\ joined = "off"
  /\ IF part = "auth" THEN Auth!Init
     ELSE /\ authPc = "off" /\ given = "off" /\ shop = "off"
          /\ external = "off" /\ summary = "off" /\ cookies = "off"
          /\ hint = "off" /\ script = "off" /\ spoilt = "off"
  /\ IF part = "cdp" THEN Cdp!Init
     ELSE /\ cmd = "off" /\ cdpPc = "off" /\ pages = "off" /\ picked = "off"
          /\ moved = "off" /\ tries = "off" /\ late = "off" /\ open = "off" /\ acted = "off"
          /\ done = "off" /\ log = "off" /\ code = "off"
  /\ IF part = "payment" THEN Pay!Init
     ELSE /\ merchant = "off" /\ order = "off" /\ evidence = "off"
          /\ told = "off"
  /\ IF part = "knowledge" THEN Know!Init
     ELSE /\ stage = "off" /\ outcome = "off" /\ turn = "off" /\ codex = "off"
          /\ output = "off" /\ artifact = "off" /\ traced = "off"
          /\ down = "off" /\ killed = "off"
  /\ IF part = "judge" THEN Judge!Init
     ELSE /\ state = "off" /\ file = "off" /\ live = "off" /\ batchPc = "off"
          /\ kind = "off" /\ skip = "off" /\ todo = "off"
          /\ judgeResult = "off" /\ judgeFaults = "off" /\ overlap = "off"
          /\ wrote = "off" /\ stranded = "off" /\ stale = "off"
  /\ IF part = "cycle" THEN Cycle!Init
     ELSE /\ pc = "off" /\ command = "off" /\ phase = "off" /\ got = "off"
          /\ latest = "off" /\ result = "off" /\ action = "off" /\ meta = "off"
          /\ report = "off" /\ tree = "off" /\ run = "off" /\ judge = "off"
          /\ patches = "off" /\ cut = "off" /\ cycleFaults = "off"
          /\ continues = "off" /\ asks = "off"

PartsNext ==
  \/ /\ part = "repository" /\ Next
     /\ UNCHANGED <<part, stepVars, storeVars, authVars, cdpVars, payVars,
                    knowVars, judgeVars, cycleVars>>
  \/ /\ part = "step" /\ Step!Next
     /\ UNCHANGED <<part, vars, storeVars, authVars, cdpVars, payVars,
                    knowVars, judgeVars, cycleVars>>
  \/ /\ part = "store" /\ Store!StoreNext
     /\ UNCHANGED <<part, vars, stepVars, authVars, cdpVars, payVars,
                    knowVars, judgeVars, cycleVars>>
  \/ /\ part = "auth" /\ Auth!Next
     /\ UNCHANGED <<part, vars, stepVars, storeVars, cdpVars, payVars,
                    knowVars, judgeVars, cycleVars>>
  \/ /\ part = "cdp" /\ Cdp!Next
     /\ UNCHANGED <<part, vars, stepVars, storeVars, authVars, payVars,
                    knowVars, judgeVars, cycleVars>>
  \/ /\ part = "payment" /\ Pay!Next
     /\ UNCHANGED <<part, vars, stepVars, storeVars, authVars, cdpVars,
                    knowVars, judgeVars, cycleVars>>
  \/ /\ part = "knowledge" /\ Know!Next
     /\ UNCHANGED <<part, vars, stepVars, storeVars, authVars, cdpVars,
                    payVars, judgeVars, cycleVars>>
  \/ /\ part = "judge" /\ Judge!Next
     /\ UNCHANGED <<part, vars, stepVars, storeVars, authVars, cdpVars,
                    payVars, knowVars, cycleVars>>
  \/ /\ part = "cycle" /\ Cycle!Next
     /\ UNCHANGED <<part, vars, stepVars, storeVars, authVars, cdpVars,
                    payVars, knowVars, judgeVars>>

PartsSpec ==
  PartsInit /\ [][PartsNext]_<<part, vars, stepVars, storeVars, authVars, cdpVars, payVars,
                             knowVars, judgeVars, cycleVars>>

(* Batches differ in their name only.                                      *)
BatchSymmetry == Permutations(Batches)

-----------------------------------------------------------------------------
(* Properties: those of the components, stated and explained there; with   *)
(* them go MarksAreKept and KeepsRow of SessionRepository.                 *)

(* Of AgentStep. *)
(* What codex printed is in one batch, once. *)
EachItemOnce == part = "step" => Step!EachItemOnce
(* Batches reach the outbox in their order. *)
OutboxInSequence == part = "step" => Step!OutboxInSequence
(* No batch follows agent_step_finished. *)
FinishedIsLast == part = "step" => Step!FinishedIsLast

(* Of CallbackStore. *)
(* A page that lags loses its oldest events only. *)
OwedTheNewest == part = "store" => Store!OwedTheNewest

(* Of AuthFlow. *)
(* The file with the cookies does not outlive the script. *)
CookiesAreRemoved == part = "auth" => Auth!CookiesAreRemoved
(* The summary of the authorisation tells what was done. *)
SummaryIsTrue == part = "auth" => Auth!SummaryIsTrue

(* Of CdpCommand. *)
(* A command acts on the page once at most, and claims nothing it has not done. *)
ActsOnce == part = "cdp" => Cdp!ActsOnce

(* Of PaymentVerifier. *)
(* payment_ready is sent exactly for what the policy proves. *)
ToldWhatIsProven == part = "payment" => Pay!ToldWhatIsProven

(* Of KnowledgeAnalysis. *)
(* Analyses take turns and leave drafts that fit their session. *)
AnalysisIsDraft == part = "knowledge" => Know!AnalysisIsDraft

(* Of EvalJudge. *)
(* A JUDGED case has its evaluation, and by its own codex if nothing failed. *)
JudgedIsEvaluated == part = "judge" => Judge!JudgedIsEvaluated
(* No case stays JUDGE_PENDING when no batch is at work, but after an error. *)
NothingLeftPending == part = "judge" => Judge!NothingLeftPending

(* Of EvolveCycle. *)
(* continue takes up what was handed to the operator. *)
HandoffIsResumed == part = "cycle" => Cycle!HandoffIsResumed
(* A recorded candidate is one patch, named within the allowed paths. *)
CandidateIsInScope == part = "cycle" => Cycle!CandidateIsInScope
(* "improved" rests on a run that was judged in full and is safe. *)
ImprovedIsEarned == part = "cycle" => Cycle!ImprovedIsEarned
=============================================================================
