-------------------------- MODULE ComponentProofs --------------------------
(***************************************************************************)
(* Theorems about the components that MCComponents sets side by side, for  *)
(* every value of their constants.  In a behaviour one component moves, so *)
(* an invariant of it has to be kept by its own steps only.                *)
(***************************************************************************)
EXTENDS MCComponents, FiniteSetTheorems, WellFoundedInduction, TLAPS

allVars == <<part, vars, stepVars, storeVars, authVars, cdpVars, payVars, knowVars,
             judgeVars, cycleVars>>

(* What the others do leaves a component alone.                            *)
LEMMA CycleMoves ==
  ASSUME [PartsNext]_allVars, part = "cycle"
  PROVE  part' = part /\ (Cycle!Next \/ UNCHANGED cycleVars)
  BY DEF PartsNext, allVars

-----------------------------------------------------------------------------
(* EvolveCycle *)

TreeType == [there : BOOLEAN, committed : SUBSET Cycle!Changes, staged : SUBSET Cycle!Changes,
             dirty : SUBSET Cycle!Paths, touched : SUBSET Cycle!Paths]
CycleType ==
  /\ pc \in {"new", "create", "wait", "judging", "store", "handoff", "latest", "report",
             "worktree", "patch", "commit", "meta", "idle"}
  /\ phase \in Cycle!Phases
  /\ got \in {"none", "operator"} \cup Cycle!Ends
  /\ latest \in {"none", "running", "error", "needs_operator"} \cup Cycle!Verdicts
  /\ result \in [Cycle!Phases -> {"none", "operator"} \cup Cycle!Ends]
  /\ action \in {"none"} \cup Cycle!Phases
  /\ report \in {"none"} \cup Cycle!Verdicts
  /\ tree \in TreeType
  /\ run \in [Cycle!Phases -> {"none", "going", "waiting", "finished", "failed"}]
  /\ judge \in [Cycle!Phases -> {"none", "pending"} \cup Cycle!Ends]
  /\ patches \in Nat /\ meta \in BOOLEAN /\ cut \in BOOLEAN

(* The worktree: patched once, recorded when it is clean and in scope.     *)
CleanTree ==
  /\ tree.committed # {} /\ tree.committed \subseteq {"allowed", "moved"}
  /\ tree.dirty \cup tree.staged = {}
TreeInv ==
  /\ patches <= 1
  /\ ~tree.there \/ pc = "patch" => patches = 0
  /\ pc = "patch" => tree.there
  /\ pc = "meta" \/ meta => CleanTree
  /\ pc \in {"worktree", "patch", "commit", "meta"} =>
       ~meta /\ phase = "baseline" /\ got \in Cycle!Judged
  /\ meta \/ pc \in {"worktree", "patch", "commit", "meta"} =>
       result["baseline"] \in Cycle!Judged
  /\ pc \in {"new", "create", "wait", "judging", "store"} => (meta <=> phase = "candidate")
  /\ phase = "candidate" => meta

(* What a command holds of a run, and what is stored of it, is what its    *)
(* judge said; a report of an improvement ends the cycle.                  *)
ResultInv ==
  /\ pc \in {"store", "report"} /\ phase = "candidate" /\ got \in Cycle!Judged =>
       judge["candidate"] = got
  /\ pc = "report" /\ phase = "candidate" => got = result["candidate"] /\ got # "operator"
  /\ report = "improved" =>
       /\ pc \in {"latest", "idle"} /\ meta
       /\ result["candidate"] \in {"good", "poor"}
       /\ judge["candidate"] = result["candidate"]

(* What is handed to the operator names a run that waits for him.          *)
HandoffInv ==
  /\ \A p \in Cycle!Phases : result[p] # "none" => run[p] # "none"
  /\ pc \in {"wait", "judging", "store", "handoff"} => run[phase] # "none"
  /\ pc = "report" => got # "operator"
  /\ pc \in {"handoff", "latest"} /\ got = "operator" => result[phase] = "operator"
  /\ pc = "handoff" => got = "operator"
  /\ pc = "latest" => IF got = "operator" THEN action = phase ELSE report \in Cycle!Verdicts
  /\ pc = "idle" /\ latest = "needs_operator" /\ ~cut =>
       /\ action \in Cycle!Phases /\ result[action] = "operator"
       /\ action = "candidate" => meta

CycleInv == CycleType /\ TreeInv /\ ResultInv /\ HandoffInv

(* A new directory of a cycle satisfies the invariant.                     *)
LEMMA CycleInit == Cycle!Init => CycleInv
<1>. SUFFICES ASSUME Cycle!Init PROVE CycleInv
  OBVIOUS
<1>. USE DEF Cycle!Init, Cycle!Phases, Cycle!Verdicts, Cycle!Judged, Cycle!Ends
<1>1. CycleType
  BY DEF CycleType, TreeType, Cycle!NoTree, Cycle!Paths, Cycle!Changes
<1>2. TreeInv /\ ResultInv /\ HandoffInv
  BY DEF TreeInv, ResultInv, HandoffInv, Cycle!NoTree
<1>. QED
  BY <1>1, <1>2 DEF CycleInv

(* No command of the loop breaks it, nor does killing one at any step.     *)
LEMMA CycleStep == CycleInv /\ Cycle!Next => CycleInv'
<1>. SUFFICES ASSUME CycleInv, Cycle!Next PROVE CycleInv'
  OBVIOUS
<1>. USE DEF CycleInv, CycleType, TreeInv, ResultInv, HandoffInv, CleanTree, Cycle!Phases,
             Cycle!Paths, Cycle!Changes, Cycle!Verdicts, Cycle!Judged, Cycle!Ends, Cycle!At, Cycle!Goto, Cycle!Idle,
             Cycle!local, Cycle!artifacts, Cycle!services
<1>1. CASE Cycle!RunCycle
  BY <1>1 DEF Cycle!RunCycle
<1>2. CASE Cycle!CreateRun
  BY <1>2 DEF Cycle!CreateRun
<1>3. CASE Cycle!WaitRun
  BY <1>3 DEF Cycle!WaitRun, Cycle!Judging
<1>4. CASE Cycle!WaitJudged
  BY <1>4 DEF Cycle!WaitJudged
<1>5. CASE Cycle!StoreResult
  BY <1>5 DEF Cycle!StoreResult
<1>6. CASE Cycle!Handoff
  BY <1>6 DEF Cycle!Handoff
<1>7. CASE Cycle!WriteLatest
  BY <1>7 DEF Cycle!WriteLatest
<1>8. CASE Cycle!FinishReport
  BY <1>8 DEF Cycle!FinishReport, Cycle!Delta
<1>9. CASE Cycle!AddWorktree
  <2>1. /\ tree' \in TreeType
        /\ tree'.there
    BY <1>9 DEF Cycle!AddWorktree, Cycle!NoTree, TreeType
  <2>. QED
    BY <1>9, <2>1 DEF Cycle!AddWorktree
<1>10. CASE Cycle!Patch
  <2>1. /\ tree' \in TreeType
        /\ tree'.there = tree.there
    BY <1>10, ZenonT(60) DEF Cycle!Patch, TreeType
  <2>. QED
    BY <1>10, <2>1 DEF Cycle!Patch
<1>11. CASE Cycle!Commit
  <2>1. /\ tree' \in TreeType
        /\ tree'.there = tree.there
        /\ tree'.committed = tree.committed \cup Cycle!Uncommitted
        /\ tree'.dirty = {} /\ tree'.staged = {}
    BY <1>11 DEF Cycle!Commit, TreeType, Cycle!Uncommitted
  <2>2. tree'.committed # {} /\ tree'.committed \subseteq {"allowed", "moved"}
    <3>1. /\ tree.committed \subseteq Cycle!Changes /\ tree.staged \subseteq Cycle!Changes
          /\ tree.dirty \subseteq Cycle!Paths
      BY DEF TreeType
    <3>2. "forbidden" \notin Cycle!Named(tree.committed) \cup tree.dirty \cup Cycle!Named(tree.staged)
      BY <1>11 DEF Cycle!Commit, Cycle!Accepted, Cycle!Changed
    <3>3. "forbidden" \notin tree.committed \cup Cycle!Uncommitted
      BY <3>2 DEF Cycle!Named, Cycle!Uncommitted
    <3>4. tree.committed \cup Cycle!Uncommitted # {}
      BY <1>11 DEF Cycle!Commit, Cycle!Accepted, Cycle!Uncommitted
    <3>. QED
      BY <2>1, <3>1, <3>3, <3>4 DEF Cycle!Uncommitted
  <2>. QED
    BY <1>11, <2>1, <2>2 DEF Cycle!Commit
<1>12. CASE Cycle!WriteCandidate
  BY <1>12 DEF Cycle!WriteCandidate
<1>13. CASE Cycle!Continue
  BY <1>13 DEF Cycle!Continue, Cycle!Resumes
<1>14. CASE Cycle!Raise
  BY <1>14 DEF Cycle!Raise, Cycle!Refused
<1>15. CASE Cycle!Kill
  BY <1>15 DEF Cycle!Kill
<1>16. ASSUME NEW p \in Cycle!Phases, Cycle!EvalRuns(p) PROVE CycleInv'
  BY <1>16 DEF Cycle!EvalRuns
<1>17. ASSUME NEW p \in Cycle!Phases, Cycle!EvalJudges(p) PROVE CycleInv'
  BY <1>17 DEF Cycle!EvalJudges
<1>. QED
  BY <1>1, <1>2, <1>3, <1>4, <1>5, <1>6, <1>7, <1>8, <1>9, <1>10, <1>11, <1>12, <1>13, <1>14,
     <1>15, <1>16, <1>17 DEF Cycle!Next

-----------------------------------------------------------------------------
(* AuthFlow *)

Reasons == {"none", "auth_not_provided", "auth_external_loaded", "auth_provider_not_supported",
            "auth_domain_not_in_allowlist", "auth_inline_invalid_payload", "auth_ok",
            "auth_failed_invalid_session", "auth_failed_payload", "auth_failed_redirect_loop",
            "auth_refresh_requested"} \cup Auth!Answers

SummaryType == [mode : {"guest", "sberid"}, path : {"guest", "script", "heuristic"},
                reason : Reasons, attempts : {0, 1}, prepared : BOOLEAN]
AuthType ==
  /\ authPc \in {"resolve", "store", "check", "script", "endpoint", "process", "hint", "over", "raised"}
  /\ given \in {"none", "sberid", "invalid", "other"} /\ external \in -1..(Retries + 1)
  /\ summary \in SummaryType
  /\ script \in {"none", "completed", "failed"} /\ hint \in BOOLEAN

(* What the summary says so far, by the place of the flow.                 *)
PathInv ==
  /\ authPc \in {"resolve", "store", "check", "script", "endpoint", "process"} =>
       script = "none" /\ ~hint /\ ~summary.prepared /\ summary.path = "guest"
  /\ authPc \in {"store", "check", "script", "endpoint", "process", "hint"} =>
       summary.reason \notin Auth!Answers
  /\ authPc = "store" => given = "none"
  /\ authPc \in {"resolve", "store", "check"} => summary.mode = "guest"
  /\ authPc \in {"script", "endpoint", "process", "hint"} => summary.mode = "sberid"
  /\ authPc = "resolve" => external <= Retries /\ summary.reason = "none"
  /\ authPc = "hint" =>
       /\ summary.path = "heuristic" /\ script # "none" /\ ~hint /\ ~summary.prepared
       /\ ~(script = "completed" /\ summary.reason = "auth_ok")

AuthInv == AuthType /\ PathInv /\ Auth!SummaryIsTrue

(* In a behaviour of the authorisation only its own steps are taken.       *)
LEMMA AuthMoves ==
  ASSUME [PartsNext]_allVars, part = "auth"
  PROVE  part' = part /\ (Auth!Next \/ UNCHANGED authVars)
  BY DEF PartsNext, allVars

(* Nothing is resolved yet, and no file is written.                        *)
LEMMA AuthInit == Auth!Init => AuthInv
<1>. SUFFICES ASSUME Auth!Init PROVE AuthInv
  OBVIOUS
<1>1. /\ summary \in SummaryType
      /\ summary.mode = "guest" /\ summary.path = "guest" /\ summary.reason = "none" /\ ~summary.prepared
  BY DEF Auth!Init, SummaryType, Reasons
<1>2. AuthType
  <2>1. hint \in BOOLEAN /\ script = "none" /\ authPc = "resolve"
    BY Zenon DEF Auth!Init
  <2>2. external \in -1..(Retries + 1)
    BY ComponentsAssumption DEF ComponentsAssumption, Auth!Init
  <2>. QED
    BY <1>1, <2>1, <2>2 DEF Auth!Init, AuthType
<1>3. PathInv
  BY <1>1, ComponentsAssumption DEF ComponentsAssumption, Auth!Init, PathInv
<1>4. Auth!SummaryIsTrue
  BY DEF Auth!Init, Auth!SummaryIsTrue
<1>. QED
  BY <1>2, <1>3, <1>4 DEF AuthInv

(* What the flow writes into its summary.                                  *)
LEMMA GuestSays ==
  ASSUME AuthType, NEW r \in Reasons, Auth!Guest(r)
  PROVE  /\ summary' \in SummaryType /\ authPc' = "over"
         /\ summary'.mode = "guest" /\ summary'.path = "guest" /\ summary'.reason = r
         /\ summary'.prepared = summary.prepared
  BY DEF AuthType, SummaryType, Auth!Guest

(* The summary that an attempt without a script, or before it, leaves.     *)
LEMMA FirstAttempt ==
  ASSUME AuthType, NEW m \in {"guest", "sberid"}, NEW r \in Reasons,
         \/ m = summary.mode /\ summary' = [summary EXCEPT !.reason = r, !.attempts = 1]
         \/ r = summary.reason /\ summary' = [summary EXCEPT !.mode = m, !.attempts = 1]
  PROVE  /\ summary' \in SummaryType /\ summary'.mode = m /\ summary'.path = summary.path
         /\ summary'.prepared = summary.prepared /\ summary'.reason = r
  BY DEF AuthType, SummaryType

(* How a script ends decides the summary and the next step.                *)
LEMMA EndsSays ==
  ASSUME AuthType, NEW how \in {"completed", "failed"}, NEW r \in Reasons, NEW b \in BOOLEAN,
         Auth!Ends(how, r, b)
  PROVE  /\ summary' \in SummaryType /\ summary'.mode = summary.mode /\ summary'.reason = r
         /\ script' = how
         /\ IF how = "completed" /\ r = "auth_ok"
            THEN authPc' = "over" /\ summary'.path = "script"
            ELSE /\ authPc' = "hint" /\ summary'.path = "heuristic"
                 /\ summary'.prepared = summary.prepared
  BY DEF AuthType, SummaryType, Auth!Ends

(* Resolving, the cookies API, the script and its retries keep it.         *)
LEMMA AuthStep == AuthInv /\ Auth!Next => AuthInv'
<1>. SUFFICES ASSUME AuthInv, Auth!Next PROVE AuthInv'
  OBVIOUS
<1>. Retries \in Nat
  BY ComponentsAssumption DEF ComponentsAssumption
<1>. USE DEF AuthInv, AuthType, PathInv, Auth!SummaryIsTrue, Auth!Answers,
             Reasons
<1>1. CASE Auth!Inline
  BY <1>1 DEF Auth!Inline
<1>2. CASE Auth!NoClient
  <2>1. PICK r \in {"auth_not_provided", "auth_external_unavailable"} :
          Auth!Guest(r) /\ (r = "auth_external_unavailable" => external = 0)
    BY <1>2 DEF Auth!NoClient
  <2>2. r \in Reasons
    OBVIOUS
  <2>. QED
    BY <1>2, <2>1, <2>2, GuestSays DEF Auth!NoClient
<1>3. CASE Auth!Fetch
  <2>1. CASE authPc' = "store"
    <3>1. /\ summary' \in SummaryType /\ summary'.mode = "guest" /\ summary'.path = "guest"
          /\ ~summary'.prepared /\ summary'.reason = "auth_external_loaded"
      BY <1>3, <2>1 DEF Auth!Fetch, SummaryType, Auth!Guest
    <3>. QED
      BY <1>3, <2>1, <3>1 DEF Auth!Fetch
  <2>2. CASE authPc' # "store"
    <3>1. PICK a \in Auth!Answers : \/ external = Retries /\ Auth!Guest(a)
                                    \/ external # Retries /\ UNCHANGED <<authPc, summary>>
      BY <1>3, <2>2 DEF Auth!Fetch
    <3>2. CASE external = Retries
      BY <1>3, <2>2, <3>1, <3>2, GuestSays DEF Auth!Fetch
    <3>3. CASE external # Retries
      BY <1>3, <2>2, <3>1, <3>3 DEF Auth!Fetch
    <3>. QED
      BY <3>2, <3>3
  <2>. QED
    BY <2>1, <2>2
<1>4. CASE Auth!StoreAuth
  BY <1>4 DEF Auth!StoreAuth
<1>5. CASE Auth!CheckAuth
  <2>1. CASE given = "other" \/ (given # "other" /\ shop = "foreign")
    <3>1. \E r \in {"auth_provider_not_supported", "auth_domain_not_in_allowlist"} : Auth!Guest(r)
      BY <1>5, <2>1 DEF Auth!CheckAuth
    <3>. QED
      BY <1>5, <3>1, GuestSays DEF Auth!CheckAuth
  <2>2. CASE given = "invalid" /\ shop # "foreign"
    <3>1. /\ authPc' = "over"
          /\ summary' = [summary EXCEPT !.reason = "auth_inline_invalid_payload", !.attempts = 1]
      BY <1>5, <2>2 DEF Auth!CheckAuth
    <3>2. /\ summary' \in SummaryType /\ summary'.mode = "guest" /\ summary'.path = "guest"
          /\ summary'.prepared = summary.prepared /\ summary'.reason = "auth_inline_invalid_payload"
      BY <1>5, <3>1, FirstAttempt DEF Auth!CheckAuth
    <3>. QED
      BY <1>5, <3>1, <3>2 DEF Auth!CheckAuth
  <2>3. CASE given \notin {"other", "invalid"} /\ shop # "foreign"
    <3>1. /\ authPc' = "script"
          /\ summary' = [summary EXCEPT !.mode = "sberid", !.attempts = 1]
      BY <1>5, <2>3 DEF Auth!CheckAuth
    <3>2. /\ summary' \in SummaryType /\ summary'.mode = "sberid" /\ summary'.path = "guest"
          /\ summary'.prepared = summary.prepared /\ summary'.reason = summary.reason
      BY <1>5, <3>1, FirstAttempt, summary.reason \in Reasons DEF Auth!CheckAuth, SummaryType
    <3>. QED
      BY <1>5, <3>1, <3>2 DEF Auth!CheckAuth
  <2>. QED
    BY <2>1, <2>2, <2>3
<1>6. CASE Auth!NoScript
  BY <1>6, EndsSays DEF Auth!NoScript
<1>7. CASE Auth!WriteCookies \/ Auth!WriteFails
  BY <1>7 DEF Auth!WriteCookies, Auth!WriteFails
<1>8. CASE Auth!StartScript
  BY <1>8 DEF Auth!StartScript
<1>9. CASE Auth!NotStarted
  BY <1>9, EndsSays DEF Auth!NotStarted
<1>10. CASE Auth!ScriptEnds
  <2>1. PICK how \in {"completed", "failed"}, r \in Reasons \ Auth!Answers, b \in BOOLEAN :
               Auth!Ends(how, r, b)
    BY <1>10 DEF Auth!ScriptEnds
  <2>2. /\ summary' \in SummaryType /\ summary'.mode = summary.mode /\ summary'.reason = r
        /\ script' = how
        /\ IF how = "completed" /\ r = "auth_ok"
           THEN authPc' = "over" /\ summary'.path = "script"
           ELSE /\ authPc' = "hint" /\ summary'.path = "heuristic"
                /\ summary'.prepared = summary.prepared
    BY <2>1, EndsSays
  <2>. QED
    BY <1>10, <2>1, <2>2 DEF Auth!ScriptEnds
<1>11. CASE Auth!AddHint
  BY <1>11 DEF Auth!AddHint
<1>12. CASE Auth!Raise \/ Auth!Kill
  BY <1>12 DEF Auth!Raise, Auth!Kill
<1>. QED
  BY <1>1, <1>2, <1>3, <1>4, <1>5, <1>6, <1>7, <1>8, <1>9, <1>10, <1>11, <1>12 DEF Auth!Next

(* Every way out of the script removes the file of cookies first.          *)
LEMMA CookiesStep == Auth!CookiesAreRemoved /\ Auth!Next => Auth!CookiesAreRemoved'
  BY Zenon DEF Auth!CookiesAreRemoved, Auth!Next, Auth!Inline, Auth!NoClient, Auth!Fetch, Auth!StoreAuth,
     Auth!CheckAuth, Auth!NoScript, Auth!WriteCookies, Auth!WriteFails, Auth!StartScript, Auth!NotStarted,
     Auth!ScriptEnds, Auth!AddHint, Auth!Raise, Auth!Kill

-----------------------------------------------------------------------------
(* CallbackStore *)

(* The last elements of b are those of q.                                  *)
EndsWith(b, q) ==
  /\ Len(q) <= Len(b)
  /\ \A i \in 1..Len(q) : q[i] = b[Len(b) - Len(q) + i]

(* What a page is owed came after it subscribed; IsSuffix spelled out.     *)
StoreInv ==
  /\ bucket \in Seq(Envelopes)
  /\ queue \in [Pages -> Seq(Envelopes)]
  /\ joined \in [Pages -> Nat \cup {-1}]
  /\ \A p \in Pages : IF joined[p] = -1 THEN queue[p] = <<>> ELSE
       /\ joined[p] + Len(queue[p]) <= Len(bucket)
       /\ EndsWith(bucket, queue[p])
       /\ Len(queue[p]) <= QueueSize

(* A queue that ends a log still does when both take the same event.       *)
LEMMA EndsAppend ==
  ASSUME NEW S, NEW b \in Seq(S), NEW q \in Seq(S), NEW e \in S
  PROVE  /\ Append(q, e) \in Seq(S) /\ Len(Append(q, e)) = Len(q) + 1
         /\ EndsWith(b, q) => EndsWith(Append(b, e), Append(q, e))
  BY DEF EndsWith

(* It still does when a page takes its first event.                        *)
LEMMA EndsTail ==
  ASSUME NEW S, NEW b \in Seq(S), NEW q \in Seq(S), q # <<>>
  PROVE  /\ Tail(q) \in Seq(S) /\ Len(Tail(q)) = Len(q) - 1
         /\ EndsWith(b, q) => EndsWith(b, Tail(q))
<1>1. /\ Tail(q) \in Seq(S) /\ Len(Tail(q)) = Len(q) - 1
      /\ \A i \in 1..Len(Tail(q)) : Tail(q)[i] = q[i + 1] /\ i + 1 \in 1..Len(q)
  OBVIOUS
<1>2. ASSUME EndsWith(b, q), NEW i \in 1..Len(Tail(q))
      PROVE  Tail(q)[i] = b[Len(b) - Len(Tail(q)) + i]
  <2>1. q[i + 1] = b[Len(b) - Len(q) + (i + 1)]
    BY <1>1, <1>2 DEF EndsWith
  <2>2. Len(b) - Len(q) + (i + 1) = Len(b) - Len(Tail(q)) + i
    BY <1>1
  <2>. QED  BY <1>1, <2>1, <2>2
<1>. QED
  BY <1>1, <1>2 DEF EndsWith

(* A queue no longer than the end of a log is a suffix of that end.        *)
LEMMA EndsIsSuffix ==
  ASSUME NEW S, NEW b \in Seq(S), NEW q \in Seq(S), NEW n \in Nat, n + Len(q) <= Len(b),
         EndsWith(b, q)
  PROVE  Store!IsSuffix(q, SubSeq(b, n + 1, Len(b)))
<1>. DEFINE t == SubSeq(b, n + 1, Len(b))
<1>1. /\ t \in Seq(S) /\ Len(t) = Len(b) - n
      /\ \A i \in 1..Len(t) : t[i] = b[n + i]
  OBVIOUS
<1>. HIDE DEF t
<1>. DEFINE rq == Store!Reverse(q)
            rt == Store!Reverse(t)
<1>2. /\ rq \in Seq(S) /\ Len(rq) = Len(q) /\ rt \in Seq(S) /\ Len(rt) = Len(t)
      /\ \A i \in 1..Len(q) : rq[i] = q[Len(q) - i + 1]
      /\ \A i \in 1..Len(t) : rt[i] = t[Len(t) - i + 1]
  BY <1>1 DEF Store!Reverse
<1>. HIDE DEF rq, rt
<1>3. ASSUME NEW i \in 1..Len(q) PROVE rq[i] = rt[i]
  <2>1. /\ Len(q) - i + 1 \in 1..Len(q) /\ i \in 1..Len(t) /\ Len(t) - i + 1 \in 1..Len(t)
    BY <1>1
  <2>2. q[Len(q) - i + 1] = b[Len(b) - Len(q) + (Len(q) - i + 1)]
    BY <2>1 DEF EndsWith
  <2>3. t[Len(t) - i + 1] = b[n + (Len(t) - i + 1)]
    BY <1>1, <2>1
  <2>4. Len(b) - Len(q) + (Len(q) - i + 1) = n + (Len(t) - i + 1)
    BY <1>1
  <2>. QED
    BY <1>2, <2>1, <2>2, <2>3, <2>4
<1>4. SubSeq(rq, 1, Len(rq)) = SubSeq(rt, 1, Len(rq)) /\ Len(rq) <= Len(rt)
  BY <1>1, <1>2, <1>3
<1>. QED
  BY <1>4 DEF t, rq, rt, Store!IsSuffix, Store!IsPrefix

(* In a behaviour of the micro-ui only its own steps are taken.            *)
LEMMA StoreMoves ==
  ASSUME [PartsNext]_allVars, part = "store"
  PROVE  part' = part /\ (Store!StoreNext \/ UNCHANGED storeVars)
  BY DEF PartsNext, allVars

(* No page has joined, and no event is queued.                             *)
LEMMA StoreInit == Store!StoreInit => StoreInv
  BY DEF Store!StoreInit, StoreInv

(* Events, and pages that come, read and go, keep it, queues full or not.  *)
LEMMA StoreStep == StoreInv /\ Store!StoreNext => StoreInv'
<1>. SUFFICES ASSUME StoreInv, Store!StoreNext PROVE StoreInv'
  OBVIOUS
<1>0. QueueSize \in Nat \ {0} /\ bucket \in Seq(Envelopes)
  BY ComponentsAssumption DEF ComponentsAssumption, StoreInv
<1>1. ASSUME NEW e \in Envelopes, Store!Add(e) PROVE StoreInv'
  <2>1. CASE UNCHANGED storeVars
    BY <2>1 DEF storeVars, StoreInv
  <2>2. CASE bucket' = Append(bucket, e)
    <3>1. /\ bucket' \in Seq(Envelopes) /\ Len(bucket') = Len(bucket) + 1 /\ joined' = joined
          /\ queue' = [p \in Pages |-> IF joined[p] >= 0 THEN Store!Offer(queue[p], e) ELSE queue[p]]
      BY <1>0, <1>1, <2>2, EndsAppend DEF Store!Add, Store!storeVars
    <3>2. ASSUME NEW q \in Seq(Envelopes)
          PROVE  /\ Store!Offer(q, e) \in Seq(Envelopes)
                 /\ Len(Store!Offer(q, e)) <= Len(q) + 1
                 /\ Len(q) <= QueueSize => Len(Store!Offer(q, e)) <= QueueSize
                 /\ EndsWith(bucket, q) => EndsWith(bucket', Store!Offer(q, e))
      <4>1. CASE Len(q) < QueueSize
        BY <1>0, <2>2, <4>1, EndsAppend DEF Store!Offer
      <4>2. CASE Len(q) >= QueueSize
        <5>1. /\ Tail(q) \in Seq(Envelopes) /\ Len(Tail(q)) = Len(q) - 1
              /\ EndsWith(bucket, q) => EndsWith(bucket, Tail(q))
          BY <1>0, <4>2, EndsTail
        <5>2. Store!Offer(q, e) = Append(Tail(q), e)
          BY <1>0, <4>2 DEF Store!Offer
        <5>3. /\ Append(Tail(q), e) \in Seq(Envelopes)
              /\ Len(Append(Tail(q), e)) = Len(q) - 1 + 1
              /\ EndsWith(bucket, Tail(q)) => EndsWith(Append(bucket, e), Append(Tail(q), e))
          <6>1. ASSUME NEW t \in Seq(Envelopes)
                PROVE  /\ Append(t, e) \in Seq(Envelopes) /\ Len(Append(t, e)) = Len(t) + 1
                       /\ EndsWith(bucket, t) => EndsWith(Append(bucket, e), Append(t, e))
            BY <1>0, EndsAppend
          <6>. QED
            BY <5>1, <6>1
        <5>4. Len(q) - 1 + 1 = Len(q) /\ Len(q) <= Len(q) + 1
          OBVIOUS
        <5>. QED
          BY <2>2, <5>1, <5>2, <5>3, <5>4
      <4>. QED
        BY <1>0, <4>1, <4>2
    <3>3. ASSUME NEW p \in Pages, joined[p] # -1
          PROVE  /\ joined[p] \in Nat /\ queue[p] \in Seq(Envelopes)
                 /\ queue'[p] = Store!Offer(queue[p], e)
      BY <3>1, <3>3 DEF StoreInv
    <3>. QED
      BY <1>0, <3>1, <3>2, <3>3 DEF StoreInv
  <2>. QED
    BY <1>1, <2>1, <2>2 DEF Store!Add, Store!storeVars, storeVars
<1>2. ASSUME NEW p \in Pages, Store!Subscribe(p) PROVE StoreInv'
  <2>1. queue[p] = <<>>
    BY <1>2 DEF StoreInv, Store!Subscribe
  <2>. QED
    BY <1>0, <1>2, <2>1 DEF Store!Subscribe, StoreInv, EndsWith
<1>3. ASSUME NEW p \in Pages, Store!Send(p) PROVE StoreInv'
  <2>1. /\ Tail(queue[p]) \in Seq(Envelopes) /\ Len(Tail(queue[p])) = Len(queue[p]) - 1
        /\ EndsWith(bucket, queue[p]) => EndsWith(bucket, Tail(queue[p]))
    BY <1>0, <1>3, EndsTail DEF Store!Send, StoreInv
  <2>. QED
    BY <1>0, <1>3, <2>1 DEF Store!Send, StoreInv
<1>4. ASSUME NEW p \in Pages, Store!Unsubscribe(p) PROVE StoreInv'
  BY <1>4 DEF Store!Unsubscribe, StoreInv
<1>. QED
  BY <1>1, <1>2, <1>3, <1>4 DEF Store!StoreNext

(* What the invariant says of every queue is the property of the run.      *)
LEMMA StoreOwes == StoreInv => Store!OwedTheNewest
  BY EndsIsSuffix DEF StoreInv, Store!OwedTheNewest

-----------------------------------------------------------------------------
(* PaymentVerifier *)

PayType ==
  /\ merchant \in Pay!Merchants /\ order \in Pay!Orders
  /\ evidence = Pay!None \/ evidence \in [source : Pay!Sources, url : Pay!Urls]

(* In a behaviour of the verifier only its own steps are taken.            *)
LEMMA PayMoves ==
  ASSUME [PartsNext]_allVars, part = "payment"
  PROVE  part' = part /\ (Pay!Next \/ UNCHANGED payVars)
  BY DEF PartsNext, allVars

(* Nothing is reported and nothing told.                                   *)
LEMMA PayInit == Pay!Init => PayType /\ Pay!ToldWhatIsProven
<1>. SUFFICES ASSUME Pay!Init PROVE PayType /\ Pay!ToldWhatIsProven
  OBVIOUS
<1>1. PayType
  BY DEF Pay!Init, PayType
<1>2. told[1] = "none"
  BY DEF Pay!Init
<1>. QED
  BY <1>1, <1>2, Zenon DEF Pay!ToldWhatIsProven

(* When the orders of a URL are one, equal to the order of the agent.      *)
LEMMA OneOrder ==
  ASSUME NEW S, NEW o \in Seq(S), NEW x
  PROVE  Len(o) = 1 /\ Head(o) = x <=> o = <<x>>
  OBVIOUS

(* The orders that a URL may carry are sequences of orders.                *)
LEMMA OrderLists ==
  {<<>>, <<"">>, <<"o1">>, <<"o2">>, <<"o1", "o1">>, <<"o1", "o2">>} \in SUBSET Seq(Pay!Orders)
  BY DEF Pay!Orders

(* An order id was found exactly when the URL is the page with that id.    *)
LEMMA IdIsProof ==
  ASSUME PayType, order # "", evidence # Pay!None, NEW host, NEW path
  PROVE  Pay!ProviderOrderId(evidence.url, host, path) = order <=> Pay!Proves(host, path)
<1>. DEFINE u == evidence.url
            O == {<<>>, <<"">>, <<"o1">>, <<"o2">>, <<"o1", "o1">>, <<"o1", "o2">>}
<1>1. u \in [plain : BOOLEAN, host : Pay!Hosts, path : Pay!Paths, orders : O]
  BY DEF PayType, Pay!Urls
<1>2. O \in SUBSET Seq(Pay!Orders)
  BY OrderLists
<1>. HIDE DEF u, O
<1>3. u.orders \in Seq(Pay!Orders)
  BY <1>1, <1>2
<1>4. Pay!Proves(host, path) <=>
        u.plain /\ u.host = host /\ u.path = path /\ Len(u.orders) = 1 /\ Head(u.orders) = order
  <2>1. Pay!Proves(host, path) <=> u = [plain |-> TRUE, host |-> host, path |-> path, orders |-> <<order>>]
    BY DEF Pay!Proves, u
  <2>2. u.orders = <<order>> <=> Len(u.orders) = 1 /\ Head(u.orders) = order
    BY <1>3, OneOrder
  <2>3. u = [plain |-> TRUE, host |-> host, path |-> path, orders |-> <<order>>] <=>
          u.plain /\ u.host = host /\ u.path = path /\ u.orders = <<order>>
    <3>1. /\ u = [plain |-> u.plain, host |-> u.host, path |-> u.path, orders |-> u.orders]
          /\ u.plain \in BOOLEAN
      BY <1>1
    <3>2. ASSUME u = [plain |-> TRUE, host |-> host, path |-> path, orders |-> <<order>>]
          PROVE  u.plain /\ u.host = host /\ u.path = path /\ u.orders = <<order>>
      BY <3>2
    <3>3. ASSUME u.plain, u.host = host, u.path = path, u.orders = <<order>>
          PROVE  u = [plain |-> TRUE, host |-> host, path |-> path, orders |-> <<order>>]
      BY <3>1, <3>3
    <3>. QED
      BY <3>2, <3>3
  <2>. QED
    BY <2>1, <2>2, <2>3
<1>5. Pay!ProviderOrderId(u, host, path) = order <=>
        u.plain /\ u.host = host /\ u.path = path /\ Len(u.orders) = 1 /\ Head(u.orders) = order
  BY DEF Pay!ProviderOrderId
<1>. QED
  BY <1>4, <1>5 DEF u

(* What is told is what the policy proves, for each merchant and source.   *)
LEMMA PayStep == PayType /\ Pay!ToldWhatIsProven /\ Pay!Next => (PayType /\ Pay!ToldWhatIsProven)'
<1>. SUFFICES ASSUME PayType, Pay!Next PROVE (PayType /\ Pay!ToldWhatIsProven)'
  OBVIOUS
<1>1. PayType'
  BY DEF PayType, Pay!Next, Pay!Handle
<1>. DEFINE litres == <<"litres", "litres_payecom_iframe", "payecom.ru", "/pay_ru">>
            brandshop == <<"brandshop", "brandshop_yoomoney_sberpay_redirect", "yoomoney.ru",
                           "/checkout/payments/v2/contract">>
            payecom == Pay!Proves("payecom.ru", "/pay_ru")
            yoomoney == Pay!Proves("yoomoney.ru", "/checkout/payments/v2/contract")
            ready == {p \in Pay!Policy : p[1] = merchant /\ p[2] = evidence.source
                                           /\ Pay!Proves(p[3], p[4])}
            known == {p \in Pay!Policy : merchant = "other" /\ evidence # Pay!None
                                           /\ Pay!Proves(p[3], p[4])}
<1>2. /\ merchant' = merchant /\ order' = order /\ evidence' = evidence
      /\ told' = CASE Pay!Verdict.status = "accepted" /\ Pay!Verdict.host # "" ->
                        <<"payment_ready", Pay!Verdict.host>>
                   [] Pay!Verdict.status = "unverified" -> <<"payment_unverified", Pay!Verdict.host>>
                   [] OTHER -> <<"scenario_failed", "">>
  BY DEF Pay!Next, Pay!Handle
<1>3. Pay!ToldWhatIsProven' <=>
        \/ told'[1] = "none"
        \/ told' \in IF order = "" THEN {<<"scenario_failed", "">>}
                     ELSE IF ready # {} THEN {<<"payment_ready", p[3]>> : p \in ready}
                     ELSE IF known # {} THEN {<<"payment_unverified", p[3]>> : p \in known}
                     ELSE {<<"scenario_failed", "">>}
  BY <1>2 DEF Pay!ToldWhatIsProven, Pay!Proves
<1>4. order # "" /\ evidence # Pay!None =>
        /\ Pay!Payecom(evidence.url) = order <=> payecom
        /\ Pay!Yoomoney(evidence.url) = order <=> yoomoney
  BY IdIsProof DEF Pay!Payecom, Pay!Yoomoney
<1>5. payecom => ~yoomoney
  BY DEF Pay!Proves
<1>6. yoomoney => Pay!Payecom(evidence.url) = ""
  BY DEF Pay!Proves, Pay!Payecom, Pay!ProviderOrderId
<1>7. \A p : p \in Pay!Policy <=> p = litres \/ p = brandshop
  BY DEF Pay!Policy
<1>8. /\ litres \in ready <=> merchant = "litres" /\ evidence.source = "litres_payecom_iframe" /\ payecom
      /\ brandshop \in ready <=> /\ merchant = "brandshop" /\ yoomoney
                                 /\ evidence.source = "brandshop_yoomoney_sberpay_redirect"
      /\ litres \in known <=> merchant = "other" /\ evidence # Pay!None /\ payecom
      /\ brandshop \in known <=> merchant = "other" /\ evidence # Pay!None /\ yoomoney
      /\ ready \subseteq {litres, brandshop} /\ known \subseteq {litres, brandshop}
  BY <1>7
<1>9. merchant \in {"litres", "brandshop", "other"} /\ litres[3] = "payecom.ru" /\ brandshop[3] = "yoomoney.ru"
  BY DEF PayType, Pay!Merchants
<1>. HIDE DEF litres, brandshop, payecom, yoomoney, ready, known
<1>10. CASE order = ""
  <2>1. Pay!Verdict = Pay!Rejected
    BY <1>10 DEF Pay!Verdict, Pay!VerifyLitres, Pay!VerifyBrandshop, Pay!VerifyUnknownMerchant
  <2>. QED
    BY <1>1, <1>2, <1>3, <1>10, <2>1 DEF Pay!Rejected
<1>11. CASE order # "" /\ merchant = "litres"
  <2>1. Pay!Verdict = IF litres \in ready THEN Pay!Accepted("payecom.ru") ELSE Pay!Rejected
    <3>1. evidence.source = "litres_payecom_iframe" => evidence # Pay!None
      BY DEF Pay!None
    <3>2. litres \in ready <=> /\ evidence.source = "litres_payecom_iframe"
                            /\ Pay!Payecom(evidence.url) = order
      BY <1>4, <1>8, <1>11, <3>1
    <3>3. Pay!Verdict = Pay!VerifyLitres
      BY <1>11 DEF Pay!Verdict
    <3>. QED
      BY <1>11, <3>2, <3>3 DEF Pay!VerifyLitres
  <2>2. ready = (IF litres \in ready THEN {litres} ELSE {}) /\ known = {}
    BY <1>8, <1>11
  <2>. QED
    BY <1>1, <1>2, <1>3, <1>9, <1>11, <2>1, <2>2 DEF Pay!Accepted, Pay!Rejected
<1>12. CASE order # "" /\ merchant = "brandshop"
  <2>1. Pay!Verdict = IF brandshop \in ready THEN Pay!Accepted("yoomoney.ru") ELSE Pay!Rejected
    <3>1. evidence.source = "brandshop_yoomoney_sberpay_redirect" => evidence # Pay!None
      BY DEF Pay!None
    <3>2. brandshop \in ready <=> /\ evidence.source = "brandshop_yoomoney_sberpay_redirect"
                            /\ Pay!Yoomoney(evidence.url) = order
      BY <1>4, <1>8, <1>12, <3>1
    <3>3. Pay!Verdict = Pay!VerifyBrandshop
      BY <1>12 DEF Pay!Verdict
    <3>. QED
      BY <1>12, <3>2, <3>3 DEF Pay!VerifyBrandshop
  <2>2. ready = (IF brandshop \in ready THEN {brandshop} ELSE {}) /\ known = {}
    BY <1>8, <1>12
  <2>. QED
    BY <1>1, <1>2, <1>3, <1>9, <1>12, <2>1, <2>2 DEF Pay!Accepted, Pay!Rejected
<1>13. CASE order # "" /\ merchant = "other"
  <2>1. Pay!Verdict = IF litres \in known THEN Pay!Unverified("payecom.ru")
                      ELSE IF brandshop \in known THEN Pay!Unverified("yoomoney.ru") ELSE Pay!Rejected
    BY <1>4, <1>5, <1>6, <1>8, <1>13 DEF Pay!Verdict, Pay!VerifyUnknownMerchant
  <2>2. /\ ready = {}
        /\ known = IF litres \in known THEN {litres} ELSE IF brandshop \in known THEN {brandshop} ELSE {}
    BY <1>5, <1>8, <1>13
  <2>. QED
    BY <1>1, <1>2, <1>3, <1>9, <1>13, <2>1, <2>2 DEF Pay!Unverified, Pay!Rejected
<1>. QED
  BY <1>9, <1>10, <1>11, <1>12, <1>13

-----------------------------------------------------------------------------
(* CdpCommand *)

(* In a behaviour of the CDP tool only its own steps are taken.            *)
LEMMA CdpMoves ==
  ASSUME [PartsNext]_allVars, part = "cdp"
  PROVE  part' = part /\ (Cdp!Next \/ UNCHANGED cdpVars)
  BY DEF PartsNext, allVars

(* Contexts and pages are few, and every page has a priority.              *)
PagesInv ==
  /\ pages \in Seq(Seq(Cdp!Priorities)) /\ Len(pages) <= MaxContexts
  /\ \A c \in 1..Len(pages) : Len(pages[c]) <= MaxContexts

(* What was done and recorded, by the place of the command.                *)
CommandInv ==
  /\ cmd \in Cdp!Reading \cup Cdp!Acting
  /\ cdpPc \in {"start", "checks", "connect", "command", "stop", "over"}
  /\ cdpPc \in {"start", "checks"} => tries = 0
  /\ cdpPc = "start" => log = <<>>
  /\ cdpPc \notin {"stop", "over"} =>
       log \in {<<>>, <<"started">>} /\ acted = 0 /\ ~done /\ code = -1
  /\ cdpPc \in {"stop", "over"} => Len(log) <= 2 /\ code \in {0, 1}
  /\ open = IF cdpPc = "command" THEN 1 ELSE 0

CdpInv == PagesInv /\ CommandInv /\ Cdp!ActsOnce

(* Before its end a command has recorded the first record at most.         *)
LEMMA NoEnd ==
  ASSUME log \in {<<>>, <<"started">>}
  PROVE  /\ ~Cdp!Recorded("finished") /\ ~Cdp!Recorded("failed") /\ ~Cdp!Recorded("refused")
         /\ Len(log) <= 2
<1>1. Len(log) <= 2 /\ \A i \in DOMAIN log : log[i] = "started"
  <2>1. CASE log = <<>>
    BY <2>1
  <2>2. CASE log = <<"started">>
    BY <2>2
  <2>. QED
    BY <2>1, <2>2
<1>. QED
  BY <1>1 DEF Cdp!Recorded

(* No page is chosen, and nothing has been done.                           *)
LEMMA CdpInit == Cdp!Init => CdpInv
<1>. SUFFICES ASSUME Cdp!Init PROVE CdpInv
  OBVIOUS
<1>1. PagesInv
  <2>1. MaxContexts \in Nat
    BY ComponentsAssumption DEF ComponentsAssumption
  <2>2. ASSUME NEW S, NEW q \in Cdp!BoundedSeq(S, MaxContexts)
        PROVE  q \in Seq(S) /\ Len(q) <= MaxContexts
    BY <2>1 DEF Cdp!BoundedSeq
  <2>3. pages \in Cdp!BoundedSeq(Cdp!BoundedSeq(Cdp!Priorities, MaxContexts), MaxContexts)
    BY DEF Cdp!Init
  <2>4. /\ pages \in Seq(Cdp!BoundedSeq(Cdp!Priorities, MaxContexts))
        /\ Len(pages) <= MaxContexts
    BY <2>2, <2>3
  <2>5. \A c \in 1..Len(pages) : /\ pages[c] \in Seq(Cdp!Priorities)
                                 /\ Len(pages[c]) <= MaxContexts
    BY <2>2, <2>4
  <2>. QED
    BY <2>4, <2>5 DEF PagesInv
<1>2. CommandInv
  BY DEF Cdp!Init, CommandInv
<1>3. Cdp!ActsOnce
  BY NoEnd DEF Cdp!Init, Cdp!ActsOnce
<1>. QED
  BY <1>1, <1>2, <1>3 DEF CdpInv

(* The page that is picked is blank only if all are.                       *)
LEMMA PagePicked ==
  ASSUME PagesInv, Cdp!EnsurePage
  PROVE  /\ PagesInv'
         /\ picked' \in Cdp!Places'
         /\ Cdp!Priority(picked)' = 0 => \A at \in Cdp!Places' : Cdp!Priority(at)' = 0
<1>0. MaxContexts \in Nat \ {0}
  BY ComponentsAssumption DEF ComponentsAssumption
<1>1. \A at \in Cdp!Places : Cdp!Priority(at) \in Cdp!Priorities
  BY DEF Cdp!Places, Cdp!Priority, PagesInv
<1>2. CASE \E at \in Cdp!Places : Cdp!Priority(at) > 0
  <2>1. picked' \in Cdp!Best /\ pages' = pages
    BY <1>2 DEF Cdp!EnsurePage
  <2>2. \A at \in Cdp!Places : Cdp!Priority(picked') >= Cdp!Priority(at)
    BY <1>1, <2>1 DEF Cdp!Best, Cdp!Priorities
  <2>. QED
    BY <1>1, <1>2, <2>1, <2>2, SMTT(60) DEF Cdp!Best, Cdp!Priorities, Cdp!Places, Cdp!Priority, PagesInv
<1>3. CASE ~\E at \in Cdp!Places : Cdp!Priority(at) > 0
  <2>1. \A at \in Cdp!Places : Cdp!Priority(at) = 0
    BY <1>1, <1>3 DEF Cdp!Priorities
  <2>2. CASE pages = <<>>
    <3>1. pages' = <<<<0>>>> /\ picked' = <<1, 1>>
      BY <1>3, <2>2 DEF Cdp!EnsurePage
    <3>2. <<0>> \in Seq(Cdp!Priorities) /\ Len(<<0>>) = 1 /\ <<0>>[1] = 0
      BY DEF Cdp!Priorities
    <3>3. /\ pages' \in Seq(Seq(Cdp!Priorities)) /\ Len(pages') = 1 /\ pages'[1] = <<0>>
      BY <3>1, <3>2
    <3>. QED
      BY <1>0, <3>1, <3>2, <3>3 DEF PagesInv, Cdp!Places, Cdp!Priority
  <2>3. CASE pages # <<>>
    <3>. DEFINE n == Len(pages)
    <3>1. n \in 1..MaxContexts /\ pages[n] \in Seq(Cdp!Priorities)
      BY <1>0, <2>3 DEF PagesInv
    <3>2. CASE pages[n] # <<>>
      <4>1. picked' = <<n, Len(pages[n])>> /\ pages' = pages
        BY <1>3, <3>1, <3>2 DEF Cdp!EnsurePage
      <4>2. Len(pages[n]) \in 1..MaxContexts
        BY <1>0, <3>1, <3>2 DEF PagesInv
      <4>3. picked' \in Cdp!Places
        BY <3>1, <4>1, <4>2 DEF Cdp!Places, PagesInv
      <4>. QED
        BY <2>1, <4>1, <4>3 DEF PagesInv, Cdp!Places, Cdp!Priority
    <3>3. CASE pages[n] = <<>>
      <4>1. picked' = <<n, 1>> /\ pages' = [pages EXCEPT ![n] = <<0>>]
        BY <1>3, <3>1, <3>3 DEF Cdp!EnsurePage
      <4>2. <<0>> \in Seq(Cdp!Priorities) /\ Len(<<0>>) = 1 /\ <<0>>[1] = 0
        BY DEF Cdp!Priorities
      <4>3. /\ pages' \in Seq(Seq(Cdp!Priorities)) /\ Len(pages') = n
            /\ pages'[n] = <<0>>
            /\ \A c \in 1..n : c # n => pages'[c] = pages[c]
        BY <3>1, <4>1, <4>2 DEF PagesInv
      <4>4. PagesInv'
        <5>1. ASSUME NEW c \in 1..n PROVE Len(pages'[c]) <= MaxContexts
          <6>1. CASE c = n
            <7>1. Len(pages'[n]) = 1
              BY <4>2, <4>3
            <7>. HIDE DEF n
            <7>. QED
              BY <1>0, <6>1, <7>1
          <6>2. CASE c # n
            BY <4>3, <5>1, <6>2 DEF PagesInv
          <6>. QED
            BY <6>1, <6>2
        <5>2. n <= MaxContexts
          BY <1>0, <3>1
        <5>. QED
          BY <4>3, <5>1, <5>2 DEF PagesInv
      <4>5. picked' \in Cdp!Places'
        BY <1>0, <3>1, <4>1, <4>2, <4>3 DEF Cdp!Places
      <4>6. ASSUME NEW at \in Cdp!Places' PROVE Cdp!Priority(at)' = 0
        <5>1. /\ at[1] \in 1..n /\ at[2] \in DOMAIN (pages'[at[1]])
          BY <3>1, <4>3, <4>6 DEF Cdp!Places
        <5>2. CASE at[1] = n
          BY <4>2, <4>3, <5>1, <5>2 DEF Cdp!Priority
        <5>3. CASE at[1] # n
          <6>1. at \in Cdp!Places
            BY <3>1, <4>3, <5>1, <5>3 DEF Cdp!Places, PagesInv
          <6>. QED
            BY <2>1, <4>3, <5>1, <5>3, <6>1 DEF Cdp!Priority
        <5>. QED
          BY <5>2, <5>3
      <4>. QED
        BY <4>1, <4>2, <4>3, <4>4, <4>5, <4>6 DEF Cdp!Priority
    <3>. QED
      BY <3>2, <3>3
  <2>. QED
    BY <2>2, <2>3
<1>. QED
  BY <1>2, <1>3

(* A record that may be written, after the first one or without it.        *)
LEMMA Ending ==
  ASSUME log \in {<<>>, <<"started">>}, NEW how \in {"started", "refused", "finished", "failed"},
         Cdp!Record(how)
  PROVE  Len(log') <= 2 /\ \A i \in DOMAIN log' : log'[i] \in {"started", how}
<1>1. CASE log = <<>>
  <2>1. log' \in {<<>>, <<how>>}
    BY <1>1 DEF Cdp!Record
  <2>. QED
    BY <2>1
<1>2. CASE log = <<"started">>
  <2>1. log' \in {<<"started">>, <<"started", how>>}
    BY <1>2 DEF Cdp!Record
  <2>2. CASE log' = <<"started">>
    BY <2>2
  <2>3. CASE log' = <<"started", how>>
    BY <2>3
  <2>. QED
    BY <2>1, <2>2, <2>3
<1>. QED
  BY <1>1, <1>2

(* What holds once a command has ended with its record, or without.        *)
LEMMA Ended ==
  ASSUME cmd \in Cdp!Reading \cup Cdp!Acting, cmd' = cmd, log \in {<<>>, <<"started">>},
         NEW how \in {"finished", "failed"}, NEW n \in {0, 1}, Cdp!Finish(how, n), open' = 0,
         acted' <= (IF cmd \in Cdp!Acting THEN 1 ELSE 0),
         IF how = "finished" THEN n = 0 /\ done' ELSE n = 1 /\ ~done'
  PROVE  CommandInv' /\ Cdp!ActsOnce'
<1>1. /\ cdpPc' = "stop" /\ code' = n
      /\ Len(log') <= 2 /\ \A i \in DOMAIN log' : log'[i] \in {"started", how}
  BY Ending DEF Cdp!Finish
<1>2. CommandInv'
  BY <1>1 DEF CommandInv
<1>3. ~Cdp!Recorded("refused")' /\ (Cdp!Recorded("finished")' => how = "finished")
      /\ (Cdp!Recorded("failed")' => how = "failed")
  BY <1>1 DEF Cdp!Recorded
<1>. QED
  BY <1>1, <1>2, <1>3 DEF Cdp!ActsOnce

(* Starting, connecting, acting, retrying and ending keep it.              *)
LEMMA CdpStep == CdpInv /\ Cdp!Next => CdpInv'
<1>. SUFFICES ASSUME CdpInv, Cdp!Next PROVE CdpInv'
  OBVIOUS
<1>0. /\ cmd \in Cdp!Reading \cup Cdp!Acting
      /\ cdpPc \notin {"stop", "over"} =>
           log \in {<<>>, <<"started">>} /\ acted = 0 /\ ~done
      /\ cdpPc = "command" => open = 1
      /\ cdpPc # "command" => open = 0
  BY DEF CdpInv, CommandInv
<1>1. CASE Cdp!Start
  <2>1. PagesInv'
    BY <1>1 DEF Cdp!Start, CdpInv, PagesInv
  <2>2. log' \in {<<>>, <<"started">>}
    <3>1. log = <<>> /\ log' \in {log, Append(log, "started")}
      BY <1>1 DEF Cdp!Start, Cdp!Record, CdpInv, CommandInv
    <3>. QED
      BY <3>1
  <2>3. CommandInv'
    BY <1>1, <2>2 DEF Cdp!Start, CdpInv, CommandInv
  <2>4. ~Cdp!Recorded("finished")' /\ ~Cdp!Recorded("failed")' /\ ~Cdp!Recorded("refused")'
    <3>1. \A i \in DOMAIN log' : log'[i] = "started"
      BY <2>2
    <3>. QED
      BY <3>1 DEF Cdp!Recorded
  <2>. QED
    BY <1>1, <2>1, <2>3, <2>4 DEF Cdp!Start, CdpInv, CommandInv, Cdp!ActsOnce
<1>2. CASE Cdp!Refuse
  <2>1. PagesInv'
    BY <1>2 DEF Cdp!Refuse, CdpInv, PagesInv
  <2>2. /\ cdpPc' = "over" /\ code' = 1 /\ open' = 0 /\ acted' = 0 /\ tries' = 0 /\ ~done'
        /\ cmd' = cmd
    BY <1>0, <1>2 DEF Cdp!Refuse, CdpInv, CommandInv
  <2>3. Len(log') <= 2 /\ \A i \in DOMAIN log' : log'[i] \in {"started", "refused"}
    BY <1>0, <1>2, Ending DEF Cdp!Refuse
  <2>4. ~Cdp!Recorded("finished")' /\ ~Cdp!Recorded("failed")'
    BY <2>3 DEF Cdp!Recorded
  <2>5. CommandInv'
    BY <1>0, <2>2, <2>3 DEF CommandInv
  <2>6. Cdp!ActsOnce'
    BY <2>2, <2>3, <2>4 DEF Cdp!ActsOnce
  <2>. QED
    BY <2>1, <2>5, <2>6 DEF CdpInv
<1>3. CASE Cdp!StartPlaywright \/ Cdp!Tick
  BY <1>0, <1>3, NoEnd DEF Cdp!StartPlaywright, Cdp!Tick, PagesInv, Cdp!Places, Cdp!Priority,
              Cdp!Recorded, CdpInv, CommandInv, Cdp!ActsOnce
<1>4. CASE Cdp!StartFails
  <2>1. PagesInv' /\ CommandInv'
    BY <1>0, <1>4, NoEnd DEF Cdp!StartFails, CdpInv, PagesInv, CommandInv
  <2>2. /\ log' = log /\ log \in {<<>>, <<"started">>} /\ cdpPc' = "over" /\ code' = 1 /\ open' = 0
        /\ acted' = 0 /\ cmd' = cmd
    BY <1>0, <1>4 DEF Cdp!StartFails
  <2>3. Cdp!ActsOnce'
    BY <2>1, <2>2, NoEnd DEF Cdp!ActsOnce, Cdp!Recorded, CommandInv
  <2>. QED
    BY <2>1, <2>3 DEF CdpInv
<1>5. CASE Cdp!Connect
  <2>1. PagesInv' /\ CommandInv'
    BY <1>0, <1>5, PagePicked DEF Cdp!Connect, CdpInv, CommandInv
  <2>2. ~Cdp!Recorded("finished")' /\ ~Cdp!Recorded("failed")' /\ ~Cdp!Recorded("refused")'
    BY <1>0, <1>5, NoEnd DEF Cdp!Connect, Cdp!Recorded
  <2>3. Cdp!ActsOnce'
    BY <1>0, <1>5, <2>2, PagePicked DEF Cdp!Connect, CdpInv, CommandInv, Cdp!ActsOnce
  <2>. QED
    BY <2>1, <2>3 DEF CdpInv
<1>6. CASE Cdp!ConnectFails
  <2>1. PagesInv'
    BY <1>6, PagePicked DEF Cdp!ConnectFails, CdpInv, PagesInv
  <2>2. CASE late
    BY <1>0, <1>6, <2>1, <2>2, Ended DEF Cdp!ConnectFails, CdpInv
  <2>3. CASE ~late
    <3>1. CommandInv'
      BY <1>6, <2>3 DEF Cdp!ConnectFails, CdpInv, CommandInv
    <3>2. Cdp!ActsOnce'
      BY <1>0, <1>6, <2>3, NoEnd DEF Cdp!ConnectFails, CdpInv, CommandInv, Cdp!ActsOnce,
                                     Cdp!Recorded
    <3>. QED
      BY <2>1, <3>1, <3>2 DEF CdpInv
  <2>. QED
    BY <2>2, <2>3
<1>7. CASE Cdp!Act
  <2>1. PagesInv'
    BY <1>7 DEF Cdp!Act, CdpInv, PagesInv
  <2>2. acted' <= (IF cmd \in Cdp!Acting THEN 1 ELSE 0) /\ open' = 0 /\ cmd' = cmd
    BY <1>0, <1>7 DEF Cdp!Act
  <2>3. CASE Cdp!Finish("finished", 0) /\ done' = TRUE
    BY <1>0, <1>7, <2>1, <2>2, <2>3, Ended DEF Cdp!Act, CdpInv
  <2>4. CASE Cdp!Finish("failed", 1) /\ done' = done
    BY <1>0, <1>7, <2>1, <2>2, <2>4, Ended DEF Cdp!Act, CdpInv
  <2>. QED
    BY <1>7, <2>3, <2>4 DEF Cdp!Act
<1>8. CASE Cdp!ActFails
  <2>1. PagesInv'
    BY <1>8 DEF Cdp!ActFails, CdpInv, PagesInv
  <2>2. acted' <= (IF cmd \in Cdp!Acting THEN 1 ELSE 0) /\ open' = 0 /\ cmd' = cmd
    BY <1>0, <1>8 DEF Cdp!ActFails
  <2>. QED
    BY <1>0, <1>8, <2>1, <2>2, Ended DEF Cdp!ActFails, CdpInv
<1>9. CASE Cdp!Read
  <2>1. PagesInv'
    BY <1>9 DEF Cdp!Read, CdpInv, PagesInv
  <2>2. acted' <= (IF cmd \in Cdp!Acting THEN 1 ELSE 0) /\ open' = 0 /\ cmd' = cmd
    BY <1>0, <1>9 DEF Cdp!Read
  <2>3. CASE Cdp!Finish("finished", 0) /\ done' = TRUE
    BY <1>0, <1>9, <2>1, <2>2, <2>3, Ended DEF Cdp!Read, CdpInv
  <2>4. CASE Cdp!Finish("failed", 1) /\ done' = done
    BY <1>0, <1>9, <2>1, <2>2, <2>4, Ended DEF Cdp!Read, CdpInv
  <2>. QED
    BY <1>9, <2>3, <2>4 DEF Cdp!Read
<1>10. CASE Cdp!ReadTransient
  <2>1. PagesInv'
    BY <1>10 DEF Cdp!ReadTransient, CdpInv, PagesInv
  <2>2. acted' <= (IF cmd \in Cdp!Acting THEN 1 ELSE 0) /\ open' = 0 /\ cmd' = cmd
    BY <1>0, <1>10 DEF Cdp!ReadTransient
  <2>3. CASE late
    BY <1>0, <1>10, <2>1, <2>2, <2>3, Ended DEF Cdp!ReadTransient, CdpInv
  <2>4. CASE ~late
    <3>1. CommandInv'
      BY <1>0, <1>10, <2>2, <2>4 DEF Cdp!ReadTransient, CdpInv, CommandInv
    <3>2. Cdp!ActsOnce'
      BY <1>0, <1>10, <2>2, <2>4, NoEnd DEF Cdp!ReadTransient, CdpInv, CommandInv, Cdp!ActsOnce,
                                            Cdp!Recorded
    <3>. QED
      BY <2>1, <3>1, <3>2 DEF CdpInv
  <2>. QED
    BY <2>3, <2>4
<1>11. CASE Cdp!PagesChange
  <2>1. PICK k \in 0..MaxContexts : pages' \in [1..k -> Cdp!BoundedSeq(Cdp!Priorities, 1)]
    BY <1>11 DEF Cdp!PagesChange, Cdp!BoundedSeq
  <2>2. k \in Nat /\ MaxContexts \in Nat \ {0} /\ k <= MaxContexts
    BY <2>1, ComponentsAssumption DEF ComponentsAssumption
  <2>3. \A s \in Cdp!BoundedSeq(Cdp!Priorities, 1) : s \in Seq(Cdp!Priorities) /\ Len(s) <= 1
    BY DEF Cdp!BoundedSeq
  <2>4. pages' \in Seq(Cdp!BoundedSeq(Cdp!Priorities, 1)) /\ Len(pages') = k
    BY <2>1, <2>2
  <2>5. /\ pages' \in Seq(Seq(Cdp!Priorities))
        /\ \A c \in 1..Len(pages') : Len(pages'[c]) <= 1
    BY <2>2, <2>3, <2>4
  <2>6. PagesInv'
    BY <2>2, <2>4, <2>5 DEF PagesInv
  <2>. QED
    BY <1>0, <1>11, <2>6, NoEnd DEF Cdp!PagesChange, CdpInv, CommandInv, Cdp!ActsOnce, Cdp!Recorded
<1>12. CASE Cdp!Stop
  <2>1. PagesInv' /\ CommandInv'
    BY <1>12 DEF Cdp!Stop, CdpInv, PagesInv, CommandInv
  <2>2. Cdp!ActsOnce'
    BY <1>12 DEF Cdp!Stop, CdpInv, CommandInv, Cdp!ActsOnce, Cdp!Recorded
  <2>. QED
    BY <2>1, <2>2 DEF CdpInv
<1>. QED
  BY <1>1, <1>2, <1>3, <1>4, <1>5, <1>6, <1>7, <1>8, <1>9, <1>10, <1>11, <1>12 DEF Cdp!Next

-----------------------------------------------------------------------------
(* KnowledgeAnalysis *)

(* In a behaviour of the analysis only its own steps are taken.            *)
LEMMA KnowMoves ==
  ASSUME [PartsNext]_allVars, part = "knowledge"
  PROVE  part' = part /\ (Know!Next \/ UNCHANGED knowVars)
  BY DEF PartsNext, allVars

KnowType ==
  /\ stage \in [Analysed -> {"none", "waits", "runs", "written", "over"}]
  /\ outcome \in [Analysed -> {"none", "completed", "failed"}]
  /\ turn \in Seq(Analysed) /\ codex \subseteq Analysed
  /\ output \in [Analysed -> {"none", "empty", "json", "bad"}]
  /\ artifact \in [Analysed -> [candidates : SUBSET Know!Kinds, playbook : {"none", "draft"},
                                outcome : {"none", "completed", "failed"}]]
  /\ traced \in [Analysed -> {"none", "skipped", "failed", "completed"}]

(* The session that is analysed holds the turn.                            *)
TurnInv ==
  /\ \A s \in Analysed : stage[s] \in {"runs", "written"} => turn # <<>> /\ Head(turn) = s
  /\ \A s \in codex : stage[s] = "runs"

(* The files of a session, by the place of its task.                       *)
FilesInv ==
  \A s \in Analysed :
    /\ stage[s] # "none" => outcome[s] \in {"completed", "failed"}
    /\ stage[s] \in {"none", "waits", "runs"} => artifact[s] = Know!None
    /\ stage[s] # "over" => traced[s] = "none"
    /\ stage[s] = "written" => artifact[s] # Know!None

KnowInv == KnowType /\ TurnInv /\ FilesInv /\ Know!AnalysisIsDraft

(* No session is over, and no file is written.                             *)
LEMMA KnowInit == Know!Init => KnowInv
<1>. SUFFICES ASSUME Know!Init PROVE KnowInv
  OBVIOUS
<1>1. KnowType
  BY DEF Know!Init, KnowType, Know!None
<1>2. TurnInv /\ FilesInv
  BY DEF Know!Init, TurnInv, FilesInv
<1>3. Know!AnalysisIsDraft
  BY DEF Know!Init, Know!AnalysisIsDraft, Know!None
<1>. QED
  BY <1>1, <1>2, <1>3 DEF KnowInv

(* An answer becomes a draft of the outcome of its session.                *)
LEMMA Normalised ==
  ASSUME NEW cs \in SUBSET Know!Kinds, NEW pb \in BOOLEAN, NEW o \in {"completed", "failed"},
         NEW a, a = Know!NormalizeAnalysisPayload([candidates |-> cs, playbook |-> pb], o)
  PROVE  /\ a \in [candidates : SUBSET Know!Kinds, playbook : {"none", "draft"},
                   outcome : {"none", "completed", "failed"}]
         /\ a # Know!None /\ a.outcome = o
         /\ o = "failed" => a.playbook = "none" /\ a.candidates \subseteq {"negative"}
  BY DEF Know!NormalizeAnalysisPayload, Know!None, Know!Kinds

(* Turns, cancellations and failures of an analysis keep it.               *)
LEMMA KnowStep == KnowInv /\ Know!Next => KnowInv'
<1>. SUFFICES ASSUME KnowInv, Know!Next PROVE KnowInv'
  OBVIOUS
<1>. USE DEF KnowInv
<1>1. ASSUME NEW s \in Analysed, Know!Schedule(s) PROVE KnowInv'
  <2>1. KnowType'
    BY <1>1 DEF Know!Schedule, KnowType
  <2>2. TurnInv'
    BY <1>1 DEF Know!Schedule, KnowType, TurnInv
  <2>3. FilesInv'
    BY <1>1 DEF Know!Schedule, KnowType, FilesInv
  <2>4. Know!AnalysisIsDraft'
    BY <1>1 DEF Know!Schedule, KnowType, Know!AnalysisIsDraft
  <2>. QED
    BY <2>1, <2>2, <2>3, <2>4
<1>2. ASSUME NEW s \in Analysed, Know!Analyse(s) PROVE KnowInv'
  <2>1. KnowType'
    <3>1. Tail(turn) \in Seq(Analysed)
      BY <1>2 DEF Know!Analyse, KnowType
    <3>2. turn' \in Seq(Analysed)
      BY <1>2, <3>1 DEF Know!Analyse, Know!Leaves, KnowType
    <3>3. stage' \in [Analysed -> {"none", "waits", "runs", "written", "over"}]
      BY <1>2 DEF Know!Analyse, Know!Leaves, KnowType
    <3>4. codex' \subseteq Analysed
      <4>1. codex' = codex \cup {s} \/ codex' = codex
        BY <1>2 DEF Know!Analyse, Know!Leaves
      <4>. QED
        BY <4>1 DEF KnowType
    <3>5. output' \in [Analysed -> {"none", "empty", "json", "bad"}]
      BY <1>2 DEF Know!Analyse, Know!Leaves, KnowType
    <3>6. traced' \in [Analysed -> {"none", "skipped", "failed", "completed"}]
      BY <1>2 DEF Know!Analyse, KnowType
    <3>. QED
      BY <1>2, <3>2, <3>3, <3>4, <3>5, <3>6 DEF Know!Analyse, KnowType
  <2>2. TurnInv'
    BY <1>2 DEF Know!Analyse, Know!Leaves, KnowType, TurnInv
  <2>3. FilesInv'
    BY <1>2 DEF Know!Analyse, Know!Leaves, KnowType, FilesInv
  <2>4. Know!AnalysisIsDraft'
    BY <1>2 DEF Know!Analyse, Know!Leaves, KnowType, FilesInv, TurnInv, Know!AnalysisIsDraft
  <2>. QED
    BY <2>1, <2>2, <2>3, <2>4
<1>3. ASSUME NEW s \in Analysed, Know!CodexAnswers(s) PROVE KnowInv'
  <2>1. KnowType' /\ TurnInv' /\ FilesInv'
    BY <1>3 DEF Know!CodexAnswers, KnowType, TurnInv, FilesInv
  <2>2. Know!AnalysisIsDraft'
    BY <1>3 DEF Know!CodexAnswers, KnowType, TurnInv, Know!AnalysisIsDraft
  <2>. QED
    BY <2>1, <2>2
<1>4. ASSUME NEW s \in Analysed, Know!CodexFails(s) PROVE KnowInv'
  <2>1. KnowType'
    BY <1>4, SMTT(60) DEF Know!CodexFails, Know!Leaves, KnowType, TurnInv
  <2>2. TurnInv'
    BY <1>4 DEF Know!CodexFails, Know!Leaves, KnowType, TurnInv
  <2>3. FilesInv'
    BY <1>4 DEF Know!CodexFails, Know!Leaves, KnowType, FilesInv, TurnInv
  <2>4. Know!AnalysisIsDraft'
    BY <1>4 DEF Know!CodexFails, Know!Leaves, KnowType, FilesInv, TurnInv, Know!AnalysisIsDraft
  <2>. QED
    BY <2>1, <2>2, <2>3, <2>4
<1>5. ASSUME NEW s \in Analysed, Know!WriteArtifact(s) PROVE KnowInv'
  <2>1. stage[s] = "runs" /\ outcome[s] \in {"completed", "failed"}
    BY <1>5 DEF Know!WriteArtifact, TurnInv, FilesInv
  <2>2. PICK a : /\ artifact' = [artifact EXCEPT ![s] = a]
                 /\ a \in [candidates : SUBSET Know!Kinds, playbook : {"none", "draft"},
                           outcome : {"none", "completed", "failed"}]
                 /\ a # Know!None /\ a.outcome = outcome[s]
                 /\ outcome[s] = "failed" =>
                      a.playbook = "none" /\ a.candidates \subseteq {"negative"}
    <3>1. PICK cs \in SUBSET Know!Kinds, pb \in BOOLEAN :
            artifact' = [artifact EXCEPT ![s] = Know!NormalizeAnalysisPayload(
                           [candidates |-> cs, playbook |-> pb], outcome[s])]
      BY <1>5 DEF Know!WriteArtifact
    <3>. DEFINE a == Know!NormalizeAnalysisPayload(
                       [candidates |-> cs, playbook |-> pb], outcome[s])
    <3>2. /\ a \in [candidates : SUBSET Know!Kinds, playbook : {"none", "draft"},
                    outcome : {"none", "completed", "failed"}]
          /\ a # Know!None /\ a.outcome = outcome[s]
          /\ outcome[s] = "failed" => a.playbook = "none" /\ a.candidates \subseteq {"negative"}
      BY <2>1, Normalised
    <3>3. artifact' = [artifact EXCEPT ![s] = a]
      BY <3>1
    <3>. HIDE DEF a
    <3>. QED
      BY <3>2, <3>3
  <2>3. KnowType'
    BY <1>5, <2>2 DEF Know!WriteArtifact, KnowType
  <2>4. TurnInv'
    BY <1>5, <2>1 DEF Know!WriteArtifact, KnowType, TurnInv
  <2>5. FilesInv'
    BY <1>5, <2>1, <2>2 DEF Know!WriteArtifact, KnowType, FilesInv
  <2>6. Know!AnalysisIsDraft'
    <3>1. /\ artifact'[s] = a /\ traced' = traced /\ traced[s] = "none"
          /\ \A t \in Analysed : t # s => artifact'[t] = artifact[t]
      BY <1>5, <2>1, <2>2 DEF Know!WriteArtifact, KnowType, FilesInv
    <3>2. /\ \A t, u \in codex' : t = u
          /\ \A t \in Analysed :
               output'[t] # "none" => killed' \/ stage'[t] \in {"runs", "written"}
      BY <1>5 DEF Know!WriteArtifact, KnowType, Know!AnalysisIsDraft
    <3>3. ASSUME NEW t \in Analysed
          PROVE  /\ traced'[t] = "completed" => artifact'[t] # Know!None
                 /\ traced'[t] \in {"failed", "skipped"} => artifact'[t] = Know!None
                 /\ artifact'[t].outcome = "failed" =>
                      artifact'[t].playbook = "none" /\ artifact'[t].candidates \subseteq {"negative"}
      <4>1. CASE t = s
        BY <2>2, <3>1, <4>1
      <4>2. CASE t # s
        BY <3>1, <4>2 DEF Know!AnalysisIsDraft
      <4>. QED
        BY <4>1, <4>2
    <3>. QED
      BY <3>2, <3>3 DEF Know!AnalysisIsDraft, Know!None
  <2>. QED
    BY <2>3, <2>4, <2>5, <2>6
<1>6. ASSUME NEW s \in Analysed, Know!WriteTrace(s) PROVE KnowInv'
  <2>1. KnowType'
    BY <1>6 DEF Know!WriteTrace, Know!Leaves, KnowType, TurnInv
  <2>2. TurnInv'
    BY <1>6 DEF Know!WriteTrace, Know!Leaves, KnowType, TurnInv
  <2>3. FilesInv'
    BY <1>6 DEF Know!WriteTrace, Know!Leaves, KnowType, FilesInv
  <2>4. Know!AnalysisIsDraft'
    BY <1>6 DEF Know!WriteTrace, Know!Leaves, KnowType, FilesInv, Know!AnalysisIsDraft
  <2>. QED
    BY <2>1, <2>2, <2>3, <2>4
<1>7. CASE Know!Shutdown \/ Know!Kill
  <2>1. <<>> \in Seq(Analysed)
    OBVIOUS
  <2>2. turn' = <<>> /\ codex' = {}
    BY <1>7 DEF Know!Shutdown, Know!Kill
  <2>3. KnowType' /\ TurnInv'
    BY <1>7, <2>1, <2>2 DEF Know!Shutdown, Know!Kill, KnowType, TurnInv
  <2>4. FilesInv'
    BY <1>7 DEF Know!Shutdown, Know!Kill, KnowType, FilesInv
  <2>5. Know!AnalysisIsDraft'
    BY <1>7 DEF Know!Shutdown, Know!Kill, KnowType, Know!AnalysisIsDraft
  <2>. QED
    BY <2>3, <2>4, <2>5
<1>. QED
  BY <1>1, <1>2, <1>3, <1>4, <1>5, <1>6, <1>7 DEF Know!Next

-----------------------------------------------------------------------------
(* EvalJudge *)

(* In a behaviour of the judge only its own steps are taken.               *)
LEMMA JudgeMoves ==
  ASSUME [PartsNext]_allVars, part = "judge"
  PROVE  part' = part /\ (Judge!Next \/ UNCHANGED judgeVars)
  BY DEF PartsNext, allVars

(* Cases are numbers, in the order of the batch.                           *)
LEMMA CaseNumbers == N \in Nat /\ Judge!Cases \subseteq Nat
  BY ComponentsAssumption DEF ComponentsAssumption, Judge!Cases

(* Min of FiniteSetsExt is the least of a set of cases: of the sets of its *)
(* elements up to n, a least one by inclusion is that of its minimum.      *)
LEMMA LeastCase ==
  ASSUME NEW S \in SUBSET Judge!Cases, S # {}
  PROVE  Judge!Min(S) \in S /\ \A x \in S : Judge!Min(S) <= x
<1>. DEFINE UpTo(n) == {x \in S : x <= n}
            T == {UpTo(n) : n \in S}
<1>1. IsFiniteSet(S)
  <2>1. IsFiniteSet(1..N)
    BY CaseNumbers, FS_Interval
  <2>. QED  BY <2>1, FS_Subset DEF Judge!Cases
<1>2. IsWellFoundedOn(StrictSubsetOrdering(S), SUBSET S)
  <2>1. FiniteSubsetsOf(S) = SUBSET S
    BY <1>1, FS_FiniteSubsetsOfFinite
  <2>. QED  BY <2>1, FS_StrictSubsetOrderingWellFounded
<1>3. T \subseteq SUBSET S /\ T # {}
  OBVIOUS
<1>4. PICK U \in T : \A V \in T : <<V, U>> \notin StrictSubsetOrdering(S)
  <2>. HIDE DEF T
  <2>. QED  BY <1>2, <1>3, WFMin
<1>5. PICK m \in S : U = UpTo(m)
  OBVIOUS
<1>6. ASSUME NEW x \in S PROVE m <= x
  <2>1. m \in Nat /\ x \in Nat
    BY CaseNumbers
  <2>2. SUFFICES ASSUME x < m PROVE FALSE
    BY <2>1
  <2>3. UpTo(x) \subseteq UpTo(m) /\ m \in UpTo(m) /\ m \notin UpTo(x)
    <3>1. \A y \in S : y \in Int /\ (y <= x => y <= m)
      BY <2>1, <2>2, CaseNumbers
    <3>2. m <= m /\ ~(m <= x)
      BY <2>1, <2>2
    <3>. QED  BY <3>1, <3>2
  <2>4. <<UpTo(x), UpTo(m)>> \in StrictSubsetOrdering(S)
    BY <2>3 DEF StrictSubsetOrdering
  <2>5. UpTo(x) \in T
    OBVIOUS
  <2>. HIDE DEF T, UpTo
  <2>. QED  BY <1>4, <1>5, <2>4, <2>5
<1>. QED
  BY <1>6 DEF Judge!Min

AtWork == {"codex", "write", "persist"}
States == Judge!Incomplete \cup Judge!Terminal \cup {"judge_pending"}
JudgeType ==
  /\ state \in [Judge!Cases -> States]
  /\ file \in [Judge!Cases -> {"none", "bad"} \cup Judge!Evaluations]
  /\ batchPc \in [Batches -> {"idle", "failed", "queued"} \cup AtWork]
  /\ kind \in [Batches -> {"none", "sync", "job"}]
  /\ skip \in [Batches -> SUBSET Judge!Cases] /\ todo \in [Batches -> SUBSET Judge!Cases]
  /\ judgeResult \in [Batches -> {"none"} \cup Judge!Evaluations]
  /\ wrote \in [Batches -> BOOLEAN] /\ judgeFaults \in Nat
  /\ overlap \in BOOLEAN /\ stranded \in BOOLEAN /\ stale \in BOOLEAN

(* No case begins or ceases to be without credentials of the shop.         *)
Skipped == {c \in Judge!Cases : state[c] = "skipped_auth_missing"}

(* What a batch holds, by the place where it is.                           *)
BatchInv ==
  \A b \in Batches :
    /\ kind[b] = "none" <=> batchPc[b] \in {"idle", "failed"}
    /\ batchPc[b] = "queued" => kind[b] = "job"
    /\ IF batchPc[b] \in AtWork THEN todo[b] # {} /\ skip[b] = Skipped ELSE todo[b] = {}
    /\ batchPc[b] \in {"write", "persist"} /\ Judge!At(b) \in skip[b] =>
         judgeResult[b] = "judge_skipped"

(* One job at a time, and without overlap one batch.                       *)
LoneInv ==
  /\ \A a, b \in Batches : kind[a] = "job" /\ kind[b] = "job" => a = b
  /\ ~overlap => \A a, b \in Batches : kind[a] # "none" /\ kind[b] # "none" => a = b

(* A batch writes the file of no case that is JUDGED.                      *)
FileInv ==
  ~overlap =>
    /\ \A b \in Batches : \A c \in todo[b] : state[c] # "judged"
    /\ \A b \in Batches : batchPc[b] = "persist" => file[Judge!At(b)] = judgeResult[b]
    /\ \A c \in Judge!Cases : state[c] = "judged" => file[c] = "judged"

(* A case that is JUDGE_PENDING is still to be judged, or to be settled.   *)
PendingInv ==
  ~stranded => \A c \in Judge!Cases : state[c] = "judge_pending" =>
    \E b \in Batches : batchPc[b] \in {"failed", "queued"} \/ c \in todo[b]

(* Without a fault a file that says "judged" is that of a JUDGED case or   *)
(* of the case a batch is at, and then its own codex has written it.       *)
StaleInv ==
  ~overlap /\ judgeFaults = 0 =>
    /\ ~stale
    /\ \A b \in Batches :
         batchPc[b] = "codex" /\ file[Judge!At(b)] = "judged" => wrote[b] = TRUE
    /\ \A c \in Judge!Cases : file[c] = "judged" =>
         state[c] = "judged" \/ \E b \in Batches : batchPc[b] \in AtWork /\ c = Judge!At(b)

JudgeInv == JudgeType /\ BatchInv /\ LoneInv /\ FileInv /\ PendingInv /\ StaleInv

(* No batch is asked for, and no case is judged.                           *)
LEMMA JudgeInit == Judge!Init => JudgeInv
<1>. SUFFICES ASSUME Judge!Init PROVE JudgeInv
  OBVIOUS
<1>1. JudgeType
  BY DEF Judge!Init, JudgeType, States, Judge!Terminal, Judge!Ended
<1>2. BatchInv /\ LoneInv
  BY DEF Judge!Init, BatchInv, LoneInv, AtWork
<1>3. FileInv /\ PendingInv /\ StaleInv
  BY DEF Judge!Init, FileInv, PendingInv, StaleInv, Judge!Ended
<1>. QED
  BY <1>1, <1>2, <1>3 DEF JudgeInv

(* What has become of batch b once it holds kind k, cases "left" and those *)
(* without credentials "skipped": it is at codex, or it has left.          *)
Goes(b, k, skipped, left) ==
  /\ \A a \in Batches \ {b} :
       /\ batchPc'[a] = batchPc[a] /\ kind'[a] = kind[a] /\ skip'[a] = skip[a]
       /\ todo'[a] = todo[a] /\ judgeResult'[a] = judgeResult[a] /\ wrote'[a] = wrote[a]
  /\ \/ /\ left # {} /\ batchPc'[b] = "codex" /\ kind'[b] = k
        /\ skip'[b] = skipped /\ todo'[b] = left
     \/ /\ batchPc'[b] \in {"idle", "failed"} /\ kind'[b] = "none" /\ todo'[b] = {}
        /\ left = {} \/ batchPc'[b] = "failed" \/ stranded'

BatchType ==
  /\ batchPc \in [Batches -> {"idle", "failed", "queued"} \cup AtWork]
  /\ kind \in [Batches -> {"none", "sync", "job"}]
  /\ skip \in [Batches -> SUBSET Judge!Cases] /\ todo \in [Batches -> SUBSET Judge!Cases]
  /\ judgeResult \in [Batches -> {"none"} \cup Judge!Evaluations]
  /\ wrote \in [Batches -> BOOLEAN] /\ stranded \in BOOLEAN

(* Then only a case that is left may be marked, and a fault may be counted. *)
Went(b, k, skipped, m, left) ==
  /\ BatchType' /\ Goes(b, k, skipped, left)
  /\ judgeFaults' \in Nat /\ (judgeFaults' = 0 => judgeFaults = 0)
  /\ state' \in [Judge!Cases -> States]
  /\ \A c \in Judge!Cases : \/ state'[c] = m[c]
                            \/ c \in left /\ c \notin skipped /\ state'[c] = "judge_pending"

(* A batch that fails leaves its cases where they are.                     *)
LEMMA FailsGoes ==
  ASSUME JudgeType, NEW b \in Batches, NEW k \in {"sync", "job"}, Judge!Fails(b, k),
         NEW skipped, NEW left
  PROVE  BatchType' /\ Goes(b, k, skipped, left) /\ (stranded => stranded')
<1>1. BatchType'
  BY DEF JudgeType, BatchType, Judge!Fails, Judge!Leaves
<1>2. stranded' = TRUE \/ (stranded' = stranded /\ k = "job")
  BY DEF JudgeType, Judge!Fails
<1>. QED
  BY <1>1, <1>2 DEF JudgeType, Goes, Judge!Fails, Judge!Leaves

(* A batch that goes on takes its least case that is left.                 *)
LEMMA NextCaseGoes ==
  ASSUME JudgeType, NEW b \in Batches, NEW k \in {"sync", "job"}, NEW skipped \in SUBSET Judge!Cases,
         NEW m \in [Judge!Cases -> States], NEW left \in SUBSET Judge!Cases,
         NEW was \in {FALSE, stranded}, Judge!NextCase(b, k, skipped, m, left, was)
  PROVE  Went(b, k, skipped, m, left)
<1>. DEFINE marked == IF left = {} \/ Judge!Min(left) \in skipped THEN m
                      ELSE [m EXCEPT ![Judge!Min(left)] = "judge_pending"]
            Takes == /\ left # {} /\ batchPc' = [batchPc EXCEPT ![b] = "codex"]
                     /\ kind' = [kind EXCEPT ![b] = k] /\ skip' = [skip EXCEPT ![b] = skipped]
                     /\ todo' = [todo EXCEPT ![b] = left]
                     /\ judgeResult' = [judgeResult EXCEPT ![b] = "none"]
                     /\ wrote' = [wrote EXCEPT ![b] = FALSE]
                     /\ stranded' = was /\ judgeFaults' = judgeFaults
            Ends == /\ left = {} /\ Judge!Leaves(b, "idle")
                    /\ stranded' = was /\ judgeFaults' = judgeFaults
<1>1. left # {} => Judge!Min(left) \in left
  BY LeastCase
<1>2. state' \in {m, marked} /\ (Takes \/ Ends \/ Judge!Raises(b, k))
  BY DEF Judge!NextCase
<1>3. /\ state' \in [Judge!Cases -> States]
      /\ \A c \in Judge!Cases : \/ state'[c] = m[c]
                                \/ c \in left /\ c \notin skipped /\ state'[c] = "judge_pending"
  <2>1. CASE state' = m
    BY <2>1
  <2>2. CASE state' = marked /\ ~(left = {} \/ Judge!Min(left) \in skipped)
    <3>1. state' = [m EXCEPT ![Judge!Min(left)] = "judge_pending"]
      BY <2>2
    <3>. QED
      BY <1>1, <2>2, <3>1 DEF States
  <2>. QED
    BY <1>2, <2>1, <2>2
<1>4. /\ BatchType' /\ Goes(b, k, skipped, left)
      /\ judgeFaults' \in Nat /\ (judgeFaults' = 0 => judgeFaults = 0)
  <2>1. CASE Judge!Raises(b, k)
    <3>1. judgeFaults' = judgeFaults + 1 /\ judgeFaults \in Nat
      BY <2>1 DEF Judge!Raises, JudgeType
    <3>. QED
      BY <2>1, <3>1, FailsGoes DEF Judge!Raises
  <2>2. CASE Ends
    BY <2>2 DEF Judge!Leaves, JudgeType, BatchType, Goes
  <2>3. CASE Takes
    BY <2>3 DEF JudgeType, BatchType, Goes, AtWork
  <2>. HIDE DEF Ends, Takes
  <2>. QED
    BY <1>2, <2>1, <2>2, <2>3
<1>. QED
  BY <1>3, <1>4 DEF Went

(* Batches that are left alone keep what BatchInv says of them.            *)
LEMMA RunBatchKeeps ==
  ASSUME JudgeInv, NEW b \in Batches, NEW k \in {"sync", "job"}, batchPc[b] \in {"idle", "queued"},
         k = "job" => kind[b] = "job", Judge!RunBatch(b, k)
  PROVE  JudgeInv'
<1>. DEFINE left == Judge!CasesRequiringJudge
<1>0. JudgeType /\ BatchInv /\ LoneInv /\ FileInv /\ PendingInv /\ StaleInv
  BY DEF JudgeInv
<1>1. left \in SUBSET Judge!Cases
  BY DEF Judge!CasesRequiringJudge
<1>2. Judge!NextCase(b, k, Skipped, state, left, FALSE)
  BY DEF Judge!RunBatch, Skipped
<1>3. Skipped \in SUBSET Judge!Cases
  BY DEF Skipped
<1>. HIDE DEF left
<1>4. /\ BatchType' /\ Goes(b, k, Skipped, left)
      /\ judgeFaults' \in Nat /\ (judgeFaults' = 0 => judgeFaults = 0)
      /\ state' \in [Judge!Cases -> States]
      /\ \A c \in Judge!Cases : \/ state'[c] = state[c]
                                \/ /\ c \in left /\ c \notin Skipped
                                   /\ state'[c] = "judge_pending"
  <2>1. state \in [Judge!Cases -> States]
    BY <1>0 DEF JudgeType
  <2>2. Went(b, k, Skipped, state, left)
    BY <1>0, <1>1, <1>2, <1>3, <2>1, NextCaseGoes
  <2>. QED
    BY <2>2 DEF Went
<1>5. Skipped' = Skipped
  BY <1>4 DEF Skipped
<1>6. /\ file' = file /\ stale' = stale /\ overlap' \in BOOLEAN
      /\ overlap => overlap'
      /\ (\E a \in Batches \ {b} : Judge!Working(a) /\ "sync" \in {k, kind[a]}) => overlap'
  BY <1>0 DEF Judge!RunBatch, JudgeType
<1>7. JudgeType'
  BY <1>0, <1>4, <1>6 DEF JudgeType, BatchType
<1>8. todo[b] = {}
  BY <1>0 DEF BatchInv, AtWork
<1>9. BatchInv'
  <2>1. ASSUME NEW a \in Batches, a # b
        PROVE  /\ batchPc'[a] = batchPc[a] /\ kind'[a] = kind[a] /\ skip'[a] = skip[a]
               /\ todo'[a] = todo[a] /\ judgeResult'[a] = judgeResult[a]
    BY <1>4, <2>1 DEF Goes
  <2>2. \A a \in Batches : a # b => Judge!At(a)' = Judge!At(a)
    BY <2>1 DEF Judge!At
  <2>3. \/ /\ left # {} /\ batchPc'[b] = "codex" /\ kind'[b] = k
           /\ skip'[b] = Skipped /\ todo'[b] = left
        \/ batchPc'[b] \in {"idle", "failed"} /\ kind'[b] = "none" /\ todo'[b] = {}
    BY <1>4 DEF Goes
  <2>. QED
    BY <1>0, <1>5, <2>1, <2>2, <2>3 DEF BatchInv, AtWork
<1>10. LoneInv'
  <2>1. \A a \in Batches \ {b} : kind'[a] = kind[a] /\ (kind[a] # "none" => Judge!Working(a))
    BY <1>0, <1>4 DEF Goes, BatchInv, Judge!Working
  <2>2. kind'[b] \in {"none", k}
    BY <1>4 DEF Goes
  <2>3. \A a \in Batches \ {b} : ~(kind'[a] = "job" /\ kind'[b] = "job")
    BY <1>0, <2>1, <2>2 DEF LoneInv
  <2>4. ~overlap' => \A a \in Batches \ {b} : kind'[a] = "none" \/ kind'[b] = "none"
    <3>. SUFFICES ASSUME ~overlap', NEW a \in Batches \ {b}, kind'[a] # "none", kind'[b] # "none"
                  PROVE  FALSE
      OBVIOUS
    <3>1. Judge!Working(a) /\ kind[a] \in {"sync", "job"} /\ kind'[b] = k
      BY <1>0, <2>1, <2>2 DEF JudgeType
    <3>2. kind[a] = "job" /\ k = "job"
      BY <1>6, <3>1
    <3>. QED
      BY <2>1, <2>3, <3>1, <3>2
  <2>. QED
    BY <1>0, <1>6, <2>1, <2>3, <2>4 DEF LoneInv
<1>11. FileInv'
  <2>. SUFFICES ASSUME ~overlap' PROVE FileInv'
    BY DEF FileInv
  <2>1. ~overlap
    BY <1>6
  <2>2. \A c \in left : state[c] # "judged"
    BY <1>0, <2>1 DEF left, Judge!CasesRequiringJudge, Judge!Requires, FileInv, Judge!Evaluations
  <2>3. \A a \in Batches : todo'[a] \subseteq Judge!Cases /\ (todo'[a] \in {todo[a], left, {}})
    BY <1>4, <1>7 DEF Goes, JudgeType
  <2>4. \A a \in Batches : \A c \in todo'[a] : state'[c] # "judged"
    BY <1>0, <1>4, <2>1, <2>2, <2>3 DEF FileInv
  <2>5. \A a \in Batches : batchPc'[a] = "persist" => file'[Judge!At(a)'] = judgeResult'[a]
    BY <1>0, <1>4, <1>6, <2>1 DEF Goes, FileInv, Judge!At
  <2>. QED
    BY <1>0, <1>4, <1>6, <2>1, <2>4, <2>5 DEF FileInv
<1>12. PendingInv'
  <2>. SUFFICES ASSUME ~stranded', NEW c \in Judge!Cases, state'[c] = "judge_pending"
                PROVE  \E a \in Batches : batchPc'[a] \in {"failed", "queued"} \/ c \in todo'[a]
    BY DEF PendingInv
  <2>2. CASE c \in left
    BY <1>4, <2>2 DEF Goes
  <2>3. CASE c \notin left
    <3>1. state[c] = "judge_pending"
      BY <1>4, <2>3
    <3>2. c \in left
      BY <1>0, <3>1 DEF left, Judge!CasesRequiringJudge, Judge!Requires
    <3>. QED
      BY <2>3, <3>2
  <2>. QED
    BY <2>2, <2>3
<1>13. StaleInv'
  <2>. SUFFICES ASSUME ~overlap', judgeFaults' = 0 PROVE StaleInv'
    BY DEF StaleInv
  <2>1. ~overlap /\ judgeFaults = 0
    BY <1>4, <1>6
  <2>2. \A a \in Batches : batchPc[a] \notin AtWork
    <3>. SUFFICES ASSUME NEW a \in Batches, batchPc[a] \in AtWork PROVE FALSE
      OBVIOUS
    <3>1. a # b /\ Judge!Working(a) /\ kind[a] \in {"sync", "job"}
      BY <1>0 DEF AtWork, Judge!Working, BatchInv, JudgeType
    <3>2. kind[a] = "job" /\ k = "job"
      BY <1>6, <3>1
    <3>. QED
      BY <1>0, <3>1, <3>2 DEF LoneInv
  <2>3. \A c \in Judge!Cases : file[c] = "judged" => state[c] = "judged" /\ c \notin left
    BY <1>0, <2>1, <2>2 DEF StaleInv, left, Judge!CasesRequiringJudge, Judge!Requires,
                            Judge!Evaluations
  <2>4. \A c \in Judge!Cases : file'[c] = "judged" => state'[c] = "judged"
    BY <1>4, <1>6, <2>3
  <2>5. ASSUME NEW a \in Batches, batchPc'[a] = "codex" PROVE file'[Judge!At(a)'] # "judged"
    <3>1. a = b /\ left # {} /\ todo'[b] = left
      BY <1>4, <2>2, <2>5 DEF Goes, AtWork
    <3>2. Judge!At(a)' \in left
      BY <1>1, <3>1, LeastCase DEF Judge!At
    <3>. QED
      BY <1>1, <1>6, <2>3, <3>2
  <2>. QED
    BY <1>0, <1>6, <2>1, <2>4, <2>5 DEF StaleInv
<1>. QED
  BY <1>7, <1>9, <1>10, <1>11, <1>12, <1>13 DEF JudgeInv

(* A batch that stores the result of its case.                             *)
LEMMA PersistKeeps ==
  ASSUME JudgeInv, NEW b \in Batches, Judge!PersistJudgeResult(b)
  PROVE  JudgeInv'
<1>. DEFINE c == Judge!At(b)
            v == Judge!JudgeCaseState(b, c)
            m == [state EXCEPT ![c] = v]
            left == todo[b] \ {c}
<1>0. JudgeType /\ BatchInv /\ LoneInv /\ FileInv /\ PendingInv /\ StaleInv
  BY DEF JudgeInv
<1>1. /\ batchPc[b] = "persist" /\ kind[b] \in {"sync", "job"} /\ skip[b] = Skipped
      /\ todo[b] \in SUBSET Judge!Cases /\ todo[b] # {}
      /\ file' = file /\ overlap' = overlap /\ stale' = stale
  BY <1>0 DEF Judge!PersistJudgeResult, BatchInv, JudgeType, AtWork
<1>2. c \in todo[b] /\ c \in Judge!Cases
  BY <1>1, LeastCase DEF Judge!At
<1>3. IF c \in Skipped THEN v = state[c] /\ v = "skipped_auth_missing"
      ELSE v = (IF judgeResult[b] = "judged" THEN "judged" ELSE "judge_failed")
  BY <1>0, <1>1, <1>2 DEF Judge!JudgeCaseState, BatchInv, Skipped
<1>. HIDE DEF v, c
<1>4. m \in [Judge!Cases -> States]
  BY <1>0, <1>2, <1>3 DEF JudgeType, States, Judge!Terminal
<1>5. left \in SUBSET Judge!Cases
  BY <1>1
<1>6. \/ Judge!NextCase(b, kind[b], skip[b], m, left, stranded)
      \/ Judge!Raises(b, kind[b]) /\ state' = state
  BY DEF Judge!PersistJudgeResult, c, v
<1>7. /\ BatchType' /\ Goes(b, kind[b], Skipped, left)
      /\ state' \in [Judge!Cases -> States]
      /\ judgeFaults' \in Nat /\ (judgeFaults' = 0 => judgeFaults = 0)
      /\ stranded => stranded'
      /\ \/ state' = state /\ (batchPc'[b] = "failed" \/ stranded') /\ judgeFaults' # 0
         \/ \A d \in Judge!Cases : \/ state'[d] = m[d]
                                   \/ d \in left /\ d \notin Skipped /\ state'[d] = "judge_pending"
  <2>1. CASE Judge!NextCase(b, kind[b], skip[b], m, left, stranded)
    <3>. HIDE DEF m, left
    <3>1. Skipped \in SUBSET Judge!Cases /\ stranded \in BOOLEAN
      BY <1>0 DEF Skipped, JudgeType
    <3>2. Judge!NextCase(b, kind[b], Skipped, m, left, stranded)
      BY <1>1, <2>1
    <3>3. Went(b, kind[b], Skipped, m, left)
      BY <1>0, <1>1, <1>4, <1>5, <3>1, <3>2, NextCaseGoes
    <3>4. stranded => stranded'
      BY <3>2, Zenon DEF Judge!NextCase, Judge!Raises, Judge!Fails
    <3>. QED
      BY <3>3, <3>4 DEF Went
  <2>2. CASE Judge!Raises(b, kind[b]) /\ state' = state
    <3>1. Judge!Fails(b, kind[b]) /\ judgeFaults' = judgeFaults + 1 /\ judgeFaults \in Nat
      BY <1>0, <2>2 DEF Judge!Raises, JudgeType
    <3>2. BatchType' /\ Goes(b, kind[b], Skipped, left) /\ (stranded => stranded')
      BY <1>0, <1>1, <3>1, FailsGoes
    <3>3. batchPc'[b] = "failed" \/ stranded'
      BY <1>0, <1>1, <3>1 DEF Judge!Fails, Judge!Leaves, JudgeType
    <3>4. judgeFaults' \in Nat /\ judgeFaults' # 0
      BY <3>1
    <3>. QED
      BY <1>0, <2>2, <3>2, <3>3, <3>4 DEF JudgeType
  <2>. QED
    BY <1>6, <2>1, <2>2
<1>8. /\ \A d \in Judge!Cases : d # c => m[d] = state[d]
      /\ m[c] = v
  BY <1>0, <1>2 DEF JudgeType
<1>9. Skipped' = Skipped
  BY <1>0, <1>2, <1>3, <1>7, <1>8 DEF Skipped
<1>. HIDE DEF m
<1>10. JudgeType'
  BY <1>0, <1>1, <1>7 DEF JudgeType, BatchType
<1>11. BatchInv'
  <2>1. ASSUME NEW a \in Batches, a # b
        PROVE  /\ batchPc'[a] = batchPc[a] /\ kind'[a] = kind[a] /\ skip'[a] = skip[a]
               /\ todo'[a] = todo[a] /\ judgeResult'[a] = judgeResult[a]
    BY <1>7, <2>1 DEF Goes
  <2>2. \A a \in Batches : a # b => Judge!At(a)' = Judge!At(a)
    BY <2>1 DEF Judge!At
  <2>3. \/ /\ left # {} /\ batchPc'[b] = "codex" /\ kind'[b] = kind[b]
           /\ skip'[b] = Skipped /\ todo'[b] = left
        \/ batchPc'[b] \in {"idle", "failed"} /\ kind'[b] = "none" /\ todo'[b] = {}
    BY <1>7 DEF Goes
  <2>. QED
    BY <1>0, <1>1, <1>9, <2>1, <2>2, <2>3 DEF BatchInv, AtWork
<1>12. LoneInv'
  BY <1>0, <1>1, <1>7 DEF LoneInv, Goes
<1>13. FileInv'
  <2>. SUFFICES ASSUME ~overlap' PROVE FileInv'
    BY DEF FileInv
  <2>1. ~overlap
    BY <1>1
  <2>2. \A a \in Batches \ {b} : todo[a] = {} /\ todo'[a] = {} /\ batchPc'[a] # "persist"
    BY <1>0, <1>1, <1>7, <2>1 DEF LoneInv, Goes, BatchInv, AtWork
  <2>3. todo'[b] \subseteq left /\ batchPc'[b] # "persist"
    BY <1>7 DEF Goes
  <2>4. \A d \in left : d \in Judge!Cases /\ state[d] # "judged" /\ d # c
    BY <1>0, <1>1, <2>1 DEF FileInv
  <2>5. \A d \in left : state'[d] # "judged"
    BY <1>7, <1>8, <2>4
  <2>6. file[c] = judgeResult[b]
    BY <1>0, <1>1, <2>1 DEF FileInv, c
  <2>7. ASSUME NEW d \in Judge!Cases, state'[d] = "judged" PROVE file'[d] = "judged"
    <3>1. CASE state[d] = "judged"
      BY <1>0, <1>1, <2>1, <3>1 DEF FileInv
    <3>2. CASE state[d] # "judged"
      <4>1. state'[d] = m[d] /\ d = c /\ v = "judged"
        BY <1>7, <1>8, <2>7, <3>2
      <4>2. judgeResult[b] = "judged"
        BY <1>3, <4>1
      <4>. QED
        BY <1>1, <2>6, <4>1, <4>2
    <3>. QED
      BY <3>1, <3>2
  <2>. QED
    BY <2>2, <2>3, <2>5, <2>7 DEF FileInv
<1>14. PendingInv'
  <2>. SUFFICES ASSUME ~stranded', NEW d \in Judge!Cases, state'[d] = "judge_pending"
                PROVE  \E a \in Batches : batchPc'[a] \in {"failed", "queued"} \/ d \in todo'[a]
    BY DEF PendingInv
  <2>1. ~stranded
    BY <1>7
  <2>2. CASE batchPc'[b] = "failed"
    BY <2>2
  <2>3. CASE batchPc'[b] # "failed" /\ d \in left
    BY <1>7, <2>3 DEF Goes
  <2>4. CASE batchPc'[b] # "failed" /\ d \notin left
    <3>1. state'[d] = m[d]
      BY <1>7, <2>4
    <3>2. d # c /\ state[d] = "judge_pending"
      BY <1>3, <1>8, <3>1
    <3>3. PICK a \in Batches : batchPc[a] \in {"failed", "queued"} \/ d \in todo[a]
      BY <1>0, <2>1, <3>2 DEF PendingInv
    <3>4. a # b
      BY <1>1, <2>4, <3>2, <3>3
    <3>. QED
      BY <1>7, <3>3, <3>4 DEF Goes
  <2>. QED
    BY <2>2, <2>3, <2>4
<1>15. StaleInv'
  <2>. SUFFICES ASSUME ~overlap', judgeFaults' = 0 PROVE StaleInv'
    BY DEF StaleInv
  <2>1. ~overlap /\ judgeFaults = 0
    BY <1>1, <1>7
  <2>2. \A a \in Batches : a # b => batchPc[a] \notin AtWork /\ batchPc'[a] \notin AtWork
    BY <1>0, <1>1, <1>7, <2>1 DEF LoneInv, Goes, BatchInv, AtWork
  <2>3. ASSUME NEW d \in Judge!Cases, file[d] = "judged", d # c
        PROVE  state[d] = "judged" /\ d \notin left
    <3>1. ~\E a \in Batches : batchPc[a] \in AtWork /\ d = Judge!At(a)
      BY <2>2, <2>3 DEF c
    <3>2. state[d] = "judged"
      BY <1>0, <2>1, <2>3, <3>1 DEF StaleInv
    <3>3. d \notin todo[b]
      BY <1>0, <2>1, <3>2 DEF FileInv
    <3>. QED
      BY <3>2, <3>3
  <2>4. file[c] = "judged" => v = "judged"
    <3>1. file[c] = judgeResult[b] /\ (c \in Skipped => judgeResult[b] = "judge_skipped")
      BY <1>0, <1>1, <2>1 DEF FileInv, BatchInv, c
    <3>. QED
      BY <1>3, <3>1
  <2>5. \A d \in Judge!Cases : file'[d] = "judged" => state'[d] = "judged" /\ d \notin left
    BY <1>1, <1>7, <1>8, <2>3, <2>4
  <2>6. ASSUME NEW a \in Batches, batchPc'[a] = "codex" PROVE file'[Judge!At(a)'] # "judged"
    <3>1. a = b /\ left # {} /\ todo'[b] = left
      BY <1>7, <2>2, <2>6 DEF Goes, AtWork
    <3>2. Judge!At(a)' \in left
      BY <1>5, <3>1, LeastCase DEF Judge!At
    <3>. QED
      BY <1>5, <2>5, <3>2
  <2>. QED
    BY <1>0, <1>1, <2>1, <2>5, <2>6 DEF StaleInv
<1>. QED
  BY <1>10, <1>11, <1>12, <1>13, <1>14, <1>15 DEF JudgeInv

(* Every step of a batch, of a request and of a restart keeps it.          *)
LEMMA JudgeStep == JudgeInv /\ Judge!Next => JudgeInv'
<1>. SUFFICES ASSUME JudgeInv, Judge!Next PROVE JudgeInv'
  OBVIOUS
<1>0. JudgeType /\ BatchInv /\ LoneInv /\ FileInv /\ PendingInv /\ StaleInv
  BY DEF JudgeInv
<1>1. ASSUME NEW b \in Batches, Judge!JudgeRun(b) PROVE JudgeInv'
  BY <1>1, RunBatchKeeps DEF Judge!JudgeRun
<1>2. ASSUME NEW b \in Batches, Judge!ScheduleJudgeRun(b) PROVE JudgeInv'
  <2>1. /\ batchPc[b] = "idle" /\ ~Judge!ActiveJob
        /\ file' = file /\ skip' = skip /\ todo' = todo /\ judgeResult' = judgeResult
        /\ wrote' = wrote /\ stale' = stale
    BY <1>2 DEF Judge!ScheduleJudgeRun
  <2>2. \/ /\ batchPc' = [batchPc EXCEPT ![b] = "queued"] /\ kind' = [kind EXCEPT ![b] = "job"]
           /\ stranded' = FALSE /\ judgeFaults' = judgeFaults /\ overlap' \in BOOLEAN
           /\ overlap => overlap'
           /\ (\E a \in Batches \ {b} : Judge!Working(a) /\ kind[a] = "sync") => overlap'
        \/ /\ batchPc' = batchPc /\ kind' = kind /\ overlap' = overlap
           /\ stranded' = TRUE /\ judgeFaults' = judgeFaults + 1
    BY <1>0, <1>2 DEF Judge!ScheduleJudgeRun, JudgeType
  <2>3. /\ state' \in [Judge!Cases -> States]
        /\ \A c \in Judge!Cases :
             \/ state'[c] = state[c]
             \/ /\ state[c] # "skipped_auth_missing" /\ state'[c] = "judge_pending"
                /\ ~(state[c] = "judged" /\ file[c] = "judged")
    <3>1. PICK n : state' = Judge!Marked(n)
      BY <1>2 DEF Judge!ScheduleJudgeRun
    <3>. QED
      BY <1>0, <3>1 DEF Judge!Marked, JudgeType, States, Judge!Requires, Judge!Evaluations
  <2>4. JudgeType'
    <3>1. judgeFaults' \in Nat
      BY <1>0, <2>2, SMT DEF JudgeType
    <3>3. overlap' \in BOOLEAN /\ stranded' \in BOOLEAN
      BY <1>0, <2>2, Zenon DEF JudgeType
    <3>2. /\ batchPc' \in [Batches -> {"idle", "failed", "queued"} \cup AtWork]
          /\ kind' \in [Batches -> {"none", "sync", "job"}]
      BY <1>0, <2>2 DEF JudgeType
    <3>. QED
      BY <1>0, <2>1, <2>3, <3>1, <3>2, <3>3 DEF JudgeType
  <2>5. Skipped' = Skipped
    BY <2>3 DEF Skipped
  <2>6. BatchInv'
    BY <1>0, <2>1, <2>2, <2>5 DEF JudgeType, BatchInv, AtWork, Judge!At
  <2>7. \A a \in Batches : kind[a] # "none" => Judge!Working(a)
    BY <1>0 DEF BatchInv, Judge!Working
  <2>8. LoneInv'
    <3>1. \A a \in Batches : kind[a] # "job"
      BY <2>1, <2>7 DEF Judge!ActiveJob
    <3>2. CASE kind' = kind /\ overlap' = overlap
      BY <1>0, <3>2 DEF LoneInv
    <3>3. CASE kind' # kind \/ overlap' # overlap
      <4>1. \A a \in Batches \ {b} : kind'[a] = kind[a] /\ (kind[a] # "none" => overlap')
        BY <1>0, <2>2, <2>7, <3>1, <3>3 DEF JudgeType
      <4>2. overlap => overlap'
        BY <2>2
      <4>. QED
        BY <1>0, <3>1, <4>1, <4>2 DEF LoneInv, JudgeType
    <3>. QED
      BY <3>2, <3>3
  <2>9. FileInv'
    <3>1. overlap => overlap'
      BY <2>2
    <3>2. \A a \in Batches : batchPc'[a] = "persist" => batchPc[a] = "persist"
      BY <1>0, <2>2 DEF JudgeType
    <3>. QED
      BY <1>0, <2>1, <2>3, <3>1, <3>2 DEF JudgeType, FileInv, Judge!At
  <2>10. PendingInv'
    BY <1>0, <2>1, <2>2 DEF JudgeType, PendingInv
  <2>11. StaleInv'
    <3>. SUFFICES ASSUME ~overlap', judgeFaults' = 0 PROVE StaleInv'
      BY DEF StaleInv
    <3>1. ~overlap /\ judgeFaults = 0 /\ batchPc' = [batchPc EXCEPT ![b] = "queued"]
      BY <1>0, <2>2 DEF JudgeType
    <3>2. \A a \in Batches :
            /\ batchPc'[a] = "codex" => batchPc[a] = "codex"
            /\ batchPc[a] \in AtWork => batchPc'[a] \in AtWork
            /\ Judge!At(a)' = Judge!At(a)
      BY <1>0, <2>1, <3>1 DEF JudgeType, AtWork, Judge!At
    <3>. QED
      BY <1>0, <2>1, <2>3, <3>1, <3>2 DEF StaleInv
  <2>. QED
    BY <2>4, <2>6, <2>8, <2>9, <2>10, <2>11 DEF JudgeInv
<1>3. ASSUME NEW b \in Batches, Judge!RunJob(b) PROVE JudgeInv'
  <2>1. batchPc[b] = "queued" /\ kind[b] = "job"
    BY <1>0, <1>3 DEF Judge!RunJob, BatchInv
  <2>2. CASE Judge!RunBatch(b, "job")
    BY <2>1, <2>2, RunBatchKeeps
  <2>3. CASE /\ Judge!Fails(b, "job") /\ state' = state /\ file' = file /\ overlap' = overlap
             /\ judgeFaults' = judgeFaults /\ stale' = stale
    <3>1. /\ batchPc' = [batchPc EXCEPT ![b] = "failed"] /\ kind' = [kind EXCEPT ![b] = "none"]
          /\ skip' = [skip EXCEPT ![b] = {}] /\ todo' = [todo EXCEPT ![b] = {}]
          /\ judgeResult' = [judgeResult EXCEPT ![b] = "none"] /\ stranded' = stranded
          /\ wrote' = [wrote EXCEPT ![b] = FALSE]
      BY <1>0, <2>3 DEF Judge!Fails, Judge!Leaves, JudgeType
    <3>2. JudgeType'
      BY <1>0, <2>3, <3>1 DEF JudgeType
    <3>3. BatchInv'
      BY <1>0, <2>3, <3>1 DEF JudgeType, BatchInv, AtWork, Skipped, Judge!At
    <3>4. LoneInv' /\ FileInv'
      BY <1>0, <2>3, <3>1 DEF JudgeType, LoneInv, FileInv, Judge!At
    <3>5. PendingInv'
      BY <1>0, <2>1, <2>3, <3>1 DEF JudgeType, PendingInv
    <3>6. StaleInv'
      <4>1. \A a \in Batches :
              /\ batchPc'[a] = "codex" => batchPc[a] = "codex" /\ wrote'[a] = wrote[a]
              /\ batchPc[a] \in AtWork => batchPc'[a] \in AtWork /\ Judge!At(a)' = Judge!At(a)
              /\ batchPc'[a] = "codex" => Judge!At(a)' = Judge!At(a)
        BY <1>0, <2>1, <3>1 DEF JudgeType, AtWork, Judge!At
      <4>. QED
        BY <1>0, <2>3, <4>1 DEF StaleInv
    <3>. QED
      BY <3>2, <3>3, <3>4, <3>5, <3>6 DEF JudgeInv
  <2>. QED
    BY <1>3, <2>2, <2>3 DEF Judge!RunJob, Judge!manifest
<1>4. ASSUME NEW b \in Batches, batchPc[b] \in AtWork
      PROVE  /\ Judge!At(b) \in todo[b] /\ Judge!At(b) \in Judge!Cases
             /\ kind[b] # "none" /\ skip[b] = Skipped
  BY <1>0, <1>4, LeastCase DEF BatchInv, JudgeType, Judge!At, AtWork
<1>5. ASSUME NEW b \in Batches, Judge!CodexWrites(b) PROVE JudgeInv'
  <2>1. /\ batchPc[b] = "codex"
        /\ state' = state /\ batchPc' = batchPc /\ kind' = kind /\ skip' = skip /\ todo' = todo
        /\ judgeResult' = judgeResult /\ overlap' = overlap /\ stranded' = stranded
        /\ wrote' = [wrote EXCEPT ![b] = TRUE] /\ judgeFaults' = judgeFaults /\ stale' = stale
    BY <1>5 DEF Judge!CodexWrites, Judge!observed
  <2>2. PICK v \in {"bad", "judged"} : file' = [file EXCEPT ![Judge!At(b)] = v]
    BY <1>5 DEF Judge!CodexWrites
  <2>3. JudgeType'
    BY <1>0, <2>1, <2>2 DEF JudgeType, Judge!Evaluations
  <2>4. BatchInv' /\ LoneInv' /\ PendingInv'
    BY <1>0, <2>1 DEF BatchInv, LoneInv, PendingInv, Skipped, Judge!At
  <2>5. FileInv'
    <3>. SUFFICES ASSUME ~overlap' PROVE FileInv'
      BY DEF FileInv
    <3>1. state[Judge!At(b)] # "judged" /\ \A a \in Batches : batchPc[a] # "persist"
      BY <1>0, <1>4, <2>1 DEF FileInv, LoneInv, BatchInv, AtWork
    <3>2. \A c \in Judge!Cases : c # Judge!At(b) => file'[c] = file[c]
      BY <1>0, <2>2 DEF JudgeType
    <3>. QED
      BY <1>0, <2>1, <3>1, <3>2 DEF FileInv
  <2>6. StaleInv'
    <3>. SUFFICES ASSUME ~overlap', judgeFaults' = 0 PROVE StaleInv'
      BY DEF StaleInv
    <3>1. \A a \in Batches : batchPc[a] = "codex" => a = b
      BY <1>0, <2>1 DEF LoneInv, BatchInv, AtWork
    <3>2. wrote'[b] = TRUE /\ \A a \in Batches : Judge!At(a)' = Judge!At(a)
      BY <1>0, <2>1 DEF JudgeType, Judge!At
    <3>3. \A c \in Judge!Cases : c # Judge!At(b) => file'[c] = file[c]
      BY <1>0, <2>2 DEF JudgeType
    <3>. QED
      BY <1>0, <2>1, <3>1, <3>2, <3>3 DEF StaleInv, AtWork
  <2>. QED
    BY <2>3, <2>4, <2>5, <2>6 DEF JudgeInv
<1>6. ASSUME NEW b \in Batches, Judge!CodexEnds(b) PROVE JudgeInv'
  <2>1. /\ batchPc[b] = "codex" /\ batchPc' = [batchPc EXCEPT ![b] = "write"]
        /\ state' = state /\ file' = file /\ kind' = kind /\ skip' = skip /\ todo' = todo
        /\ overlap' = overlap /\ stranded' = stranded /\ judgeFaults' = judgeFaults
        /\ wrote' = [wrote EXCEPT ![b] = FALSE]
    BY <1>6 DEF Judge!CodexEnds, Judge!manifest
  <2>2. PICK v \in Judge!Outcome(b) :
          /\ judgeResult' = [judgeResult EXCEPT ![b] = v]
          /\ stale' = (stale \/ (v = "judged" /\ ~wrote[b]))
    BY <1>6 DEF Judge!CodexEnds
  <2>3. v \in Judge!Evaluations /\ (Judge!At(b) \in skip[b] => v = "judge_skipped")
    BY <2>2 DEF Judge!Outcome, Judge!Evaluations
  <2>4. JudgeType'
    BY <1>0, <2>1, <2>2, <2>3 DEF JudgeType, AtWork
  <2>5. BatchInv'
    BY <1>0, <2>1, <2>2, <2>3 DEF JudgeType, BatchInv, AtWork, Skipped, Judge!At
  <2>6. LoneInv' /\ PendingInv'
    BY <1>0, <2>1 DEF JudgeType, LoneInv, PendingInv
  <2>7. FileInv'
    BY <1>0, <2>1, <2>2 DEF JudgeType, FileInv, Judge!At
  <2>8. StaleInv'
    <3>. SUFFICES ASSUME ~overlap', judgeFaults' = 0 PROVE StaleInv'
      BY DEF StaleInv
    <3>1. v = "judged" => file[Judge!At(b)] = "judged"
      BY <2>2 DEF Judge!Outcome
    <3>2. ~stale'
      BY <1>0, <2>1, <2>2, <3>1 DEF StaleInv
    <3>3. \A a \in Batches :
            /\ batchPc'[a] = "codex" => batchPc[a] = "codex" /\ wrote'[a] = wrote[a]
            /\ batchPc[a] \in AtWork => batchPc'[a] \in AtWork
            /\ Judge!At(a)' = Judge!At(a)
      BY <1>0, <2>1 DEF JudgeType, AtWork, Judge!At
    <3>. QED
      BY <1>0, <2>1, <3>2, <3>3 DEF StaleInv
  <2>. QED
    BY <2>4, <2>5, <2>6, <2>7, <2>8 DEF JudgeInv
<1>7. ASSUME NEW b \in Batches, Judge!WriteEvaluation(b) PROVE JudgeInv'
  <2>1. /\ batchPc[b] = "write" /\ batchPc' = [batchPc EXCEPT ![b] = "persist"]
        /\ file' = [file EXCEPT ![Judge!At(b)] = judgeResult[b]]
        /\ state' = state /\ kind' = kind /\ skip' = skip /\ todo' = todo
        /\ judgeResult' = judgeResult /\ overlap' = overlap /\ stranded' = stranded
        /\ wrote' = wrote /\ judgeFaults' = judgeFaults /\ stale' = stale
    BY <1>7 DEF Judge!WriteEvaluation, Judge!observed
  <2>2. JudgeType'
    BY <1>0, <2>1 DEF JudgeType, AtWork
  <2>3. BatchInv'
    BY <1>0, <2>1 DEF JudgeType, BatchInv, AtWork, Skipped, Judge!At
  <2>4. LoneInv' /\ PendingInv'
    BY <1>0, <2>1 DEF JudgeType, LoneInv, PendingInv
  <2>5. FileInv'
    <3>. SUFFICES ASSUME ~overlap' PROVE FileInv'
      BY DEF FileInv
    <3>1. /\ state[Judge!At(b)] # "judged"
          /\ \A a \in Batches : a # b => batchPc[a] # "persist"
      BY <1>0, <1>4, <2>1 DEF FileInv, LoneInv, BatchInv, AtWork
    <3>2. /\ \A c \in Judge!Cases : c # Judge!At(b) => file'[c] = file[c]
          /\ file'[Judge!At(b)] = judgeResult[b] /\ Judge!At(b)' = Judge!At(b)
      BY <1>0, <1>4, <2>1 DEF JudgeType, AtWork, Judge!At
    <3>3. \A a \in Batches : batchPc'[a] = "persist" => a = b
      BY <1>0, <2>1, <3>1 DEF JudgeType
    <3>. QED
      BY <1>0, <2>1, <3>1, <3>2, <3>3 DEF FileInv
  <2>6. StaleInv'
    <3>. SUFFICES ASSUME ~overlap', judgeFaults' = 0 PROVE StaleInv'
      BY DEF StaleInv
    <3>1. \A a \in Batches : batchPc[a] \in AtWork => a = b
      BY <1>0, <1>4, <2>1 DEF LoneInv, AtWork
    <3>2. \A c \in Judge!Cases : c # Judge!At(b) => file'[c] = file[c]
      BY <1>0, <2>1 DEF JudgeType
    <3>3. /\ batchPc'[b] \in AtWork /\ Judge!At(b)' = Judge!At(b)
          /\ \A a \in Batches : batchPc'[a] # "codex"
      BY <1>0, <2>1, <3>1 DEF JudgeType, AtWork, Judge!At
    <3>. QED
      BY <1>0, <2>1, <3>1, <3>2, <3>3 DEF StaleInv
  <2>. QED
    BY <2>2, <2>3, <2>4, <2>5, <2>6 DEF JudgeInv
<1>8. ASSUME NEW b \in Batches, Judge!PersistJudgeResult(b) PROVE JudgeInv'
  BY <1>8, PersistKeeps
<1>9. ASSUME NEW b \in Batches, Judge!FinalizeJudgeTask(b) PROVE JudgeInv'
  <2>1. /\ batchPc[b] = "failed" /\ batchPc' = [batchPc EXCEPT ![b] = "idle"]
        /\ file' = file /\ kind' = kind /\ skip' = skip /\ todo' = todo
        /\ judgeResult' = judgeResult /\ overlap' = overlap /\ wrote' = wrote /\ stale' = stale
    BY <1>9 DEF Judge!FinalizeJudgeTask
  <2>2. \/ state' = Judge!Settled(N) /\ stranded' = FALSE /\ judgeFaults' = judgeFaults
        \/ stranded' = TRUE /\ judgeFaults' = judgeFaults + 1
    BY <1>9 DEF Judge!FinalizeJudgeTask
  <2>3. PICK n : state' = Judge!Settled(n)
    BY <1>9 DEF Judge!FinalizeJudgeTask
  <2>4. JudgeType'
    <3>1. judgeFaults' \in Nat
      BY <1>0, <2>2, SMT DEF JudgeType
    <3>3. stranded' \in BOOLEAN
      BY <2>2, Zenon
    <3>2. state' \in [Judge!Cases -> States]
      BY <1>0, <2>3 DEF JudgeType, States, Judge!Terminal, Judge!Settled
    <3>. QED
      BY <1>0, <2>1, <3>1, <3>2, <3>3 DEF JudgeType
  <2>5. Skipped' = Skipped
    BY <2>3 DEF Skipped, Judge!Settled
  <2>6. BatchInv'
    BY <1>0, <2>1, <2>5 DEF JudgeType, BatchInv, AtWork, Judge!At
  <2>7. LoneInv'
    BY <1>0, <2>1 DEF LoneInv
  <2>8. PendingInv'
    <3>1. \A c \in Judge!Cases : c <= N
      BY DEF Judge!Cases
    <3>. QED
      BY <2>2, <3>1 DEF PendingInv, Judge!Settled
  <2>9. FileInv'
    BY <1>0, <2>1, <2>3 DEF JudgeType, FileInv, Judge!At, Judge!Settled
  <2>10. StaleInv'
    <3>. SUFFICES ASSUME ~overlap', judgeFaults' = 0 PROVE StaleInv'
      BY DEF StaleInv
    <3>1. ~overlap /\ judgeFaults = 0
      BY <1>0, <2>1, <2>2 DEF JudgeType
    <3>2. \A a \in Batches :
            /\ batchPc'[a] = "codex" => batchPc[a] = "codex"
            /\ batchPc[a] \in AtWork => batchPc'[a] \in AtWork
            /\ Judge!At(a)' = Judge!At(a)
      BY <1>0, <2>1 DEF JudgeType, AtWork, Judge!At
    <3>3. \A c \in Judge!Cases : state[c] = "judged" => state'[c] = "judged"
      BY <2>3 DEF Judge!Settled
    <3>. QED
      BY <1>0, <2>1, <3>1, <3>2, <3>3 DEF StaleInv
  <2>. QED
    BY <2>4, <2>6, <2>7, <2>8, <2>9, <2>10 DEF JudgeInv
<1>10. ASSUME NEW c \in Judge!Cases, Judge!LateCallback(c) PROVE JudgeInv'
  <2>1. /\ file' = file /\ batchPc' = batchPc /\ kind' = kind /\ skip' = skip /\ todo' = todo
        /\ judgeResult' = judgeResult /\ overlap' = overlap /\ stranded' = stranded
        /\ wrote' = wrote /\ judgeFaults' = judgeFaults /\ stale' = stale
    BY <1>10 DEF Judge!LateCallback, Judge!batch, Judge!observed
  <2>2. \/ state' = state
        \/ /\ state[c] # "skipped_auth_missing" /\ state[c] # "judged"
           /\ \E v \in {"waiting_user", "payment_ready", "running", "unverified", "finished"} :
                state' = [state EXCEPT ![c] = v]
    BY <1>10 DEF Judge!LateCallback, Judge!LateStates, Judge!LateVerdicts, Judge!Terminal, Judge!Ended
  <2>3. /\ state' \in [Judge!Cases -> States] /\ Skipped' = Skipped
        /\ \A d \in Judge!Cases : state'[d] \in {"judged", "judge_pending"} => state'[d] = state[d]
        /\ \A d \in Judge!Cases : state[d] = "judged" => state'[d] = "judged"
    BY <1>0, <2>2 DEF JudgeType, States, Judge!Incomplete, Judge!Terminal, Judge!Ended, Skipped
  <2>4. JudgeType'
    BY <1>0, <2>1, <2>3 DEF JudgeType
  <2>5. BatchInv' /\ LoneInv' /\ PendingInv'
    BY <1>0, <2>1, <2>3 DEF BatchInv, LoneInv, PendingInv, Judge!At
  <2>6. FileInv'
    BY <1>0, <2>1, <2>3 DEF FileInv, JudgeType, Judge!At
  <2>7. StaleInv'
    BY <1>0, <2>1, <2>3 DEF StaleInv, Judge!At
  <2>. QED
    BY <2>4, <2>5, <2>6, <2>7 DEF JudgeInv
<1>11. CASE Judge!Restart
  <2>1. /\ batchPc' = [b \in Batches |-> "idle"] /\ kind' = [b \in Batches |-> "none"]
        /\ skip' = [b \in Batches |-> {}] /\ todo' = [b \in Batches |-> {}]
        /\ judgeResult' = [b \in Batches |-> "none"]
        /\ state' = state /\ file' = file /\ overlap' = overlap /\ stale' = stale
        /\ wrote' = [b \in Batches |-> FALSE]
        /\ judgeFaults' \in Nat /\ judgeFaults' # 0
        /\ stranded' \in BOOLEAN /\ (stranded => stranded')
        /\ (\E b \in Batches : batchPc[b] # "idle") => stranded'
    <3>1. judgeFaults' = judgeFaults + 1 /\ judgeFaults \in Nat
      BY <1>0, <1>11 DEF Judge!Restart, JudgeType
    <3>2. judgeFaults' \in Nat /\ judgeFaults' # 0
      BY <3>1
    <3>3. stranded' = (stranded \/ \E b \in Batches : batchPc[b] # "idle")
      BY <1>11 DEF Judge!Restart
    <3>4. /\ stranded' \in BOOLEAN /\ (stranded => stranded')
          /\ (\E b \in Batches : batchPc[b] # "idle") => stranded'
      BY <3>3, Zenon
    <3>. QED
      BY <1>11, <3>2, <3>4 DEF Judge!Restart, Judge!manifest
  <2>2. JudgeType'
    BY <1>0, <2>1 DEF JudgeType
  <2>3. BatchInv' /\ LoneInv' /\ FileInv'
    BY <1>0, <2>1 DEF BatchInv, LoneInv, FileInv, AtWork
  <2>4. PendingInv'
    BY <1>0, <2>1 DEF PendingInv, BatchInv, AtWork
  <2>5. StaleInv'
    BY <2>1 DEF StaleInv
  <2>. QED
    BY <2>2, <2>3, <2>4, <2>5 DEF JudgeInv
<1>. QED
  BY <1>1, <1>2, <1>3, <1>5, <1>6, <1>7, <1>8, <1>9, <1>10, <1>11 DEF Judge!Next

-----------------------------------------------------------------------------
(* AgentStep *)

(* In a behaviour of the step only its own steps are taken.                *)
LEMMA StepMoves ==
  ASSUME [PartsNext]_allVars, part = "step"
  PROVE  part' = part /\ (Step!Next \/ UNCHANGED stepVars)
  BY DEF PartsNext, allVars

BatchOf == [source : Step!Sources \cup {"step-finished"}, items : Seq(Nat), sequence : Nat]
Waiter == [who : Step!Sources \cup {"timer", "closer", "runner"}, batch : BatchOf]
QueueType ==
  /\ stepPc \in {"probe", "spawn", "collect", "closing", "killed", "result", "finishing", "over"}
  /\ published \in [Step!Sources -> Nat]
  /\ reader \in [Step!Sources -> {"reading", "publishing", "done", "cancelled"}]
  /\ pending \in [source : Step!Sources \cup {"none"}, items : Seq(Nat)]
  /\ sequence \in Nat
  /\ lockq \in Seq(Waiter) /\ outbox \in Seq(BatchOf) /\ dropped \subseteq BatchOf

(* Items are pending only while the readers read.                          *)
ReaderInv ==
  /\ \A s \in Step!Sources : reader[s] = "publishing" => stepPc = "collect"
  /\ stepPc # "collect" => pending = Step!Empty
  /\ pending.source = "none" <=> pending.items = <<>>

(* From the head of the outbox to the last waiter of the lock batches      *)
(* stand in their order, and agent_step_finished comes last.               *)
Numbered(b) == b.sequence <= sequence
Before(a, b) == b # Step!Finished => a.sequence < b.sequence
OrderInv ==
  /\ \A i \in DOMAIN lockq : Numbered(lockq[i].batch)
  /\ \A i \in DOMAIN outbox : Numbered(outbox[i])
  /\ \A i, j \in DOMAIN lockq : i < j => Before(lockq[i].batch, lockq[j].batch)
  /\ \A i \in DOMAIN outbox, j \in DOMAIN lockq : Before(outbox[i], lockq[j].batch)
  /\ \A i, j \in DOMAIN outbox : i < j => Before(outbox[i], outbox[j])
LastInv ==
  /\ stepPc \notin {"finishing", "over"} =>
       /\ \A i \in DOMAIN lockq : lockq[i].batch # Step!Finished
       /\ \A i \in DOMAIN outbox : outbox[i] # Step!Finished
  /\ \A i \in DOMAIN lockq : lockq[i].batch = Step!Finished => i = Len(lockq)
  /\ \A i \in DOMAIN outbox : outbox[i] = Step!Finished => i = Len(outbox) /\ lockq = <<>>

(* An item of s is in a batch, or is pending.                              *)
Has(b, s, n) == b.source = s /\ \E i \in DOMAIN b.items : b.items[i] = n
ItemInv ==
  /\ \A s \in Step!Sources, n \in Nat :
       Has(pending, s, n) \/ (\E b \in Step!AllBatches : Has(b, s, n)) => n \in 1..published[s]
  /\ \A s \in Step!Sources : \A n \in 1..published[s] :
       IF Has(pending, s, n) THEN \A b \in Step!AllBatches : ~Has(b, s, n)
       ELSE \E b \in Step!AllBatches : Has(b, s, n) /\ \A c \in Step!AllBatches : Has(c, s, n) => c = b

QueueInv == QueueType /\ ReaderInv /\ OrderInv /\ LastInv
StepInv == QueueInv /\ ItemInv

(* No source has the name that an empty publisher carries.                 *)
LEMMA SourceNames == "none" \notin Step!Sources
  BY ComponentsAssumption DEF ComponentsAssumption, Step!Sources

(* agent_step_finished is queued as a batch without a number.              *)
LEMMA FinishedTyped == Step!Finished \in BatchOf /\ Step!Finished.sequence = 0
  BY DEF Step!Finished, BatchOf

(* The batches of a step, without Range.                                   *)
LEMMA BatchesAre ==
  ASSUME NEW b
  PROVE  b \in Step!AllBatches <=>
           /\ b # Step!Finished
           /\ \/ \E i \in DOMAIN outbox : b = outbox[i]
              \/ \E i \in DOMAIN lockq : b = lockq[i].batch
              \/ b \in dropped
  BY DEF Step!AllBatches, Step!Taken, Step!Range

(* Nothing is read, pending, queued or sent.                               *)
LEMMA StepInit == Step!Init => StepInv
<1>. SUFFICES ASSUME Step!Init PROVE StepInv
  OBVIOUS
<1>1. lockq = <<>> /\ outbox = <<>> /\ dropped = {} /\ pending = Step!Empty /\ sequence = 0
  BY DEF Step!Init
<1>2. lockq \in Seq(Waiter) /\ outbox \in Seq(BatchOf)
  BY <1>1
<1>3. published \in [Step!Sources -> Nat] /\ \A s \in Step!Sources : published[s] = 0
  BY DEF Step!Init
<1>4. QueueType
  BY <1>1, <1>2, <1>3 DEF Step!Init, QueueType, Step!Empty
<1>5. ReaderInv /\ OrderInv /\ LastInv
  BY <1>1 DEF Step!Init, ReaderInv, OrderInv, LastInv, Step!Empty
<1>6. Step!AllBatches = {}
  BY <1>1, BatchesAre
<1>7. \A s, n : ~Has(pending, s, n)
  BY <1>1 DEF Has, Step!Empty
<1>8. ItemInv
  BY <1>3, <1>6, <1>7 DEF ItemInv
<1>. QED
  BY <1>4, <1>5, <1>8 DEF StepInv, QueueInv

(* A waiter joins the queue.                                               *)
LEMMA Joins ==
  ASSUME QueueType, NEW w \in Waiter, lockq' = Append(lockq, w), outbox' = outbox, dropped' = dropped
  PROVE  /\ lockq' \in Seq(Waiter) /\ Len(lockq') = Len(lockq) + 1 /\ lockq'[Len(lockq')] = w
         /\ \A i \in DOMAIN lockq : i \in DOMAIN lockq' /\ lockq'[i] = lockq[i]
         /\ \A i \in DOMAIN lockq' : i \in DOMAIN lockq \/ i = Len(lockq')
         /\ \A i \in DOMAIN lockq : i < Len(lockq')
         /\ w.batch # Step!Finished => Step!AllBatches' = Step!AllBatches \cup {w.batch}
         /\ w.batch = Step!Finished => Step!AllBatches' = Step!AllBatches
<1>1. /\ lockq' \in Seq(Waiter) /\ Len(lockq') = Len(lockq) + 1 /\ lockq'[Len(lockq')] = w
      /\ \A i \in DOMAIN lockq : i \in DOMAIN lockq' /\ lockq'[i] = lockq[i]
      /\ \A i \in DOMAIN lockq' : i \in DOMAIN lockq \/ i = Len(lockq')
      /\ \A i \in DOMAIN lockq : i < Len(lockq')
      /\ Len(lockq') \in DOMAIN lockq'
  BY DEF QueueType
<1>2. ASSUME NEW b
      PROVE  b \in Step!AllBatches' <=>
               /\ b # Step!Finished
               /\ \/ \E i \in DOMAIN outbox : b = outbox[i]
                  \/ \E i \in DOMAIN lockq' : b = lockq'[i].batch
                  \/ b \in dropped
  BY DEF Step!AllBatches, Step!Taken, Step!Range, Step!Finished
<1>3. ASSUME NEW b
      PROVE  (\E i \in DOMAIN lockq' : b = lockq'[i].batch) <=>
               (\E i \in DOMAIN lockq : b = lockq[i].batch) \/ b = w.batch
  BY <1>1
<1>4. \A b : b \in Step!AllBatches' <=>
         b # Step!Finished /\ (b \in Step!AllBatches \/ b = w.batch)
  BY <1>2, <1>3, BatchesAre
<1>5. \A b : b \in Step!AllBatches => b # Step!Finished
  BY BatchesAre
<1>. QED
  BY <1>1, <1>4, <1>5

(* A batch joins the queue with the next number.                           *)
LEMMA BatchJoins ==
  ASSUME QueueInv, stepPc \notin {"finishing", "over"}, stepPc' \notin {"finishing", "over"},
         NEW w \in Waiter, w.batch.sequence = sequence + 1, sequence' = sequence + 1,
         lockq' = Append(lockq, w), outbox' = outbox, dropped' = dropped
  PROVE  /\ sequence' \in Nat /\ lockq' \in Seq(Waiter) /\ OrderInv' /\ LastInv'
         /\ Step!AllBatches' = Step!AllBatches \cup {w.batch}
<1>0. QueueType /\ OrderInv /\ LastInv
  BY DEF QueueInv
<1>1. sequence \in Nat /\ w.batch # Step!Finished
  BY <1>0, FinishedTyped DEF QueueType
<1>2. /\ lockq' \in Seq(Waiter) /\ Len(lockq') = Len(lockq) + 1 /\ lockq'[Len(lockq')] = w
      /\ \A i \in DOMAIN lockq : i \in DOMAIN lockq' /\ lockq'[i] = lockq[i]
      /\ \A i \in DOMAIN lockq' : i \in DOMAIN lockq \/ i = Len(lockq')
      /\ \A i \in DOMAIN lockq : i < Len(lockq')
      /\ Step!AllBatches' = Step!AllBatches \cup {w.batch}
  BY <1>0, <1>1, Joins
<1>3. LastInv'
  BY <1>0, <1>1, <1>2 DEF LastInv
<1>4. /\ \A i \in DOMAIN lockq : lockq[i].batch.sequence \in Nat
      /\ \A i \in DOMAIN outbox : outbox[i].sequence \in Nat
  <2>1. \A i \in DOMAIN lockq : lockq[i] \in Waiter
    BY <1>0 DEF QueueType
  <2>2. \A i \in DOMAIN outbox : outbox[i] \in BatchOf
    BY <1>0 DEF QueueType
  <2>. QED
    BY <2>1, <2>2 DEF Waiter, BatchOf
<1>5. OrderInv'
  <2>1. \A i \in DOMAIN lockq : lockq[i].batch.sequence < w.batch.sequence
    BY <1>0, <1>1, <1>4 DEF OrderInv, Numbered
  <2>2. \A i \in DOMAIN outbox : outbox[i].sequence < w.batch.sequence
    BY <1>0, <1>1, <1>4 DEF OrderInv, Numbered
  <2>3. /\ \A i \in DOMAIN lockq' : lockq'[i].batch.sequence <= sequence'
        /\ \A i \in DOMAIN outbox' : outbox'[i].sequence <= sequence'
    BY <1>1, <1>2, <1>4, <2>1, <2>2
  <2>4. ASSUME NEW i \in DOMAIN lockq', NEW j \in DOMAIN lockq', i < j
        PROVE  Before(lockq'[i].batch, lockq'[j].batch)
    <3>1. i \in DOMAIN lockq /\ lockq'[i] = lockq[i]
      BY <1>0, <1>2, <2>4 DEF QueueType
    <3>2. CASE j \in DOMAIN lockq
      BY <1>0, <1>2, <2>4, <3>1, <3>2 DEF OrderInv
    <3>3. CASE j \notin DOMAIN lockq
      BY <1>2, <2>1, <3>1, <3>3 DEF Before
    <3>. QED
      BY <3>2, <3>3
  <2>5. \A i \in DOMAIN outbox, j \in DOMAIN lockq' : Before(outbox[i], lockq'[j].batch)
    BY <1>0, <1>2, <2>2 DEF OrderInv, Before
  <2>. QED
    BY <1>0, <2>3, <2>4, <2>5 DEF OrderInv, Before, Numbered, Step!Finished
<1>. QED
  BY <1>1, <1>2, <1>3, <1>5

(* A step that hands nothing to the queue, or takes nothing from it.       *)
LEMMA QuietKeeps ==
  ASSUME StepInv, lockq' = lockq, outbox' = outbox, dropped' = dropped, pending' = pending,
         sequence' = sequence, published' = published, QueueType',
         \A s \in Step!Sources : reader'[s] = "publishing" => stepPc' = "collect",
         stepPc' # "collect" => pending = Step!Empty,
         stepPc' \notin {"finishing", "over"} => stepPc \notin {"finishing", "over"}
  PROVE  StepInv'
<1>1. ReaderInv'
  BY DEF StepInv, QueueInv, ReaderInv, Step!Empty
<1>2. OrderInv' /\ LastInv'
  BY DEF StepInv, QueueInv, OrderInv, LastInv, Numbered, Before, Step!Finished
<1>3. ItemInv'
  BY DEF StepInv, ItemInv, Has, Step!AllBatches, Step!Taken, Step!Finished, Step!Range
<1>. QED
  BY <1>1, <1>2, <1>3 DEF StepInv, QueueInv

(* An empty publisher holds no item.                                       *)
LEMMA EmptyHasNothing == \A s, n : ~Has(Step!Empty, s, n)
  BY DEF Has, Step!Empty

(* A batch holds the items that were pending.                              *)
LEMMA BatchHas == \A p, k, s, n : Has(Step!Batch(p, k), s, n) <=> Has(p, s, n)
  BY DEF Has, Step!Batch

(* What is pending becomes a batch.                                        *)
LEMMA ItemsTaken ==
  ASSUME ItemInv, NEW k, Step!AllBatches' = Step!AllBatches \cup {Step!Batch(pending, k)},
         pending' = Step!Empty, published' = published
  PROVE  ItemInv'
<1>. DEFINE x == Step!Batch(pending, k)
<1>1. \A s, n : Has(x, s, n) <=> Has(pending, s, n)
  BY BatchHas
<1>2. \A s, n : ~Has(pending', s, n)
  BY EmptyHasNothing
<1>. HIDE DEF x
<1>3. Step!AllBatches' = Step!AllBatches \cup {x}
  BY DEF x
<1>4. ASSUME NEW s \in Step!Sources, NEW n \in 1..published[s]
      PROVE  \E b \in Step!AllBatches' : /\ Has(b, s, n)
                                         /\ \A c \in Step!AllBatches' : Has(c, s, n) => c = b
  <2>1. CASE Has(pending, s, n)
    BY <1>1, <1>3, <1>4, <2>1 DEF ItemInv
  <2>2. CASE ~Has(pending, s, n)
    <3>1. PICK b \in Step!AllBatches : /\ Has(b, s, n)
                                       /\ \A c \in Step!AllBatches : Has(c, s, n) => c = b
      BY <1>4, <2>2 DEF ItemInv
    <3>. QED
      BY <1>1, <1>3, <2>2, <3>1
  <2>. QED
    BY <2>1, <2>2
<1>5. ASSUME NEW s \in Step!Sources, NEW n \in Nat,
             Has(pending', s, n) \/ (\E b \in Step!AllBatches' : Has(b, s, n))
      PROVE  n \in 1..published'[s]
  BY <1>1, <1>2, <1>3, <1>5 DEF ItemInv
<1>6. /\ \A s \in Step!Sources, n \in Nat :
           Has(pending', s, n) \/ (\E b \in Step!AllBatches' : Has(b, s, n)) => n \in 1..published'[s]
      /\ \A s \in Step!Sources : \A n \in 1..published'[s] :
           IF Has(pending', s, n) THEN \A b \in Step!AllBatches' : ~Has(b, s, n)
           ELSE \E b \in Step!AllBatches' : Has(b, s, n) /\ \A c \in Step!AllBatches' : Has(c, s, n) => c = b
  BY <1>2, <1>4, <1>5
<1>. QED
  BY <1>6 DEF ItemInv, Has

(* The next item of s is added to what is pending, and goes with it, or    *)
(* stays.                                                                  *)
LEMMA ItemAdded ==
  ASSUME QueueType, ItemInv, NEW s \in Step!Sources, pending.source \in {"none", s},
         pending.source = "none" => pending.items = <<>>,
         published' = [published EXCEPT ![s] = @ + 1],
         NEW now, now = [source |-> s, items |-> Append(pending.items, published[s] + 1)],
         NEW k,
         \/ pending' = now /\ Step!AllBatches' = Step!AllBatches
         \/ /\ pending' = Step!Empty
            /\ Step!AllBatches' = Step!AllBatches \cup {Step!Batch(now, k)}
  PROVE  ItemInv'
<1>0. pending.items \in Seq(Nat) /\ published[s] \in Nat
  BY DEF QueueType
<1>1. ASSUME NEW t \in Step!Sources, NEW n \in Nat
      PROVE  Has(now, t, n) <=> Has(pending, t, n) \/ (t = s /\ n = published[s] + 1)
  <2>1. /\ DOMAIN now.items = DOMAIN pending.items \cup {Len(pending.items) + 1}
        /\ \A i \in DOMAIN pending.items : now.items[i] = pending.items[i]
        /\ now.items[Len(pending.items) + 1] = published[s] + 1
        /\ now.source = s
    BY <1>0
  <2>2. pending.source # s => pending.items = <<>>
    OBVIOUS
  <2>3. Has(pending, t, n) => pending.source = s
    BY <2>2 DEF Has
  <2>. QED
    BY <2>1, <2>2, <2>3 DEF Has
<1>2. ASSUME NEW t \in Step!Sources, NEW n \in Nat, n \notin 1..published[t]
      PROVE  ~Has(pending, t, n) /\ \A b \in Step!AllBatches : ~Has(b, t, n)
  BY <1>2 DEF ItemInv
<1>3. ASSUME NEW t \in Step!Sources, NEW n \in Nat
      PROVE  n \in 1..published'[t] <=> n \in 1..published[t] \/ (t = s /\ n = published[s] + 1)
  BY DEF QueueType
<1>4. published[s] + 1 \notin 1..published[s] /\ published[s] + 1 \in Nat
  BY <1>0
<1>5. ASSUME NEW t \in Step!Sources, NEW n \in 1..published'[t], n \notin 1..published[t]
      PROVE  t = s /\ n = published[s] + 1 /\ n \in Nat
  BY <1>3, <1>5 DEF QueueType
<1>6. \A t \in Step!Sources : \A n \in 1..published'[t] : n \in Nat
  BY DEF QueueType
<1>7. CASE pending' = now /\ Step!AllBatches' = Step!AllBatches
  <2>1. /\ \A t \in Step!Sources, n \in Nat :
             Has(now, t, n) \/ (\E b \in Step!AllBatches : Has(b, t, n)) => n \in 1..published'[t]
        /\ \A t \in Step!Sources : \A n \in 1..published'[t] :
             IF Has(now, t, n) THEN \A b \in Step!AllBatches : ~Has(b, t, n)
             ELSE \E b \in Step!AllBatches : Has(b, t, n) /\ \A c \in Step!AllBatches : Has(c, t, n) => c = b
    <3>1. ASSUME NEW t \in Step!Sources, NEW n \in Nat,
                 Has(now, t, n) \/ (\E b \in Step!AllBatches : Has(b, t, n))
          PROVE  n \in 1..published'[t]
      BY <1>1, <1>2, <1>3, <3>1
    <3>2. ASSUME NEW t \in Step!Sources, NEW n \in 1..published'[t]
          PROVE  IF Has(now, t, n) THEN \A b \in Step!AllBatches : ~Has(b, t, n)
                 ELSE \E b \in Step!AllBatches : Has(b, t, n) /\ \A c \in Step!AllBatches : Has(c, t, n) => c = b
      <4>1. CASE n \in 1..published[t]
        <5>1. Has(now, t, n) <=> Has(pending, t, n)
          BY <1>1, <1>4, <1>6, <4>1
        <5>. QED
          BY <4>1, <5>1 DEF ItemInv
      <4>2. CASE n \notin 1..published[t]
        BY <1>1, <1>2, <1>5, <4>2
      <4>. QED
        BY <4>1, <4>2
    <3>. QED
      BY <3>1, <3>2
  <2>2. /\ \A t \in Step!Sources, n \in Nat :
             Has(pending', t, n) \/ (\E b \in Step!AllBatches' : Has(b, t, n)) => n \in 1..published'[t]
        /\ \A t \in Step!Sources : \A n \in 1..published'[t] :
             IF Has(pending', t, n) THEN \A b \in Step!AllBatches' : ~Has(b, t, n)
             ELSE \E b \in Step!AllBatches' : Has(b, t, n) /\ \A c \in Step!AllBatches' : Has(c, t, n) => c = b
    <3>1. pending' = now /\ Step!AllBatches' = Step!AllBatches
      BY <1>7
    <3>. QED
      BY <2>1, <3>1, ZenonT(60)
  <2>. QED
    BY <2>2 DEF ItemInv, Has
<1>8. CASE pending' = Step!Empty /\ Step!AllBatches' = Step!AllBatches \cup {Step!Batch(now, k)}
  <2>. DEFINE x == Step!Batch(now, k)
  <2>1. \A t, n : Has(x, t, n) <=> Has(now, t, n)
    BY BatchHas
  <2>2. \A t, n : ~Has(pending', t, n)
    BY <1>8, EmptyHasNothing
  <2>. HIDE DEF x
  <2>3. Step!AllBatches' = Step!AllBatches \cup {x}
    BY <1>8 DEF x
  <2>4. ASSUME NEW t \in Step!Sources, NEW n \in Nat, \E b \in Step!AllBatches' : Has(b, t, n)
        PROVE  n \in 1..published'[t]
    <3>1. CASE n \in 1..published[t]
      BY <1>3, <3>1
    <3>2. CASE n \notin 1..published[t]
      <4>1. \A b \in Step!AllBatches : ~Has(b, t, n)
        BY <1>2, <2>4, <3>2
      <4>2. Has(now, t, n)
        BY <2>1, <2>3, <2>4, <4>1
      <4>. QED
        BY <1>1, <1>2, <1>3, <2>4, <3>2, <4>2
    <3>. QED
      BY <3>1, <3>2
  <2>5. ASSUME NEW t \in Step!Sources, NEW n \in 1..published'[t]
        PROVE  \E b \in Step!AllBatches' : Has(b, t, n) /\ \A c \in Step!AllBatches' : Has(c, t, n) => c = b
    <3>1. CASE Has(now, t, n)
      <4>1. \A b \in Step!AllBatches : ~Has(b, t, n)
        <5>1. CASE n \in 1..published[t]
          <6>1. Has(pending, t, n)
            BY <1>1, <1>4, <1>6, <3>1, <5>1
          <6>. QED
            BY <5>1, <6>1 DEF ItemInv
        <5>2. CASE n \notin 1..published[t]
          BY <1>2, <1>6, <5>2
        <5>. QED
          BY <5>1, <5>2
      <4>. QED
        BY <2>1, <2>3, <3>1, <4>1
    <3>2. CASE ~Has(now, t, n)
      <4>1. n \in 1..published[t] /\ ~Has(pending, t, n)
        BY <1>1, <1>5, <1>6, <3>2
      <4>2. PICK b \in Step!AllBatches : /\ Has(b, t, n)
                                         /\ \A c \in Step!AllBatches : Has(c, t, n) => c = b
        BY <4>1 DEF ItemInv
      <4>3. b \in Step!AllBatches'
        BY <2>3
      <4>4. ASSUME NEW c \in Step!AllBatches', Has(c, t, n) PROVE c = b
        <5>1. c # x
          BY <2>1, <3>2, <4>4
        <5>. QED
          BY <2>3, <4>2, <4>4, <5>1
      <4>. QED
        BY <4>2, <4>3, <4>4
    <3>. QED
      BY <3>1, <3>2
  <2>6. /\ \A t \in Step!Sources, n \in Nat :
             Has(pending', t, n) \/ (\E b \in Step!AllBatches' : Has(b, t, n)) => n \in 1..published'[t]
        /\ \A t \in Step!Sources : \A n \in 1..published'[t] :
             IF Has(pending', t, n) THEN \A b \in Step!AllBatches' : ~Has(b, t, n)
             ELSE \E b \in Step!AllBatches' : Has(b, t, n) /\ \A c \in Step!AllBatches' : Has(c, t, n) => c = b
    BY <2>2, <2>4, <2>5
  <2>. QED
    BY <2>6 DEF ItemInv, Has
<1>. QED
  BY <1>7, <1>8

(* What is pending becomes a batch, as an item of another source comes.    *)
LEMMA ItemsReplaced ==
  ASSUME QueueType, ItemInv, NEW k, Step!AllBatches' = Step!AllBatches \cup {Step!Batch(pending, k)},
         NEW s \in Step!Sources, pending' = [source |-> s, items |-> <<published[s] + 1>>],
         published' = [published EXCEPT ![s] = @ + 1]
  PROVE  ItemInv'
<1>. DEFINE x == Step!Batch(pending, k)
<1>0. published[s] \in Nat
  BY DEF QueueType
<1>1. \A t, n : Has(x, t, n) <=> Has(pending, t, n)
  BY BatchHas
<1>2. \A t, n : Has(pending', t, n) <=> t = s /\ n = published[s] + 1
  BY <1>0 DEF Has
<1>. HIDE DEF x
<1>3. Step!AllBatches' = Step!AllBatches \cup {x}
  BY DEF x
<1>4. ASSUME NEW t \in Step!Sources, NEW n \in Nat, n \notin 1..published[t]
      PROVE  ~Has(x, t, n) /\ \A b \in Step!AllBatches' : ~Has(b, t, n)
  BY <1>1, <1>3, <1>4 DEF ItemInv
<1>5. ASSUME NEW t \in Step!Sources, NEW n \in Nat
      PROVE  n \in 1..published'[t] <=> n \in 1..published[t] \/ (t = s /\ n = published[s] + 1)
  BY DEF QueueType
<1>6. \A t \in Step!Sources : published'[t] \in Nat /\ published[t] \in Nat
  BY DEF QueueType
<1>7. ASSUME NEW t \in Step!Sources, NEW n \in 1..published[t]
      PROVE  \E b \in Step!AllBatches' : /\ Has(b, t, n)
                                         /\ \A c \in Step!AllBatches' : Has(c, t, n) => c = b
  <2>1. CASE Has(pending, t, n)
    BY <1>1, <1>3, <1>7, <2>1 DEF ItemInv
  <2>2. CASE ~Has(pending, t, n)
    <3>1. PICK b \in Step!AllBatches : /\ Has(b, t, n)
                                       /\ \A c \in Step!AllBatches : Has(c, t, n) => c = b
      BY <1>7, <2>2 DEF ItemInv
    <3>. QED
      BY <1>1, <1>3, <2>2, <3>1
  <2>. QED
    BY <2>1, <2>2
<1>8. ASSUME NEW t \in Step!Sources, NEW n \in Nat,
             Has(pending', t, n) \/ (\E b \in Step!AllBatches' : Has(b, t, n))
      PROVE  n \in 1..published'[t]
  BY <1>2, <1>4, <1>5, <1>8
<1>9. ASSUME NEW t \in Step!Sources, NEW n \in 1..published'[t]
      PROVE  IF Has(pending', t, n) THEN \A b \in Step!AllBatches' : ~Has(b, t, n)
             ELSE \E b \in Step!AllBatches' : Has(b, t, n) /\ \A c \in Step!AllBatches' : Has(c, t, n) => c = b
  <2>0. n \in Nat
    BY <1>6
  <2>1. CASE Has(pending', t, n)
    <3>1. n \notin 1..published[t]
      BY <1>0, <1>2, <2>1
    <3>. QED
      BY <1>4, <2>0, <2>1, <3>1
  <2>2. CASE ~Has(pending', t, n)
    <3>1. n \in 1..published[t]
      BY <1>2, <1>5, <2>0, <2>2
    <3>. QED
      BY <1>7, <2>2, <3>1
  <2>. QED
    BY <2>1, <2>2
<1>10. /\ \A t \in Step!Sources, n \in Nat :
            Has(pending', t, n) \/ (\E b \in Step!AllBatches' : Has(b, t, n)) => n \in 1..published'[t]
       /\ \A t \in Step!Sources : \A n \in 1..published'[t] :
            IF Has(pending', t, n) THEN \A b \in Step!AllBatches' : ~Has(b, t, n)
            ELSE \E b \in Step!AllBatches' : Has(b, t, n) /\ \A c \in Step!AllBatches' : Has(c, t, n) => c = b
  BY <1>8, <1>9
<1>. QED
  BY <1>10 DEF ItemInv, Has

(* A publisher without items is an empty one.                              *)
LEMMA NothingPending ==
  ASSUME QueueInv, pending.items = <<>>
  PROVE  pending = Step!Empty
<1>1. pending.source = "none"
  BY DEF QueueInv, ReaderInv
<1>2. pending = [source |-> pending.source, items |-> pending.items]
  BY DEF QueueInv, QueueType
<1>. QED
  BY <1>1, <1>2 DEF Step!Empty

(* The batch of what is pending, or is about to be.                        *)
LEMMA BatchTyped ==
  ASSUME NEW s \in Step!Sources, NEW items \in Seq(Nat), NEW n \in Nat,
         NEW p, p = [source |-> s, items |-> items], NEW who \in Step!Sources \cup {"timer", "closer"}
  PROVE  /\ [who |-> who, batch |-> Step!Batch(p, n)] \in Waiter
         /\ Step!Batch(p, n).sequence = n
  BY DEF Step!Batch, BatchOf, Waiter

(* The batch of what is pending can be queued.                             *)
LEMMA PendingTyped ==
  ASSUME QueueInv, pending.items # <<>>, NEW who \in Step!Sources \cup {"timer", "closer"}
  PROVE  /\ sequence + 1 \in Nat
         /\ [who |-> who, batch |-> Step!Batch(pending, sequence + 1)] \in Waiter
         /\ Step!Batch(pending, sequence + 1).sequence = sequence + 1
<1>1. /\ pending.source \in Step!Sources /\ pending.items \in Seq(Nat) /\ sequence + 1 \in Nat
      /\ pending = [source |-> pending.source, items |-> pending.items]
  BY DEF QueueInv, QueueType, ReaderInv
<1>. QED
  BY <1>1, BatchTyped

(* Whoever takes what is pending leaves nothing.                           *)
LEMMA TakeKeeps ==
  ASSUME StepInv, NEW who \in Step!Sources \cup {"timer", "closer"}, Step!Take(who),
         pending' = Step!Empty, published' = published, outbox' = outbox, dropped' = dropped,
         reader' = reader,
         stepPc' = stepPc \/ (stepPc' \in {"closing", "result"} /\ stepPc \in {"collect", "killed"}),
         \A s \in Step!Sources : reader[s] = "publishing" => stepPc' = "collect"
  PROVE  StepInv'
<1>0. QueueInv /\ QueueType /\ ReaderInv /\ ItemInv
  BY DEF StepInv, QueueInv
<1>1. CASE pending.items = <<>>
  <2>1. pending = Step!Empty /\ lockq' = lockq /\ sequence' = sequence
    BY <1>0, <1>1, NothingPending DEF Step!Take
  <2>2. QueueType'
    BY <1>0, <2>1 DEF QueueType
  <2>. QED
    BY <1>0, <2>1, <2>2, QuietKeeps
<1>2. CASE pending.items # <<>>
  <2>. DEFINE w == [who |-> who, batch |-> Step!Batch(pending, sequence + 1)]
  <2>1. sequence' = sequence + 1 /\ lockq' = Append(lockq, w)
    BY <1>2 DEF Step!Take
  <2>2. w \in Waiter /\ w.batch = Step!Batch(pending, sequence + 1) /\ w.batch.sequence = sequence + 1
    BY <1>0, <1>2, PendingTyped
  <2>3. stepPc = "collect" /\ stepPc' \notin {"finishing", "over"}
    BY <1>0, <1>2 DEF ReaderInv, Step!Empty
  <2>. HIDE DEF w
  <2>4. /\ sequence' \in Nat /\ lockq' \in Seq(Waiter) /\ OrderInv' /\ LastInv'
        /\ Step!AllBatches' = Step!AllBatches \cup {Step!Batch(pending, sequence + 1)}
    BY <1>0, <2>1, <2>2, <2>3, BatchJoins
  <2>5. QueueType'
    BY <1>0, <2>3, <2>4 DEF QueueType, Step!Empty
  <2>6. ReaderInv'
    BY DEF ReaderInv, Step!Empty
  <2>7. ItemInv'
    BY <1>0, <2>4, ItemsTaken
  <2>. QED
    BY <2>4, <2>5, <2>6, <2>7 DEF StepInv, QueueInv
<1>. QED
  BY <1>1, <1>2

(* publish: of another source, of a full batch, or only pending.           *)
LEMMA PublishKeeps ==
  ASSUME StepInv, NEW s \in Step!Sources, Step!Publish(s)
  PROVE  StepInv'
<1>. DEFINE item == published[s] + 1
            now == [source |-> s, items |-> Append(pending.items, item)]
            k == sequence + 1
<1>0. QueueInv /\ QueueType /\ ReaderInv /\ ItemInv /\ LastInv /\ OrderInv
  BY DEF StepInv, QueueInv
<1>1. /\ stepPc = "collect" /\ stepPc' = stepPc /\ reader' = reader
      /\ outbox' = outbox /\ dropped' = dropped
      /\ published' = [published EXCEPT ![s] = @ + 1]
  BY <1>0 DEF Step!Publish, ReaderInv, Step!run
<1>2. /\ item \in Nat /\ pending.items \in Seq(Nat) /\ k \in Nat
      /\ published' \in [Step!Sources -> Nat]
      /\ s # "none"
  BY <1>0, <1>1, SourceNames DEF QueueType
<1>3. CASE pending.source \notin {"none", s}
  <2>1. Step!Take(s) /\ pending' = [source |-> s, items |-> <<item>>]
    BY <1>3 DEF Step!Publish
  <2>2. pending.items # <<>>
    BY <1>0, <1>3 DEF ReaderInv
  <2>. DEFINE w == [who |-> s, batch |-> Step!Batch(pending, k)]
  <2>3. sequence' = k /\ lockq' = Append(lockq, w)
    BY <2>1, <2>2 DEF Step!Take
  <2>4. w \in Waiter /\ w.batch = Step!Batch(pending, k) /\ w.batch.sequence = k
    BY <1>0, <2>2, PendingTyped
  <2>. HIDE DEF w
  <2>5. /\ sequence' \in Nat /\ lockq' \in Seq(Waiter) /\ OrderInv' /\ LastInv'
        /\ Step!AllBatches' = Step!AllBatches \cup {Step!Batch(pending, k)}
    BY <1>0, <1>1, <2>3, <2>4, BatchJoins
  <2>6. <<item>> \in Seq(Nat) /\ <<item>> # <<>>
    BY <1>2
  <2>7. QueueType' /\ ReaderInv'
    BY <1>0, <1>1, <1>2, <2>1, <2>5, <2>6 DEF QueueType, ReaderInv
  <2>8. ItemInv'
    BY <1>0, <1>1, <2>1, <2>5, ItemsReplaced
  <2>. QED
    BY <2>5, <2>7, <2>8 DEF StepInv, QueueInv
<1>4. CASE pending.source \in {"none", s} /\ ~(Len(now.items) >= BatchSize)
  <2>1. pending' = now /\ sequence' = sequence /\ lockq' = lockq
    BY <1>4 DEF Step!Publish
  <2>2. now.items \in Seq(Nat) /\ now.items # <<>> /\ now.source = s
    BY <1>2
  <2>3. QueueType' /\ ReaderInv'
    BY <1>0, <1>1, <1>2, <2>1, <2>2 DEF QueueType, ReaderInv
  <2>4. OrderInv' /\ LastInv' /\ Step!AllBatches' = Step!AllBatches
    BY <1>0, <1>1, <2>1 DEF OrderInv, LastInv, Numbered, Before, Step!Finished, Step!AllBatches, Step!Taken, Step!Range
  <2>5. ItemInv'
    BY <1>0, <1>1, <1>4, <2>1, <2>4, ItemAdded DEF ReaderInv
  <2>. QED
    BY <2>3, <2>4, <2>5 DEF StepInv, QueueInv
<1>5. CASE pending.source \in {"none", s} /\ Len(now.items) >= BatchSize
  <2>. DEFINE w == [who |-> s, batch |-> Step!Batch(now, k)]
  <2>1. pending' = Step!Empty /\ sequence' = k /\ lockq' = Append(lockq, w)
    BY <1>5 DEF Step!Publish
  <2>2. now.items \in Seq(Nat) /\ now = [source |-> s, items |-> now.items]
    BY <1>2
  <2>3. w \in Waiter /\ w.batch = Step!Batch(now, k) /\ w.batch.sequence = k
    <3>. HIDE DEF now, k
    <3>1. /\ [who |-> s, batch |-> Step!Batch(now, k)] \in Waiter
          /\ Step!Batch(now, k).sequence = k
      BY <1>2, <2>2, BatchTyped
    <3>. QED
      BY <3>1
  <2>. HIDE DEF w
  <2>4. /\ sequence' \in Nat /\ lockq' \in Seq(Waiter) /\ OrderInv' /\ LastInv'
        /\ Step!AllBatches' = Step!AllBatches \cup {Step!Batch(now, k)}
    BY <1>0, <1>1, <2>1, <2>3, BatchJoins
  <2>5. QueueType' /\ ReaderInv'
    BY <1>0, <1>1, <1>2, <2>1, <2>4 DEF QueueType, ReaderInv, Step!Empty
  <2>6. ItemInv'
    BY <1>0, <1>1, <1>5, <2>1, <2>4, ItemAdded DEF ReaderInv
  <2>. QED
    BY <2>4, <2>5, <2>6 DEF StepInv, QueueInv
<1>. QED
  BY <1>3, <1>4, <1>5

(* The head of the queue leaves it.                                        *)
LEMMA HeadLeaves ==
  ASSUME QueueInv, lockq # <<>>, lockq' = Tail(lockq)
  PROVE  /\ lockq' \in Seq(Waiter) /\ Len(lockq') = Len(lockq) - 1
         /\ \A i \in DOMAIN lockq' : i + 1 \in DOMAIN lockq /\ lockq'[i] = lockq[i + 1]
         /\ \A i \in DOMAIN lockq : i = 1 \/ i - 1 \in DOMAIN lockq'
         /\ 1 \in DOMAIN lockq /\ Head(lockq) = lockq[1] /\ lockq[1] \in Waiter
         /\ \A i, j \in DOMAIN lockq' : i < j => Before(lockq'[i].batch, lockq'[j].batch)
         /\ \A j \in DOMAIN lockq' : Before(lockq[1].batch, lockq'[j].batch)
<1>1. /\ lockq' \in Seq(Waiter) /\ Len(lockq') = Len(lockq) - 1
      /\ \A i \in DOMAIN lockq' : i \in Nat \ {0} /\ i + 1 \in DOMAIN lockq /\ lockq'[i] = lockq[i + 1]
      /\ \A i \in DOMAIN lockq : i = 1 \/ i - 1 \in DOMAIN lockq'
      /\ 1 \in DOMAIN lockq /\ Head(lockq) = lockq[1] /\ lockq[1] \in Waiter
  BY DEF QueueInv, QueueType
<1>2. \A i, j \in DOMAIN lockq : i < j => Before(lockq[i].batch, lockq[j].batch)
  BY DEF QueueInv, OrderInv
<1>3. ASSUME NEW i \in DOMAIN lockq', NEW j \in DOMAIN lockq', i < j
      PROVE  Before(lockq'[i].batch, lockq'[j].batch)
  <2>1. /\ i + 1 \in DOMAIN lockq /\ j + 1 \in DOMAIN lockq /\ i + 1 < j + 1
        /\ lockq'[i] = lockq[i + 1] /\ lockq'[j] = lockq[j + 1]
    BY <1>1, <1>3
  <2>2. Before(lockq[i + 1].batch, lockq[j + 1].batch)
    BY <1>2, <2>1
  <2>. QED
    BY <2>1, <2>2
<1>4. ASSUME NEW j \in DOMAIN lockq' PROVE Before(lockq[1].batch, lockq'[j].batch)
  BY <1>1, <1>2, <1>4
<1>. QED
  BY <1>1, <1>3, <1>4

(* The head of the queue for the lock goes into the outbox.                *)
LEMMA AppendEventKeeps == StepInv /\ Step!AppendEvent => StepInv'
<1>. SUFFICES ASSUME StepInv, Step!AppendEvent PROVE StepInv'
  OBVIOUS
<1>0. QueueInv /\ QueueType /\ ReaderInv /\ OrderInv /\ LastInv /\ ItemInv
  BY DEF StepInv, QueueInv
<1>1. /\ lockq # <<>> /\ lockq' = Tail(lockq) /\ outbox' = Append(outbox, Head(lockq).batch)
      /\ dropped' = dropped /\ stepPc' = stepPc /\ reader' = reader /\ published' = published
      /\ pending' = pending /\ sequence' = sequence
  BY DEF Step!AppendEvent, Step!run, Step!sources, Step!publisher
<1>. DEFINE b == lockq[1].batch
<1>2. /\ lockq' \in Seq(Waiter) /\ Len(lockq') = Len(lockq) - 1
      /\ \A i \in DOMAIN lockq' : i + 1 \in DOMAIN lockq /\ lockq'[i] = lockq[i + 1]
      /\ \A i \in DOMAIN lockq : i = 1 \/ i - 1 \in DOMAIN lockq'
      /\ 1 \in DOMAIN lockq /\ Head(lockq) = lockq[1] /\ lockq[1] \in Waiter
      /\ \A i, j \in DOMAIN lockq' : i < j => Before(lockq'[i].batch, lockq'[j].batch)
      /\ \A j \in DOMAIN lockq' : Before(lockq[1].batch, lockq'[j].batch)
  BY <1>0, <1>1, HeadLeaves
<1>3. /\ b \in BatchOf /\ outbox' \in Seq(BatchOf) /\ Len(outbox') = Len(outbox) + 1
      /\ outbox'[Len(outbox')] = b
      /\ \A i \in DOMAIN outbox : i \in DOMAIN outbox' /\ outbox'[i] = outbox[i]
      /\ \A i \in DOMAIN outbox' : i \in DOMAIN outbox \/ i = Len(outbox')
      /\ \A i \in DOMAIN outbox : i < Len(outbox')
      /\ Len(outbox') \in DOMAIN outbox'
  BY <1>0, <1>1, <1>2 DEF QueueType, Waiter
<1>. HIDE DEF b
<1>4. QueueType' /\ ReaderInv'
  BY <1>0, <1>1, <1>2, <1>3 DEF QueueType, ReaderInv, Step!Empty
<1>5. OrderInv'
  <2>1. \A i \in DOMAIN outbox : Before(outbox[i], b)
    BY <1>0, <1>2 DEF OrderInv, b
  <2>2. \A i \in DOMAIN outbox', j \in DOMAIN lockq' : Before(outbox'[i], lockq'[j].batch)
    BY <1>0, <1>2, <1>3 DEF OrderInv, b
  <2>3. ASSUME NEW i \in DOMAIN outbox', NEW j \in DOMAIN outbox', i < j
        PROVE  Before(outbox'[i], outbox'[j])
    <3>1. i \in DOMAIN outbox
      BY <1>3, <2>3 DEF QueueType
    <3>2. CASE j \in DOMAIN outbox
      BY <1>0, <1>3, <2>3, <3>1, <3>2 DEF OrderInv
    <3>3. CASE j \notin DOMAIN outbox
      BY <1>3, <2>1, <3>1, <3>3
    <3>. QED
      BY <3>2, <3>3
  <2>4. /\ \A i \in DOMAIN lockq' : lockq'[i].batch.sequence <= sequence'
        /\ \A i \in DOMAIN outbox' : outbox'[i].sequence <= sequence'
    <3>1. b.sequence <= sequence
      BY <1>0, <1>2 DEF OrderInv, Numbered, b
    <3>2. \A i \in DOMAIN lockq' : lockq'[i].batch.sequence <= sequence'
      BY <1>0, <1>1, <1>2 DEF OrderInv, Numbered
    <3>3. \A i \in DOMAIN outbox' : outbox'[i].sequence <= sequence'
      BY <1>0, <1>1, <1>3, <3>1 DEF OrderInv, Numbered
    <3>. QED
      BY <3>2, <3>3
  <2>. QED
    BY <1>2, <2>2, <2>3, <2>4 DEF OrderInv, Numbered, Before, Step!Finished
<1>6. LastInv'
  <2>1. \A i \in DOMAIN outbox : outbox[i] # Step!Finished
    BY <1>0, <1>1 DEF LastInv
  <2>2. b = Step!Finished => Len(lockq) = 1
    BY <1>0, <1>2 DEF LastInv, b
  <2>3. Len(lockq) = 1 => lockq' = <<>>
    BY <1>2
  <2>4. stepPc \notin {"finishing", "over"} => b # Step!Finished
    BY <1>0, <1>2 DEF LastInv, b
  <2>5. \A i \in DOMAIN lockq' : lockq'[i].batch = Step!Finished => i = Len(lockq')
    BY <1>0, <1>2 DEF LastInv, QueueType
  <2>6. /\ stepPc \notin {"finishing", "over"} =>
             /\ \A i \in DOMAIN lockq' : lockq'[i].batch # Step!Finished
             /\ \A i \in DOMAIN outbox' : outbox'[i] # Step!Finished
        /\ \A i \in DOMAIN outbox' : outbox'[i] = Step!Finished => i = Len(outbox') /\ lockq' = <<>>
    BY <1>0, <1>2, <1>3, <2>1, <2>2, <2>3, <2>4 DEF LastInv
  <2>. QED
    BY <1>1, <2>5, <2>6 DEF LastInv, Step!Finished
<1>7. Step!AllBatches' = Step!AllBatches
  <2>1. ASSUME NEW c
        PROVE  c \in Step!AllBatches' <=>
                 /\ c # Step!Finished
                 /\ \/ \E i \in DOMAIN outbox' : c = outbox'[i]
                    \/ \E i \in DOMAIN lockq' : c = lockq'[i].batch
                    \/ c \in dropped
    BY <1>1 DEF Step!AllBatches, Step!Taken, Step!Range, Step!Finished
  <2>2. ASSUME NEW c
        PROVE  (\E i \in DOMAIN outbox' : c = outbox'[i]) <=>
                 (\E i \in DOMAIN outbox : c = outbox[i]) \/ c = b
    BY <1>3
  <2>3. ASSUME NEW c
        PROVE  (\E i \in DOMAIN lockq : c = lockq[i].batch) <=>
                 (\E i \in DOMAIN lockq' : c = lockq'[i].batch) \/ c = b
    <3>1. ASSUME NEW i \in DOMAIN lockq, i # 1
          PROVE  i - 1 \in DOMAIN lockq' /\ lockq'[i - 1] = lockq[i]
      BY <1>0, <1>2, <3>1 DEF QueueType
    <3>. QED
      BY <1>2, <3>1 DEF b
  <2>4. \A c : c \in Step!AllBatches' <=> c \in Step!AllBatches
    BY <2>1, <2>2, <2>3, BatchesAre
  <2>. QED
    BY <2>4
<1>8. ItemInv'
  BY <1>0, <1>1, <1>7 DEF ItemInv, Has
<1>. QED
  BY <1>4, <1>5, <1>6, <1>8 DEF StepInv, QueueInv

(* The head of the queue is dropped, and known to be.                      *)
LEMMA AppendFailsKeeps == StepInv /\ Step!AppendFails => StepInv'
<1>. SUFFICES ASSUME StepInv, Step!AppendFails PROVE StepInv'
  OBVIOUS
<1>0. QueueInv /\ QueueType /\ ReaderInv /\ OrderInv /\ LastInv /\ ItemInv
  BY DEF StepInv, QueueInv
<1>1. /\ lockq # <<>> /\ lockq' = Tail(lockq) /\ outbox' = outbox
      /\ dropped' = dropped \cup {Head(lockq).batch}
      /\ stepPc' = stepPc /\ reader' = reader /\ published' = published
      /\ pending' = pending /\ sequence' = sequence
  BY DEF Step!AppendFails, Step!run, Step!sources, Step!publisher
<1>. DEFINE b == lockq[1].batch
<1>2. /\ lockq' \in Seq(Waiter) /\ Len(lockq') = Len(lockq) - 1
      /\ \A i \in DOMAIN lockq' : i + 1 \in DOMAIN lockq /\ lockq'[i] = lockq[i + 1]
      /\ \A i \in DOMAIN lockq : i = 1 \/ i - 1 \in DOMAIN lockq'
      /\ 1 \in DOMAIN lockq /\ Head(lockq) = lockq[1] /\ lockq[1] \in Waiter
      /\ \A i, j \in DOMAIN lockq' : i < j => Before(lockq'[i].batch, lockq'[j].batch)
  BY <1>0, <1>1, HeadLeaves
<1>3. b \in BatchOf /\ dropped' = dropped \cup {b}
  BY <1>1, <1>2 DEF Waiter
<1>. HIDE DEF b
<1>4. QueueType' /\ ReaderInv'
  BY <1>0, <1>1, <1>2, <1>3 DEF QueueType, ReaderInv, Step!Empty
<1>5. OrderInv'
  BY <1>0, <1>1, <1>2 DEF OrderInv, Numbered, Before, Step!Finished
<1>6. LastInv'
  <2>1. \A i \in DOMAIN lockq' : lockq'[i].batch = Step!Finished => i = Len(lockq')
    BY <1>0, <1>2 DEF LastInv, QueueType
  <2>. QED
    BY <1>0, <1>1, <1>2, <2>1 DEF LastInv, Step!Finished
<1>7. Step!AllBatches' = Step!AllBatches \cup ({b} \ {Step!Finished})
  <2>1. ASSUME NEW c
        PROVE  c \in Step!AllBatches' <=>
                 /\ c # Step!Finished
                 /\ \/ \E i \in DOMAIN outbox : c = outbox[i]
                    \/ \E i \in DOMAIN lockq' : c = lockq'[i].batch
                    \/ c \in dropped \/ c = b
    BY <1>1, <1>3 DEF Step!AllBatches, Step!Taken, Step!Range, Step!Finished
  <2>2. ASSUME NEW c
        PROVE  (\E i \in DOMAIN lockq : c = lockq[i].batch) <=>
                 (\E i \in DOMAIN lockq' : c = lockq'[i].batch) \/ c = b
    <3>1. ASSUME NEW i \in DOMAIN lockq, i # 1
          PROVE  i - 1 \in DOMAIN lockq' /\ lockq'[i - 1] = lockq[i]
      BY <1>0, <1>2, <3>1 DEF QueueType
    <3>. QED
      BY <1>2, <3>1 DEF b
  <2>3. \A c : c \in Step!AllBatches' <=> c \in Step!AllBatches \/ (c = b /\ c # Step!Finished)
    BY <2>1, <2>2, BatchesAre
  <2>. QED
    BY <2>3
<1>8. b # Step!Finished => b \in Step!AllBatches
  BY <1>2, BatchesAre DEF b
<1>9. Step!AllBatches' = Step!AllBatches
  BY <1>7, <1>8
<1>10. ItemInv'
  BY <1>0, <1>1, <1>9 DEF ItemInv, Has
<1>. QED
  BY <1>4, <1>5, <1>6, <1>10 DEF StepInv, QueueInv

(* agent_step_finished queues behind every batch of the step.              *)
LEMMA StepFinishedKeeps == StepInv /\ Step!StepFinished => StepInv'
<1>. SUFFICES ASSUME StepInv, Step!StepFinished PROVE StepInv'
  OBVIOUS
<1>0. QueueInv /\ QueueType /\ ReaderInv /\ OrderInv /\ LastInv /\ ItemInv
  BY DEF StepInv, QueueInv
<1>. DEFINE w == [who |-> "runner", batch |-> Step!Finished]
<1>1. /\ stepPc = "result" /\ stepPc' = "finishing" /\ lockq' = Append(lockq, w)
      /\ outbox' = outbox /\ dropped' = dropped /\ reader' = reader /\ published' = published
      /\ pending' = pending /\ sequence' = sequence
  BY DEF Step!StepFinished, Step!sources, Step!publisher
<1>2. w \in Waiter /\ w.batch = Step!Finished
  BY FinishedTyped DEF Waiter
<1>. HIDE DEF w
<1>3. /\ lockq' \in Seq(Waiter) /\ Len(lockq') = Len(lockq) + 1 /\ lockq'[Len(lockq')] = w
      /\ \A i \in DOMAIN lockq : i \in DOMAIN lockq' /\ lockq'[i] = lockq[i]
      /\ \A i \in DOMAIN lockq' : i \in DOMAIN lockq \/ i = Len(lockq')
      /\ \A i \in DOMAIN lockq : i < Len(lockq')
      /\ Step!AllBatches' = Step!AllBatches
  BY <1>0, <1>1, <1>2, Joins
<1>4. QueueType' /\ ReaderInv'
  BY <1>0, <1>1, <1>3 DEF QueueType, ReaderInv, Step!Empty
<1>5. OrderInv'
  <2>1. ASSUME NEW i \in DOMAIN lockq', NEW j \in DOMAIN lockq', i < j
        PROVE  Before(lockq'[i].batch, lockq'[j].batch)
    <3>1. CASE j \in DOMAIN lockq
      <4>1. i \in DOMAIN lockq
        BY <1>0, <1>3, <2>1, <3>1 DEF QueueType
      <4>. QED
        BY <1>0, <1>3, <2>1, <3>1, <4>1 DEF OrderInv
    <3>2. CASE j \notin DOMAIN lockq
      BY <1>2, <1>3, <3>2 DEF Before
    <3>. QED
      BY <3>1, <3>2
  <2>2. \A i \in DOMAIN outbox, j \in DOMAIN lockq' : Before(outbox[i], lockq'[j].batch)
    BY <1>0, <1>2, <1>3 DEF OrderInv, Before
  <2>3. \A i \in DOMAIN lockq' : lockq'[i].batch.sequence <= sequence
    <3>1. \A i \in DOMAIN lockq : lockq'[i].batch.sequence <= sequence
      BY <1>0, <1>3 DEF OrderInv, Numbered
    <3>2. lockq'[Len(lockq')].batch.sequence <= sequence
      BY <1>0, <1>2, <1>3, FinishedTyped DEF QueueType
    <3>. QED
      BY <1>3, <3>1, <3>2
  <2>. QED
    BY <1>0, <1>1, <2>1, <2>2, <2>3 DEF OrderInv, Numbered, Before, Step!Finished
<1>6. LastInv'
  BY <1>0, <1>1, <1>3 DEF LastInv, Step!Finished
<1>7. ItemInv'
  BY <1>0, <1>1, <1>3 DEF ItemInv, Has
<1>. QED
  BY <1>4, <1>5, <1>6, <1>7 DEF StepInv, QueueInv

(* Those who stay in the queue after a time limit keep their order, and    *)
(* what the others had taken is dropped.                                   *)
LEMMA TimeoutKeeps == StepInv /\ Step!Timeout => StepInv'
<1>. SUFFICES ASSUME StepInv, Step!Timeout PROVE StepInv'
  OBVIOUS
<1>0. QueueInv /\ QueueType /\ ReaderInv /\ OrderInv /\ LastInv /\ ItemInv
  BY DEF StepInv, QueueInv
<1>1. /\ stepPc \in {"collect", "closing"} /\ stepPc' = "killed"
      /\ reader' = [s \in Step!Sources |-> IF reader[s] = "done" THEN "done" ELSE "cancelled"]
      /\ outbox' = outbox /\ published' = published /\ pending' = Step!Empty
      /\ dropped' = dropped \cup {lockq[i].batch : i \in DOMAIN lockq \ Step!Staying}
  BY DEF Step!Timeout
<1>2. PICK place \in [1..Cardinality(Step!Staying) -> Step!Staying] :
        /\ Step!Range(place) = Step!Staying
        /\ \A i, j \in DOMAIN place : i < j => place[i] < place[j]
        /\ IF pending.items = <<>>
           THEN lockq' = [i \in DOMAIN place |-> lockq[place[i]]] /\ sequence' = sequence
           ELSE /\ sequence' = sequence + 1
                /\ lockq' = Append([i \in DOMAIN place |-> lockq[place[i]]],
                                   [who |-> "closer", batch |-> Step!Batch(pending, sequence + 1)])
  <2>0. Step!Cardinality(Step!Staying) = Cardinality(Step!Staying)
    BY DEF Step!Cardinality, Cardinality
  <2>1. \E place \in [1..Cardinality(Step!Staying) -> Step!Staying] :
          /\ Step!Range(place) = Step!Staying
          /\ \A i, j \in DOMAIN place : i < j => place[i] < place[j]
          /\ LET rest == [i \in DOMAIN place |-> lockq[place[i]]] IN
             IF pending.items = <<>>
             THEN lockq' = rest /\ UNCHANGED sequence
             ELSE /\ sequence' = sequence + 1
                  /\ lockq' = Append(rest, [who |-> "closer",
                                            batch |-> Step!Batch(pending, sequence + 1)])
    BY <2>0 DEF Step!Timeout
  <2>. QED
    BY <2>1
<1>. DEFINE m == Cardinality(Step!Staying)
<1>3. m \in Nat /\ Step!Staying \subseteq DOMAIN lockq
  <2>1. Step!Staying \subseteq 1..Len(lockq) /\ Len(lockq) \in Nat
    BY <1>0 DEF Step!Staying, QueueType
  <2>2. IsFiniteSet(Step!Staying)
    <3>1. IsFiniteSet(1..Len(lockq))
      BY <2>1, FS_Interval
    <3>. QED
      BY <2>1, <3>1, FS_Subset
  <2>. QED
    BY <2>1, <2>2, <1>0, FS_CardinalityType DEF QueueType
<1>. HIDE DEF m
<1>. DEFINE stay == [i \in 1..m |-> lockq[place[i]]]
            b == Step!Batch(pending, sequence + 1)
            w == [who |-> "closer", batch |-> b]
<1>4. /\ \A i \in 1..m : place[i] \in DOMAIN lockq /\ lockq[place[i]] \in Waiter
      /\ \A j \in Step!Staying : \E i \in 1..m : place[i] = j
      /\ DOMAIN place = 1..m
  <2>0. place \in [1..m -> Step!Staying]
    BY <1>2 DEF m
  <2>1. DOMAIN place = 1..m /\ \A i \in 1..m : place[i] \in Step!Staying
    BY <2>0
  <2>2. \A i \in DOMAIN lockq : lockq[i] \in Waiter
    BY <1>0 DEF QueueType
  <2>3. \A i \in 1..m : place[i] \in DOMAIN lockq /\ lockq[place[i]] \in Waiter
    BY <1>3, <2>1, <2>2
  <2>4. ASSUME NEW j \in Step!Staying PROVE \E i \in 1..m : place[i] = j
    BY <1>2, <2>1 DEF Step!Range
  <2>. QED
    BY <2>1, <2>3, <2>4
<1>5. stay \in Seq(Waiter) /\ Len(stay) = m
  BY <1>3, <1>4
<1>6. \A i \in 1..m : stay[i] = lockq[place[i]]
  OBVIOUS
<1>7. \A i, j \in 1..m : i < j => Before(stay[i].batch, stay[j].batch)
  <2>1. \A i, j \in DOMAIN lockq : i < j => Before(lockq[i].batch, lockq[j].batch)
    BY <1>0 DEF OrderInv
  <2>. HIDE DEF stay
  <2>. QED
    BY <1>2, <1>4, <1>6, <2>1
<1>8. /\ \A i \in 1..m : stay[i].batch # Step!Finished
      /\ \A i \in DOMAIN outbox : outbox[i] # Step!Finished
  BY <1>0, <1>1, <1>4, <1>6 DEF LastInv
<1>9. /\ \A i \in 1..m : Numbered(stay[i].batch)
      /\ \A i \in DOMAIN outbox, j \in 1..m : Before(outbox[i], stay[j].batch)
  BY <1>0, <1>4, <1>6 DEF OrderInv
<1>10. ASSUME NEW c
       PROVE  (\E i \in DOMAIN lockq : c = lockq[i].batch) <=>
                \/ \E i \in 1..m : c = stay[i].batch
                \/ c \in {lockq[i].batch : i \in DOMAIN lockq \ Step!Staying}
  <2>. HIDE DEF stay
  <2>. QED
    BY <1>4, <1>6
<1>11. ASSUME NEW c
       PROVE  c \in Step!AllBatches' <=>
                /\ c # Step!Finished
                /\ \/ \E i \in DOMAIN outbox : c = outbox[i]
                   \/ \E i \in DOMAIN lockq' : c = lockq'[i].batch
                   \/ c \in dropped
                   \/ c \in {lockq[i].batch : i \in DOMAIN lockq \ Step!Staying}
  BY <1>1 DEF Step!AllBatches, Step!Taken, Step!Range, Step!Finished
<1>12. dropped' \subseteq BatchOf
  <2>0. \A i \in DOMAIN lockq : lockq[i] \in Waiter
    BY <1>0 DEF QueueType
  <2>1. \A i \in DOMAIN lockq : lockq[i].batch \in BatchOf
    BY <2>0 DEF Waiter
  <2>. QED
    BY <1>0, <1>1, <2>1 DEF QueueType
<1>13. \A s \in Step!Sources : reader'[s] \in {"done", "cancelled"}
  BY <1>1
<1>14. reader' \in [Step!Sources -> {"reading", "publishing", "done", "cancelled"}]
  BY <1>1
<1>15. ReaderInv'
  BY <1>1, <1>13 DEF ReaderInv, Step!Empty
<1>16. CASE pending.items = <<>>
  <2>1. lockq' = stay /\ sequence' = sequence /\ pending' = pending
    <3>1. pending = Step!Empty
      BY <1>0, <1>16, NothingPending
    <3>. QED
      BY <1>1, <1>2, <1>4, <1>16, <3>1
  <2>. HIDE DEF stay
  <2>2. DOMAIN lockq' = 1..m /\ lockq' \in Seq(Waiter)
    BY <1>5, <2>1
  <2>3. QueueType'
    BY <1>0, <1>1, <1>12, <1>14, <2>1, <2>2 DEF QueueType
  <2>4. LastInv'
    BY <1>1, <1>8, <2>1, <2>2 DEF LastInv, Step!Finished
  <2>5. OrderInv'
    BY <1>0, <1>1, <1>7, <1>9, <2>1, <2>2 DEF OrderInv, Numbered, Before, Step!Finished
  <2>6. \A c : c \in Step!AllBatches' <=> c \in Step!AllBatches
    BY <1>10, <1>11, <2>1, <2>2, BatchesAre
  <2>7. Step!AllBatches' = Step!AllBatches
    BY <2>6
  <2>8. ItemInv'
    BY <1>0, <1>1, <2>1, <2>7 DEF ItemInv, Has
  <2>. QED
    BY <1>15, <2>3, <2>4, <2>5, <2>8 DEF StepInv, QueueInv
<1>17. CASE pending.items # <<>>
  <2>1. lockq' = Append(stay, w) /\ sequence' = sequence + 1
    BY <1>2, <1>4, <1>17
  <2>2. w \in Waiter /\ w.batch = b /\ b.sequence = sequence + 1 /\ sequence + 1 \in Nat
    BY <1>0, <1>17, PendingTyped
  <2>. HIDE DEF stay, w, b
  <2>3. /\ lockq' \in Seq(Waiter) /\ DOMAIN lockq' = 1..(m + 1) /\ Len(lockq') = m + 1
        /\ lockq'[m + 1] = w /\ \A i \in 1..m : lockq'[i] = stay[i]
    BY <1>3, <1>5, <2>1, <2>2
  <2>4. b # Step!Finished
    BY <1>0, <2>2, FinishedTyped DEF QueueType
  <2>5. QueueType'
    BY <1>0, <1>1, <1>12, <1>14, <2>1, <2>2, <2>3 DEF QueueType, Step!Empty
  <2>6. \A i \in 1..(m + 1) : i \in 1..m \/ i = m + 1
    BY <1>3
  <2>7. LastInv'
    BY <1>1, <1>8, <2>2, <2>3, <2>4, <2>6 DEF LastInv, Step!Finished
  <2>8. /\ \A i \in 1..m : stay[i].batch.sequence < b.sequence
        /\ \A i \in DOMAIN outbox : outbox[i].sequence < b.sequence
    <3>1. \A i \in 1..m : stay[i].batch.sequence \in Nat
      BY <1>4, <1>6 DEF Waiter, BatchOf
    <3>0. \A i \in DOMAIN outbox : outbox[i] \in BatchOf
      BY <1>0 DEF QueueType
    <3>2. \A i \in DOMAIN outbox : outbox[i].sequence \in Nat
      BY <3>0 DEF BatchOf
    <3>. QED
      BY <1>0, <1>9, <2>2, <3>1, <3>2 DEF OrderInv, Numbered, QueueType
  <2>9. ASSUME NEW i \in DOMAIN lockq', NEW j \in DOMAIN lockq', i < j
        PROVE  Before(lockq'[i].batch, lockq'[j].batch)
    <3>1. i \in 1..m
      BY <1>3, <2>3, <2>9
    <3>2. CASE j \in 1..m
      BY <1>7, <2>3, <2>9, <3>1, <3>2
    <3>3. CASE j = m + 1
      BY <2>2, <2>3, <2>8, <3>1, <3>3 DEF Before
    <3>. QED
      BY <2>3, <2>6, <3>2, <3>3
  <2>10. \A i \in DOMAIN outbox, j \in DOMAIN lockq' : Before(outbox[i], lockq'[j].batch)
    BY <1>9, <2>2, <2>3, <2>6, <2>8 DEF Before
  <2>11. /\ \A i \in DOMAIN lockq' : lockq'[i].batch.sequence <= sequence'
         /\ \A i \in DOMAIN outbox : outbox[i].sequence <= sequence'
    <3>1. \A i \in 1..m : stay[i].batch.sequence \in Nat
      BY <1>4, <1>6 DEF Waiter, BatchOf
    <3>0. \A i \in DOMAIN outbox : outbox[i] \in BatchOf
      BY <1>0 DEF QueueType
    <3>2. \A i \in DOMAIN outbox : outbox[i].sequence \in Nat
      BY <3>0 DEF BatchOf
    <3>. QED
      BY <2>1, <2>2, <2>3, <2>6, <2>8, <3>1, <3>2
  <2>12. OrderInv'
    BY <1>0, <1>1, <2>9, <2>10, <2>11 DEF OrderInv, Numbered, Before, Step!Finished
  <2>13. \A c : (\E i \in DOMAIN lockq' : c = lockq'[i].batch) <=>
                  (\E i \in 1..m : c = stay[i].batch) \/ c = b
    BY <1>3, <2>2, <2>3, <2>6
  <2>14. \A c : c \in Step!AllBatches' <=> c \in Step!AllBatches \/ c = b
    BY <1>10, <1>11, <2>4, <2>13, BatchesAre
  <2>15. Step!AllBatches' = Step!AllBatches \cup {Step!Batch(pending, sequence + 1)}
    BY <2>14 DEF b
  <2>16. ItemInv'
    BY <1>0, <1>1, <2>15, ItemsTaken
  <2>. QED
    BY <1>15, <2>5, <2>7, <2>12, <2>16 DEF StepInv, QueueInv
<1>. QED
  BY <1>16, <1>17

(* Every step of the runner, a reader, the timer or a writer keeps it.     *)
LEMMA StepStep == StepInv /\ Step!Next => StepInv'
<1>. SUFFICES ASSUME StepInv, Step!Next PROVE StepInv'
  OBVIOUS
<1>0. QueueInv /\ QueueType /\ ReaderInv
  BY DEF StepInv, QueueInv
<1>1. CASE Step!Probe \/ Step!NoCredentials \/ Step!Spawn \/ Step!Collected \/ Step!Over
  <2>1. /\ lockq' = lockq /\ outbox' = outbox /\ dropped' = dropped /\ pending' = pending
        /\ sequence' = sequence /\ published' = published /\ reader' = reader
        /\ stepPc \in {"probe", "spawn", "closing", "finishing"}
        /\ stepPc' \in {"probe", "spawn", "collect", "result", "over"}
        /\ stepPc' \notin {"finishing", "over"} => stepPc \notin {"finishing", "over"}
    BY <1>1 DEF Step!Probe, Step!NoCredentials, Step!Spawn, Step!Collected, Step!Over,
                Step!sources, Step!publisher, Step!wire
  <2>2. QueueType'
    BY <1>0, <2>1 DEF QueueType
  <2>3. /\ \A s \in Step!Sources : reader'[s] = "publishing" => stepPc' = "collect"
        /\ stepPc' # "collect" => pending = Step!Empty
    BY <1>0, <2>1 DEF ReaderInv
  <2>. QED
    BY <2>1, <2>2, <2>3, QuietKeeps
<1>2. ASSUME NEW s \in Step!Sources, Step!Write(s) \/ Step!Read(s) \/ Step!Check(s) PROVE StepInv'
  <2>1. /\ lockq' = lockq /\ outbox' = outbox /\ dropped' = dropped /\ pending' = pending
        /\ sequence' = sequence /\ published' = published /\ stepPc' = stepPc
        /\ \/ reader' = reader
           \/ stepPc = "collect" /\ reader' = [reader EXCEPT ![s] = "publishing"]
           \/ reader' = [reader EXCEPT ![s] = "done"]
           \/ reader' = [reader EXCEPT ![s] = "reading"]
    BY <1>2 DEF Step!Write, Step!Read, Step!Check, Step!run, Step!publisher, Step!wire
  <2>2. QueueType'
    BY <1>0, <2>1 DEF QueueType
  <2>3. /\ \A t \in Step!Sources : reader'[t] = "publishing" => stepPc' = "collect"
        /\ stepPc' # "collect" => pending = Step!Empty
    BY <1>0, <2>1 DEF ReaderInv, QueueType
  <2>. QED
    BY <2>1, <2>2, <2>3, QuietKeeps
<1>3. CASE Step!Exit \/ \E x \in sending : Step!Deliver(x)
  <2>1. /\ lockq' = lockq /\ outbox' = outbox /\ dropped' = dropped /\ pending' = pending
        /\ sequence' = sequence /\ published' = published /\ stepPc' = stepPc /\ reader' = reader
    BY <1>3 DEF Step!Exit, Step!Deliver, Step!run, Step!sources, Step!publisher, Step!wire
  <2>2. QueueType'
    BY <1>0, <2>1 DEF QueueType
  <2>3. /\ \A t \in Step!Sources : reader'[t] = "publishing" => stepPc' = "collect"
        /\ stepPc' # "collect" => pending = Step!Empty
    BY <1>0, <2>1 DEF ReaderInv
  <2>. QED
    BY <2>1, <2>2, <2>3, QuietKeeps
<1>4. CASE Step!Drained \/ Step!Killed
  <2>1. /\ Step!Take("closer") /\ pending' = Step!Empty /\ published' = published
        /\ outbox' = outbox /\ dropped' = dropped /\ reader' = reader
        /\ stepPc' \in {"closing", "result"} /\ stepPc \in {"collect", "killed"}
    BY <1>4 DEF Step!Drained, Step!Killed, Step!Close, Step!sources
  <2>2. \A s \in Step!Sources : reader[s] # "publishing"
    BY <1>0, <1>4 DEF Step!Drained, Step!Killed, ReaderInv
  <2>. QED
    BY <2>1, <2>2, TakeKeeps
<1>5. CASE Step!Flush
  <2>1. /\ Step!Take("timer") /\ pending' = Step!Empty /\ published' = published
        /\ outbox' = outbox /\ dropped' = dropped /\ reader' = reader /\ stepPc' = stepPc
    BY <1>5 DEF Step!Flush, Step!run, Step!sources
  <2>. QED
    BY <1>0, <2>1, TakeKeeps DEF ReaderInv
<1>6. ASSUME NEW s \in Step!Sources, Step!Publish(s) PROVE StepInv'
  BY <1>6, PublishKeeps
<1>. QED
  BY <1>1, <1>2, <1>3, <1>4, <1>5, <1>6, TimeoutKeeps, StepFinishedKeeps, AppendEventKeeps,
     AppendFailsKeeps DEF Step!Next

(* The invariant says what the runs check.                                 *)
LEMMA StepHolds == StepInv => Step!EachItemOnce /\ Step!OutboxInSequence /\ Step!FinishedIsLast
<1>. SUFFICES ASSUME StepInv PROVE Step!EachItemOnce /\ Step!OutboxInSequence /\ Step!FinishedIsLast
  OBVIOUS
<1>0. QueueType /\ ReaderInv /\ OrderInv /\ LastInv /\ ItemInv
  BY DEF StepInv, QueueInv
<1>1. Step!EachItemOnce
  BY <1>0 DEF ItemInv, Has, Step!EachItemOnce
<1>2. Step!OutboxInSequence
  BY <1>0 DEF OrderInv, Before, Step!OutboxInSequence
<1>3. ASSUME NEW i \in DOMAIN outbox, outbox[i] = Step!Finished
      PROVE  i = Len(outbox) /\ Step!Taken = <<>> /\ pending = Step!Empty
  <2>1. i = Len(outbox) /\ lockq = <<>> /\ stepPc \in {"finishing", "over"}
    BY <1>0, <1>3 DEF LastInv, QueueType
  <2>2. pending = Step!Empty
    BY <1>0, <2>1 DEF ReaderInv
  <2>3. Step!Taken = <<>>
    BY <2>1 DEF Step!Taken
  <2>. QED
    BY <2>1, <2>2, <2>3
<1>. QED
  BY <1>1, <1>2, <1>3 DEF Step!FinishedIsLast

-----------------------------------------------------------------------------
(* The theorems *)

(* In a behaviour the component that moves stays the same one.             *)
LEMMA PartStays == [PartsNext]_allVars => part' = part
  BY DEF PartsNext, allVars

(* The evolve loop keeps its invariant, wherever a command is killed.      *)
LEMMA CycleKept == PartsSpec => [](part = "cycle" => CycleInv)
<1>. DEFINE Inv == CycleInv
<1>1. PartsInit => (part = "cycle" => Inv)
  BY CycleInit DEF PartsInit
<1>2. (part = "cycle" => Inv) /\ [PartsNext]_allVars => (part = "cycle" => Inv)'
  <2>. SUFFICES ASSUME Inv, [PartsNext]_allVars, part = "cycle" PROVE Inv'
    BY PartStays
  <2>1. Cycle!Next \/ UNCHANGED cycleVars
    BY CycleMoves
  <2>2. CASE Cycle!Next
    BY <2>2, CycleStep
  <2>3. CASE UNCHANGED cycleVars
    BY <2>3 DEF cycleVars, CycleInv, CycleType, TreeInv, CleanTree,
                ResultInv, HandoffInv
  <2>. QED
    BY <2>1, <2>2, <2>3
<1>. QED
  BY <1>1, <1>2, PTL DEF PartsSpec, allVars

(* The authorisation keeps its invariant, and its cookies to the script.   *)
LEMMA AuthKept == PartsSpec => [](part = "auth" => AuthInv /\ Auth!CookiesAreRemoved)
<1>. DEFINE Inv == AuthInv /\ Auth!CookiesAreRemoved
<1>1. PartsInit => (part = "auth" => Inv)
  BY AuthInit DEF PartsInit, Auth!Init, Auth!CookiesAreRemoved
<1>2. (part = "auth" => Inv) /\ [PartsNext]_allVars => (part = "auth" => Inv)'
  <2>. SUFFICES ASSUME Inv, [PartsNext]_allVars, part = "auth" PROVE Inv'
    BY PartStays
  <2>1. Auth!Next \/ UNCHANGED authVars
    BY AuthMoves
  <2>2. CASE Auth!Next
    BY <2>2, AuthStep, CookiesStep
  <2>3. CASE UNCHANGED authVars
    BY <2>3 DEF authVars, AuthInv, AuthType, PathInv, Auth!SummaryIsTrue,
                Auth!CookiesAreRemoved
  <2>. QED
    BY <2>1, <2>2, <2>3
<1>. QED
  BY <1>1, <1>2, PTL DEF PartsSpec, allVars

(* The store of the micro-ui keeps its invariant, however pages lag.       *)
LEMMA StoreKept == PartsSpec => [](part = "store" => StoreInv)
<1>. DEFINE Inv == StoreInv
<1>1. PartsInit => (part = "store" => Inv)
  BY StoreInit DEF PartsInit
<1>2. (part = "store" => Inv) /\ [PartsNext]_allVars => (part = "store" => Inv)'
  <2>. SUFFICES ASSUME Inv, [PartsNext]_allVars, part = "store" PROVE Inv'
    BY PartStays
  <2>1. Store!StoreNext \/ UNCHANGED storeVars
    BY StoreMoves
  <2>2. CASE Store!StoreNext
    BY <2>2, StoreStep
  <2>3. CASE UNCHANGED storeVars
    BY <2>3 DEF storeVars, StoreInv, EndsWith
  <2>. QED
    BY <2>1, <2>2, <2>3
<1>. QED
  BY <1>1, <1>2, PTL DEF PartsSpec, allVars

(* The verifier keeps to the policy, whatever the agent reports.           *)
LEMMA PayKept == PartsSpec => [](part = "payment" => PayType /\ Pay!ToldWhatIsProven)
<1>. DEFINE Inv == PayType /\ Pay!ToldWhatIsProven
<1>1. PartsInit => (part = "payment" => Inv)
  BY PayInit DEF PartsInit
<1>2. (part = "payment" => Inv) /\ [PartsNext]_allVars => (part = "payment" => Inv)'
  <2>. SUFFICES ASSUME Inv, [PartsNext]_allVars, part = "payment" PROVE Inv'
    BY PartStays
  <2>1. Pay!Next \/ UNCHANGED payVars
    BY PayMoves
  <2>2. CASE Pay!Next
    BY <2>2, PayStep
  <2>3. CASE UNCHANGED payVars
    <3>1. merchant' = merchant /\ order' = order /\ evidence' = evidence /\ told' = told
      BY <2>3 DEF payVars
    <3>2. PayType'
      BY <3>1 DEF PayType
    <3>3. Pay!ToldWhatIsProven'
      BY <3>1, Zenon DEF Pay!ToldWhatIsProven, Pay!Proves
    <3>. QED
      BY <3>2, <3>3
  <2>. QED
    BY <2>1, <2>2, <2>3
<1>. QED
  BY <1>1, <1>2, PTL DEF PartsSpec, allVars

(* A command of the CDP tool keeps its invariant, on any set of pages.     *)
LEMMA CdpKept == PartsSpec => [](part = "cdp" => CdpInv)
<1>. DEFINE Inv == CdpInv
<1>1. PartsInit => (part = "cdp" => Inv)
  BY CdpInit DEF PartsInit
<1>2. (part = "cdp" => Inv) /\ [PartsNext]_allVars => (part = "cdp" => Inv)'
  <2>. SUFFICES ASSUME Inv, [PartsNext]_allVars, part = "cdp" PROVE Inv'
    BY PartStays
  <2>1. Cdp!Next \/ UNCHANGED cdpVars
    BY CdpMoves
  <2>2. CASE Cdp!Next
    BY <2>2, CdpStep
  <2>3. CASE UNCHANGED cdpVars
    BY <2>3 DEF cdpVars, CdpInv, PagesInv, CommandInv, Cdp!ActsOnce,
                Cdp!Places, Cdp!Priority, Cdp!Recorded
  <2>. QED
    BY <2>1, <2>2, <2>3
<1>. QED
  BY <1>1, <1>2, PTL DEF PartsSpec, allVars

(* The analyses keep their invariant, in whatever order they take turns.   *)
LEMMA KnowKept == PartsSpec => [](part = "knowledge" => KnowInv)
<1>. DEFINE Inv == KnowInv
<1>1. PartsInit => (part = "knowledge" => Inv)
  BY KnowInit DEF PartsInit
<1>2. (part = "knowledge" => Inv) /\ [PartsNext]_allVars => (part = "knowledge" => Inv)'
  <2>. SUFFICES ASSUME Inv, [PartsNext]_allVars, part = "knowledge" PROVE Inv'
    BY PartStays
  <2>1. Know!Next \/ UNCHANGED knowVars
    BY KnowMoves
  <2>2. CASE Know!Next
    BY <2>2, KnowStep
  <2>3. CASE UNCHANGED knowVars
    BY <2>3 DEF knowVars, KnowInv, KnowType, TurnInv, FilesInv,
                Know!AnalysisIsDraft
  <2>. QED
    BY <2>1, <2>2, <2>3
<1>. QED
  BY <1>1, <1>2, PTL DEF PartsSpec, allVars

(* Judging keeps its invariant, with any number of batches and cases.      *)
LEMMA JudgeKept == PartsSpec => [](part = "judge" => JudgeInv)
<1>. DEFINE Inv == JudgeInv
<1>1. PartsInit => (part = "judge" => Inv)
  BY JudgeInit DEF PartsInit
<1>2. (part = "judge" => Inv) /\ [PartsNext]_allVars => (part = "judge" => Inv)'
  <2>. SUFFICES ASSUME Inv, [PartsNext]_allVars, part = "judge" PROVE Inv'
    BY PartStays
  <2>1. Judge!Next \/ UNCHANGED judgeVars
    BY JudgeMoves
  <2>2. CASE Judge!Next
    BY <2>2, JudgeStep
  <2>3. CASE UNCHANGED judgeVars
    BY <2>3 DEF judgeVars, JudgeInv, JudgeType, BatchInv, LoneInv, FileInv, PendingInv, StaleInv, Skipped,
                Judge!At
  <2>. QED
    BY <2>1, <2>2, <2>3
<1>. QED
  BY <1>1, <1>2, PTL DEF PartsSpec, allVars

(* A step of the agent keeps its invariant, with any sources and batches.  *)
LEMMA StepKept == PartsSpec => [](part = "step" => StepInv)
<1>. DEFINE Inv == StepInv
<1>1. PartsInit => (part = "step" => Inv)
  BY StepInit DEF PartsInit
<1>2. (part = "step" => Inv) /\ [PartsNext]_allVars => (part = "step" => Inv)'
  <2>. SUFFICES ASSUME Inv, [PartsNext]_allVars, part = "step" PROVE Inv'
    BY PartStays
  <2>1. Step!Next \/ UNCHANGED stepVars
    BY StepMoves
  <2>2. CASE Step!Next
    BY <2>2, StepStep
  <2>3. CASE UNCHANGED stepVars
    <3>1. /\ lockq' = lockq /\ outbox' = outbox /\ dropped' = dropped /\ pending' = pending
          /\ sequence' = sequence /\ published' = published /\ reader' = reader /\ stepPc' = stepPc
      BY <2>3 DEF stepVars
    <3>2. QueueType'
      BY <3>1 DEF StepInv, QueueInv, QueueType
    <3>3. /\ \A s \in Step!Sources : reader'[s] = "publishing" => stepPc' = "collect"
          /\ stepPc' # "collect" => pending = Step!Empty
      BY <3>1 DEF StepInv, QueueInv, ReaderInv
    <3>. QED
      BY <3>1, <3>2, <3>3, QuietKeeps
  <2>. QED
    BY <2>1, <2>2, <2>3
<1>. QED
  BY <1>1, <1>2, PTL DEF PartsSpec, allVars

(* Whatever command is run, and killed wherever it is: unless one was cut  *)
(* short, continue takes up the run that latest.json hands to the operator. *)
THEOREM ResumesHandoff == PartsSpec => []HandoffIsResumed
<1>1. (part = "cycle" => CycleInv) => HandoffIsResumed
  BY DEF HandoffIsResumed, CycleInv, CycleType, TreeInv, HandoffInv,
         Cycle!HandoffIsResumed, Cycle!Resumes, Cycle!Phases, Cycle!Judged,
         Cycle!Ends
<1>. QED
  BY <1>1, CycleKept, PTL

(* A candidate that is recorded is in commits, one or several, that change *)
(* only the allowed paths, apart from a file moved into them from outside, *)
(* with nothing left uncommitted, and was patched once, on a baseline that *)
(* was judged in full, after any number of continues.                      *)
THEOREM KeepsScope == PartsSpec => []CandidateIsInScope
<1>1. (part = "cycle" => CycleInv) => CandidateIsInScope
  BY DEF CandidateIsInScope, CycleInv, TreeInv, CleanTree,
         Cycle!CandidateIsInScope
<1>. QED
  BY <1>1, CycleKept, PTL

(* A report says improved only of a candidate that was judged in full and  *)
(* is safe, and of the results that are in the directory.                  *)
THEOREM EarnsImproved == PartsSpec => []ImprovedIsEarned
<1>1. (part = "cycle" => CycleInv) => ImprovedIsEarned
  BY DEF ImprovedIsEarned, CycleInv, TreeInv, ResultInv,
         Cycle!ImprovedIsEarned
<1>. QED
  BY <1>1, CycleKept, PTL

(* The file with the cookies of the operator is gone once the script is,   *)
(* with any number of retries and wherever the session is cancelled.       *)
THEOREM RemovesCookies == PartsSpec => []CookiesAreRemoved
<1>1. (part = "auth" => AuthInv /\ Auth!CookiesAreRemoved) => CookiesAreRemoved
  BY DEF CookiesAreRemoved
<1>. QED
  BY <1>1, AuthKept, PTL

(* The summary of an authorisation tells what was done, and that the       *)
(* cookies API was given up only after its last retry.                     *)
THEOREM TellsAuthTrue == PartsSpec => []SummaryIsTrue
<1>1. (part = "auth" => AuthInv /\ Auth!CookiesAreRemoved) => SummaryIsTrue
  BY DEF SummaryIsTrue, AuthInv
<1>. QED
  BY <1>1, AuthKept, PTL

(* For every number of pages and size of their queues: what a page has not *)
(* read yet are the newest events since it subscribed, without a gap.      *)
THEOREM OwesTheNewest == PartsSpec => []OwedTheNewest
<1>1. (part = "store" => StoreInv) => OwedTheNewest
  BY StoreOwes DEF OwedTheNewest
<1>. QED
  BY <1>1, StoreKept, PTL

(* payment_ready is sent exactly for what the merchant policy proves of the *)
(* order and of the evidence.                                              *)
THEOREM TellsWhatIsProven == PartsSpec => []ToldWhatIsProven
<1>1. (part = "payment" => PayType /\ Pay!ToldWhatIsProven) => ToldWhatIsProven
  BY DEF ToldWhatIsProven
<1>. QED
  BY <1>1, PayKept, PTL

(* Over any number of contexts, pages and tries, a command acts on the page *)
(* at most once, whatever becomes of the pages and of its records, and no  *)
(* exit code or record of it claims what it has not done.                  *)
THEOREM ActsOnceOnly == PartsSpec => []ActsOnce
<1>1. (part = "cdp" => CdpInv) => ActsOnce
  BY DEF ActsOnce, CdpInv
<1>. QED
  BY <1>1, CdpKept, PTL

(* For every number of sessions, cancelled or killed at any step: one      *)
(* analysis runs at a time, and the files it leaves agree with each other. *)
THEOREM AnalysesAreDrafts == PartsSpec => []AnalysisIsDraft
<1>1. (part = "knowledge" => KnowInv) => AnalysisIsDraft
  BY DEF AnalysisIsDraft, KnowInv
<1>. QED
  BY <1>1, KnowKept, PTL

(* For every number of cases and batches: unless a synchronous batch ran   *)
(* beside another, a JUDGED case has its evaluation, whatever codex writes *)
(* in place, restarts, raises or calls back late; and as long as nothing   *)
(* raised or restarted, every verdict was written by the codex of its case.*)
THEOREM JudgesByEvaluation == PartsSpec => []JudgedIsEvaluated
<1>1. (part = "judge" => JudgeInv) => JudgedIsEvaluated
  BY DEF JudgedIsEvaluated, Judge!JudgedIsEvaluated, JudgeInv, FileInv, StaleInv
<1>. QED
  BY <1>1, JudgeKept, PTL

(* When all batches are done, overlapping or not, no case is left          *)
(* JUDGE_PENDING, unless a restart or an error came in a request, while    *)
(* cases were marked or while they were settled, and since then no batch   *)
(* has begun and no failed job was settled.                                *)
THEOREM LeavesNothingPending == PartsSpec => []NothingLeftPending
<1>1. (part = "judge" => JudgeInv) => NothingLeftPending
  BY DEF NothingLeftPending, Judge!NothingLeftPending, JudgeInv, PendingInv, BatchInv, AtWork
<1>. QED
  BY <1>1, JudgeKept, PTL

(* For every set of pipes, batch size and number of items: an item a reader *)
(* published is pending or in one batch that is queued, in the outbox or    *)
(* known to be dropped, wherever the time limit cancels the readers.        *)
THEOREM TakesItemsOnce == PartsSpec => []EachItemOnce
<1>1. (part = "step" => StepInv) => EachItemOnce
  BY StepHolds DEF EachItemOnce
<1>. QED
  BY <1>1, StepKept, PTL

(* The batches of a step stand in the outbox in the order of their numbers, *)
(* although the readers, the timer and aclose all queue for its lock.       *)
THEOREM SendsInSequence == PartsSpec => []OutboxInSequence
<1>1. (part = "step" => StepInv) => OutboxInSequence
  BY StepHolds DEF OutboxInSequence
<1>. QED
  BY <1>1, StepKept, PTL

(* agent_step_finished comes after every batch of its step, those of the    *)
(* timer and of a cancelled attempt included.                               *)
THEOREM FinishesLast == PartsSpec => []FinishedIsLast
<1>1. (part = "step" => StepInv) => FinishedIsLast
  BY StepHolds DEF FinishedIsLast
<1>. QED
  BY <1>1, StepKept, PTL
=============================================================================
