---------------------------- MODULE EvalRunProofs ----------------------------
(***************************************************************************)
(* Theorems about EvalRun, for any number of cases, questions, replies,    *)
(* losses, raises and restarts.                                            *)
(***************************************************************************)
EXTENDS EvalRun, FiniteSetTheorems, WellFoundedInduction, TLAPS

CaseType == [state : CaseStates, session : BOOLEAN, waiting : 0..MaxSteps,
             seen : SUBSET Events]
TaskType == [pc : {"none", "start", "resume", "wait", "grace", "creating",
                   "created", "create_failed"}, case : 0..N]
BuyerType == [at : View!Places, out : Events \cup {View!Silence},
              tries : 0..(MaxAttempts - 1), step : 0..MaxSteps, asked : 0..MaxSteps,
              question : 0..MaxSteps]
ReplyType == [Questions -> {"none", "sent", "accepted", "failed"}]

Ready == Event("payment_ready", 0)
Doubtful == Event("payment_unverified", 0)

(* Case k has left PENDING for good, other than by being skipped.          *)
IsBegun(k) == k.state \notin {"pending", "skipped_auth_missing"}

(* What session b says fits where it is, and it asks once per step.        *)
Speaks(b) ==
  /\ b.at = "absent" => b.out = View!Silence
  /\ b.asked <= b.step /\ (b.at = "result" => b.asked < b.step)
  /\ b.out # View!Silence =>
       /\ b.out.type = "payment_ready" => b.out = Ready
       /\ b.out.type = "payment_unverified" => b.out = Doubtful
       /\ b.out.type = "ask_user" => b.out.n \in Questions

(* What the events seen of a case say about it.                            *)
Founded(k) ==
  /\ k.state \in {"payment_ready", "finished"} => Ready \in k.seen
  /\ k.state = "unverified" => Doubtful \in k.seen
  /\ k.state = "waiting_user" => k.session /\ Event("ask_user", k.waiting) \in k.seen

(* A session that pays has told so, or is telling it, and has told it when *)
(* it tells the verdict.                                                   *)
Pays(k, b) ==
  /\ b.at = "paid" => b.out = Ready \/ Ready \in k.seen
  /\ b.at = "found" => b.out = Doubtful \/ Doubtful \in k.seen
  /\ b.out.type = "completed" => Ready \in k.seen
  /\ b.out.type = "unverified" => Doubtful \in k.seen

(* A case k, its buyer session b and the replies q in flight agree: only a *)
(* case that has begun has a session, a session that pays tells it first,  *)
(* and a reply is in flight only to a question that was told.              *)
Agree(k, b, q) ==
  /\ b.at # "absent" => IsBegun(k)
  /\ Pays(k, b)
  /\ \A r \in Questions : q[r] # "none" =>
       IsBegun(k) /\ k.session /\ Event("ask_user", r) \in k.seen

TypeInv ==
  /\ run \in {"running", "finished", "failed"}
  /\ case \in [Cases -> CaseType] /\ task \in [Tasks -> TaskType]
  /\ buyer \in [Cases -> BuyerType] /\ reply \in [Cases -> ReplyType]
  /\ replies \in 0..MaxReplies /\ lost \in 0..MaxLost
  /\ faults \in 0..MaxFaults /\ restarts \in 0..MaxRestarts

CaseInv ==
  \A c \in Cases : Founded(case[c]) /\ Speaks(buyer[c]) /\ Agree(case[c], buyer[c], reply[c])

(* A coroutine works on a case that has begun.                             *)
TaskInv ==
  \A t \in Tasks : task[t].pc \notin {"none", "start"} =>
    task[t].case \in Cases /\ Begun(task[t].case)

Creating(t, c) == task[t].pc = "creating" /\ task[t].case = c
Making(t, c) == task[t].pc \in {"creating", "created", "create_failed"} /\ task[t].case = c

(* A case is created by one coroutine, in STARTING, with no session yet.   *)
CreateInv ==
  \A t \in Tasks, c \in Cases : Creating(t, c) =>
    /\ case[c].state = "starting" /\ buyer[c].at = "absent"
    /\ \A u \in Tasks \ {t} : ~Making(u, c)

RunInv ==
  TypeInv /\ CaseInv /\ TaskInv /\ CreateInv /\ CasesInOrder /\ FinishedIsOver

(* The body of OverIsFinal.                                                *)
OverStays ==
  \A c \in Cases : Over(c) =>
    \/ case'[c].state = case[c].state
    \/ \E t \in Tasks : task[t] = [pc |-> "create_failed", case |-> c]

-----------------------------------------------------------------------------
(* The walk over the cases *)

LEMMA Numbers ==
  /\ N \in Nat /\ Cases \subseteq Nat /\ MaxAttempts \in Nat \ {0}
  /\ MaxSteps \in Nat /\ 0 \in 0..MaxSteps /\ Questions \subseteq 0..MaxSteps
  BY ConstantsAssumption DEF ConstantsAssumption, Cases, Questions

(* Min of FiniteSetsExt is the least element of a finite set: of the sets   *)
(* of elements up to n, for n in S, a least one by inclusion is {Min(S)}.   *)
LEMMA MinIsLeast ==
  ASSUME NEW S \in SUBSET Cases, S # {}
  PROVE  Min(S) \in S /\ \A x \in S : Min(S) <= x
<1>. DEFINE UpTo(n) == {x \in S : x <= n}
            T == {UpTo(n) : n \in S}
<1>1. IsFiniteSet(S)
  <2>1. IsFiniteSet(1..N)
    BY Numbers, FS_Interval
  <2>. QED  BY <2>1, FS_Subset DEF Cases
<1>2. IsWellFoundedOn(StrictSubsetOrdering(S), SUBSET S)
  <2>1. FiniteSubsetsOf(S) = SUBSET S
    BY <1>1, FS_FiniteSubsetsOfFinite
  <2>. QED  BY <2>1, FS_StrictSubsetOrderingWellFounded
<1>3. T \subseteq SUBSET S /\ T # {}
  OBVIOUS
<1>4. PICK U \in T : \A V \in T : <<V, U>> \notin StrictSubsetOrdering(S)
  <2>. HIDE DEF T
  <2>. QED  BY <1>2, <1>3, WFMin
<1>5. PICK m \in S : U = UpTo(m)
  OBVIOUS
<1>6. ASSUME NEW x \in S PROVE m <= x
  <2>1. m \in Nat /\ x \in Nat
    BY Numbers
  <2>2. SUFFICES ASSUME x < m PROVE FALSE
    BY <2>1
  <2>3. UpTo(x) \subseteq UpTo(m) /\ m \in UpTo(m) /\ m \notin UpTo(x)
    <3>1. \A y \in S : y \in Int /\ (y <= x => y <= m)
      BY <2>1, <2>2, Numbers
    <3>2. m <= m /\ ~(m <= x)
      BY <2>1, <2>2
    <3>. QED  BY <3>1, <3>2
  <2>4. <<UpTo(x), UpTo(m)>> \in StrictSubsetOrdering(S)
    BY <2>3 DEF StrictSubsetOrdering
  <2>5. UpTo(x) \in T
    OBVIOUS
  <2>. HIDE DEF T, UpTo
  <2>. QED  BY <1>4, <1>5, <2>4, <2>5
<1>. QED
  BY <1>6 DEF Min

InOrder(m) == \A c, d \in Cases : c < d /\ IsBegun(m[d]) => m[c].state \in Terminal

(* What a walk of coroutine t makes of the cases m: some that were PENDING *)
(* are skipped, one is created, and the order is kept.                     *)
WalkResult(t, m, s) ==
  /\ case' \in [Cases -> CaseType] /\ InOrder(case')
  /\ \A c \in Cases :
       \/ case'[c] = m[c]
       \/ /\ m[c].state = "pending"
          /\ \E st \in {"skipped_auth_missing", "starting"} :
               case'[c] = [m[c] EXCEPT !.state = st]
  /\ \/ /\ task' = [task EXCEPT ![t] = NoTask] /\ run' \in {"running", "finished"}
        /\ run' = "finished" => \A c \in Cases : case'[c].state \in Terminal
     \/ /\ run' = s
        /\ \E c \in Cases : /\ task' = [task EXCEPT ![t] = [pc |-> "creating", case |-> c]]
                            /\ m[c].state = "pending" /\ case'[c].state = "starting"
     \/ /\ run' = s
        /\ \E c \in Cases, pc \in {"wait", "grace"} :
             task' = [task EXCEPT ![t] = [pc |-> pc, case |-> c]] /\ IsBegun(case'[c])

LEMMA WalkOrder ==
  ASSUME NEW t \in Tasks, NEW i \in 1..(N + 1), NEW s,
         NEW m \in [Cases -> CaseType], InOrder(m),
         \A c \in Cases : c < i => m[c].state \in Terminal,
         Walk(t, i, m, s)
  PROVE  WalkResult(t, m, s)
<1>. DEFINE open == {c \in i..N : Open(m, c)}
            skipped == {c \in i..N : Skipped(m, c) /\ \A d \in open : c < d}
            rest == [c \in Cases |-> IF c \in skipped
                                     THEN [m[c] EXCEPT !.state = "skipped_auth_missing"]
                                     ELSE m[c]]
<1>1. open \subseteq Cases /\ skipped \subseteq Cases /\ i \in Nat
  BY Numbers DEF Cases
<1>2. rest \in [Cases -> CaseType]
  BY DEF CaseType, CaseStates
<1>3. \A c \in Cases : IF c \in skipped
                       THEN /\ m[c].state = "pending"
                            /\ rest[c] = [m[c] EXCEPT !.state = "skipped_auth_missing"]
                            /\ rest[c].state = "skipped_auth_missing"
                       ELSE rest[c] = m[c]
  BY DEF Skipped, CaseType
<1>4. InOrder(rest)
  <2>1. \A c \in Cases : IsBegun(rest[c]) => IsBegun(m[c])
    BY <1>3 DEF IsBegun
  <2>2. \A c \in Cases : m[c].state \in Terminal => rest[c].state \in Terminal
    BY <1>3 DEF Terminal
  <2>. HIDE DEF rest
  <2>. QED  BY <2>1, <2>2 DEF InOrder
<1>5. CASE Return(t, rest)
  <2>. HIDE DEF rest, skipped
  <2>. QED  BY <1>2, <1>3, <1>4, <1>5 DEF Return, WalkResult
<1>6. CASE open # {} /\ m[Min(open)].state # "waiting_user"
  <2>. DEFINE k == Min(open)
  <2>1. k \in open /\ k \in Cases /\ \A x \in open : k <= x
    <3>. HIDE DEF open
    <3>. QED  BY <1>1, <1>6, MinIsLeast
  <2>2. rest[k] = m[k] /\ m[k].state \notin Terminal
    <3>1. Open(m, k)
      BY <2>1
    <3>2. k \notin skipped
      BY <3>1 DEF Open
    <3>. QED  BY <1>3, <2>1, <3>1, <3>2 DEF Open
  <2>3. ASSUME NEW c \in Cases, c < k PROVE rest[c].state \in Terminal
    <3>1. CASE c < i
      BY <1>3, <3>1 DEF Terminal
    <3>2. CASE ~(c < i)
      <4>1. c \in i..N /\ c \notin open /\ \A d \in open : c < d
        BY <1>1, <2>1, <2>3, <3>2, Numbers DEF Cases
      <4>2. m[c].state \in Terminal \/ c \in skipped
        BY <4>1 DEF Open
      <4>. QED  BY <1>3, <4>2 DEF Terminal
    <3>. QED  BY <3>1, <3>2
  <2>. HIDE DEF rest, skipped, open, k
  <2>4. CASE m[k].state = "pending" /\ Create(t, k, rest, s)
    <3>1. /\ case' = [rest EXCEPT ![k] = [rest[k] EXCEPT !.state = "starting"]] /\ run' = s
          /\ task' = [task EXCEPT ![t] = [pc |-> "creating", case |-> k]]
      BY <2>4 DEF Create, At
    <3>2. case' \in [Cases -> CaseType] /\ case'[k].state = "starting"
      <4>1. [rest[k] EXCEPT !.state = "starting"] \in CaseType
        BY <1>2, <2>1 DEF CaseType, CaseStates
      <4>. QED  BY <1>2, <2>1, <3>1, <4>1 DEF CaseType
    <3>3. \A c \in Cases \ {k} : case'[c] = rest[c]
      BY <1>2, <3>1
    <3>4. case'[k] = [m[k] EXCEPT !.state = "starting"]
      BY <1>2, <2>1, <2>2, <3>1
    <3>5. InOrder(case')
      <4>. SUFFICES ASSUME NEW c \in Cases, NEW d \in Cases, c < d, IsBegun(case'[d])
                    PROVE  case'[c].state \in Terminal
        BY DEF InOrder
      <4>1. k \in Nat /\ c \in Nat /\ d \in Nat
        BY <2>1, Numbers
      <4>2. CASE d = k
        BY <2>3, <3>3, <4>1, <4>2
      <4>3. CASE d # k
        <5>1. rest[c].state \in Terminal
          BY <1>4, <3>3, <4>3 DEF InOrder
        <5>2. c # k
          BY <2>2, <5>1
        <5>. QED  BY <3>3, <5>1, <5>2
      <4>. QED  BY <4>2, <4>3
    <3>6. \A c \in Cases :
            \/ case'[c] = m[c]
            \/ /\ m[c].state = "pending"
               /\ \E st \in {"skipped_auth_missing", "starting"} :
                    case'[c] = [m[c] EXCEPT !.state = st]
      BY <1>3, <2>4, <3>3, <3>4
    <3>. QED  BY <2>1, <2>4, <3>1, <3>2, <3>5, <3>6 DEF WalkResult
  <2>5. CASE m[k].state # "pending" /\ Suspend(t, k, rest, s)
    <3>1. IsBegun(rest[k])
      BY <2>2, <2>5 DEF IsBegun, Terminal
    <3>. QED  BY <1>2, <1>3, <1>4, <2>1, <2>5, <3>1 DEF Suspend, At, WalkResult
  <2>. QED
    BY <1>6, <2>4, <2>5 DEF Walk, k, open, skipped, rest
<1>. QED
  BY <1>5, <1>6 DEF Walk

LEMMA ContinueOrder ==
  ASSUME NEW t \in Tasks, NEW c \in Cases, NEW s,
         NEW m \in [Cases -> CaseType], InOrder(m), IsBegun(m[c]),
         Continue(t, c, m, s)
  PROVE  WalkResult(t, m, s)
<1>1. c \in Nat /\ c + 1 \in 1..(N + 1) /\ \A d \in Cases : d \in Nat
  BY Numbers DEF Cases
<1>2. \A d \in Cases : d < c => m[d].state \in Terminal
  BY DEF InOrder
<1>3. CASE m[c].state \in Terminal /\ Walk(t, c + 1, m, s)
  <2>1. \A d \in Cases : d < c + 1 => m[d].state \in Terminal
    BY <1>1, <1>2, <1>3
  <2>. QED  BY <1>1, <1>3, <2>1, WalkOrder
<1>4. CASE m[c].state \notin Terminal /\ Return(t, m)
  BY <1>4 DEF Return, WalkResult
<1>5. CASE Suspend(t, c, m, s)
  BY <1>5 DEF Suspend, At, WalkResult
<1>6. Terminal \cap {"waiting_user"} = {}
  BY DEF Terminal
<1>. QED
  BY <1>3, <1>4, <1>5, <1>6 DEF Continue

-----------------------------------------------------------------------------
(* The coroutines *)

(* What coroutine t may make of the cases before it walks on: it leaves    *)
(* the verdicts and what other coroutines are creating alone.              *)
Stirs(t, m) ==
  /\ m \in [Cases -> CaseType]
  /\ \A c \in Cases :
       /\ Founded(m[c]) /\ Agree(m[c], buyer[c], reply[c])
       /\ Begun(c) => IsBegun(m[c])
       /\ ~Begun(c) => m[c] = case[c]
       /\ Over(c) => m[c].state \in Terminal
       /\ Over(c) => \/ m[c].state = case[c].state
                     \/ task[t] = [pc |-> "create_failed", case |-> c]
       /\ (\E u \in Tasks \ {t} : Creating(u, c)) => m[c] = case[c]

LEMMA OrderStirred ==
  ASSUME RunInv, NEW t \in Tasks, NEW m, Stirs(t, m)
  PROVE  InOrder(m)
<1>1. \A c \in Cases : IsBegun(m[c]) => Begun(c)
  BY DEF Stirs, IsBegun, Begun
<1>. QED
  BY <1>1 DEF RunInv, CasesInOrder, Stirs, InOrder

LEMMA WalkKeeps ==
  ASSUME RunInv, NEW t \in Tasks, NEW m, NEW s \in {run, "running"},
         Stirs(t, m), WalkResult(t, m, s), UNCHANGED <<buyer, reply, bounds>>
  PROVE  RunInv' /\ OverStays
<1>1. ASSUME NEW c \in Cases
      PROVE  /\ IsBegun(m[c]) => case'[c].state = m[c].state
             /\ m[c].state \in Terminal => case'[c].state = m[c].state
             /\ case'[c].seen = m[c].seen /\ case'[c].waiting = m[c].waiting
             /\ case'[c].session = m[c].session
             /\ case'[c].state = m[c].state \/ case'[c].state \in {"skipped_auth_missing", "starting"}
             /\ m[c].state = "starting" => case'[c] = m[c]
  <2>1. m[c] \in CaseType
    BY DEF Stirs
  <2>. QED  BY <2>1 DEF WalkResult, IsBegun, Terminal, CaseType
<1>2. TypeInv'
  <2>1. task' \in [Tasks -> TaskType]
    <3>1. NoTask \in TaskType /\ \A c \in Cases, pc \in {"creating", "wait", "grace"} :
                                [pc |-> pc, case |-> c] \in TaskType
      BY Numbers DEF TaskType, NoTask, Cases
    <3>2. \E k \in TaskType : task' = [task EXCEPT ![t] = k]
      BY <3>1 DEF WalkResult
    <3>. QED  BY <3>2 DEF RunInv, TypeInv
  <2>2. run' \in {"running", "finished", "failed"}
    BY DEF WalkResult, RunInv, TypeInv
  <2>. QED  BY <2>1, <2>2 DEF WalkResult, RunInv, TypeInv, bounds
<1>3. CaseInv'
  <2>. SUFFICES ASSUME NEW c \in Cases
                PROVE  /\ Founded(case'[c]) /\ Speaks(buyer[c])
                       /\ Agree(case'[c], buyer[c], reply[c])
    BY DEF CaseInv
  <2>1. Founded(m[c]) /\ Agree(m[c], buyer[c], reply[c]) /\ Speaks(buyer[c])
    BY DEF Stirs, RunInv, CaseInv
  <2>2. Founded(case'[c])
    BY <1>1, <2>1 DEF Founded
  <2>3. IsBegun(m[c]) => IsBegun(case'[c])
    BY <1>1 DEF IsBegun
  <2>. QED  BY <1>1, <2>1, <2>2, <2>3 DEF Agree, Pays
<1>4. \A c \in Cases : Begun(c) => Begun(c)'
  BY <1>1 DEF Stirs, IsBegun, Begun
<1>5. \A u \in Tasks \ {t} : task'[u] = task[u]
  BY DEF WalkResult, RunInv, TypeInv
<1>6. TaskInv'
  <2>1. \A u \in Tasks \ {t} : task'[u].pc \notin {"none", "start"} =>
          task'[u].case \in Cases /\ IsBegun(case'[task'[u].case])
    BY <1>4, <1>5 DEF RunInv, TaskInv, IsBegun, Begun
  <2>2. task'[t].pc \notin {"none", "start"} =>
          task'[t].case \in Cases /\ IsBegun(case'[task'[t].case])
    BY DEF WalkResult, RunInv, TypeInv, NoTask, IsBegun
  <2>. QED  BY <2>1, <2>2 DEF TaskInv, IsBegun, Begun
<1>7. CreateInv'
  <2>1. ASSUME NEW u \in Tasks \ {t}, NEW c \in Cases, Creating(u, c)'
        PROVE  /\ case'[c].state = "starting" /\ buyer[c].at = "absent"
               /\ \A v \in Tasks \ {u} : ~Making(v, c)'
    <3>1. Creating(u, c) /\ case[c].state = "starting" /\ buyer[c].at = "absent"
          /\ \A v \in Tasks \ {u} : ~Making(v, c)
      BY <1>5, <2>1 DEF RunInv, CreateInv, Creating
    <3>2. m[c] = case[c]
      BY <3>1 DEF Stirs
    <3>3. case'[c].state = "starting"
      BY <1>1, <3>1, <3>2
    <3>4. ~Making(t, c)'
      <4>1. \A d \in Cases : m[d].state = "pending" => d # c
        BY <3>1, <3>2
      <4>. QED  BY <4>1 DEF WalkResult, RunInv, TypeInv, NoTask, Making
    <3>. QED  BY <1>5, <3>1, <3>3, <3>4 DEF Making
  <2>2. ASSUME NEW c \in Cases, Creating(t, c)'
        PROVE  /\ case'[c].state = "starting" /\ buyer[c].at = "absent"
               /\ \A v \in Tasks \ {t} : ~Making(v, c)'
    <3>1. m[c].state = "pending" /\ case'[c].state = "starting"
      BY <2>2 DEF WalkResult, RunInv, TypeInv, NoTask, Creating
    <3>2. ~IsBegun(m[c]) /\ ~Begun(c)
      BY <3>1 DEF Stirs, IsBegun
    <3>3. buyer[c].at = "absent"
      BY <3>2 DEF Stirs, Agree, Pays
    <3>4. \A v \in Tasks : ~Making(v, c)
      BY <3>2 DEF RunInv, TaskInv, Making
    <3>. QED  BY <1>5, <3>1, <3>3, <3>4 DEF Making
  <2>. QED  BY <2>1, <2>2 DEF CreateInv
<1>8. CasesInOrder'
  BY DEF WalkResult, InOrder, IsBegun, CasesInOrder, Begun, Over
<1>9. FinishedIsOver'
  <2>1. \A c \in Cases : Over(c) => Over(c)'
    BY <1>1 DEF Stirs, Over
  <2>. QED  BY <2>1 DEF WalkResult, RunInv, FinishedIsOver, Over
<1>10. OverStays
  BY <1>1 DEF Stirs, OverStays
<1>. QED
  BY <1>2, <1>3, <1>6, <1>7, <1>8, <1>9, <1>10 DEF RunInv

(* The cases as they are, before coroutine t has changed any.              *)
LEMMA StirsNone ==
  ASSUME RunInv, NEW t \in Tasks
  PROVE  Stirs(t, case)
  BY DEF Stirs, RunInv, TypeInv, CaseInv, IsBegun, Begun, Over

(* A coroutine that changes the state of its own case.                     *)
LEMMA StirsOne ==
  ASSUME RunInv, NEW t \in Tasks, NEW c \in Cases, task[t].case = c,
         task[t].pc \notin {"none", "start"},
         NEW k \in CaseType, IsBegun(k), Founded(k), k.seen = case[c].seen,
         case[c].session => k.session,
         Over(c) => /\ k.state \in Terminal
                    /\ k.state = case[c].state \/ task[t].pc = "create_failed",
         \A u \in Tasks \ {t} : ~Creating(u, c)
  PROVE  Stirs(t, [case EXCEPT ![c] = k])
<1>. DEFINE m == [case EXCEPT ![c] = k]
<1>1. /\ m \in [Cases -> CaseType] /\ m[c] = k /\ \A d \in Cases \ {c} : m[d] = case[d]
  BY DEF RunInv, TypeInv
<1>2. task[t] = [pc |-> task[t].pc, case |-> c]
  BY DEF RunInv, TypeInv, TaskType
<1>3. Begun(c)
  BY DEF RunInv, TaskInv
<1>. HIDE DEF m
<1>4. Agree(k, buyer[c], reply[c])
  BY DEF RunInv, CaseInv, Agree, Pays
<1>. QED
  <2>. SUFFICES Stirs(t, m)
    BY DEF m
  <2>. QED  BY <1>1, <1>2, <1>3, <1>4 DEF Stirs, RunInv, CaseInv, IsBegun, Begun, Over

LEMMA CoroutineKeeps ==
  ASSUME RunInv, NEW t \in Tasks, Coroutine(t)
  PROVE  RunInv' /\ OverStays
<1>. DEFINE c == task[t].case
<1>1. CASE Start(t)
  <2>1. Walk(t, 1, case, run) /\ UNCHANGED <<buyer, reply, bounds>>
    BY <1>1 DEF Start, Running
  <2>2. 1 \in 1..(N + 1) /\ \A d \in Cases : ~(d < 1)
    BY Numbers DEF Cases
  <2>3. WalkResult(t, case, run)
    BY <2>1, <2>2, StirsNone, OrderStirred, WalkOrder DEF RunInv, TypeInv
  <2>. QED  BY <2>1, <2>3, StirsNone, WalkKeeps
<1>2. ASSUME NEW m, NEW s \in {run, "running"}, Stirs(t, m), Continue(t, c, m, s),
             task[t].pc \notin {"none", "start"}, UNCHANGED <<buyer, reply, bounds>>
      PROVE  RunInv' /\ OverStays
  <2>1. c \in Cases /\ IsBegun(m[c])
    BY <1>2 DEF RunInv, TaskInv, Stirs
  <2>2. WalkResult(t, m, s)
    <3>. HIDE DEF c
    <3>. QED  BY <1>2, <2>1, OrderStirred, ContinueOrder DEF Stirs
  <2>. QED  BY <1>2, <2>2, WalkKeeps
<1>3. CASE Resume(t) \/ Poll(t)
  <2>1. /\ UNCHANGED <<buyer, reply, bounds>> /\ task[t].pc \notin {"none", "start"}
        /\ \E s \in {run, "running"} : Continue(t, c, case, s)
    BY <1>3 DEF Resume, Poll, Running
  <2>. QED  BY <1>2, <2>1, StirsNone
<1>4. CASE task[t].pc \notin {"none", "start"} /\ ~(Resume(t) \/ Poll(t))
  <2>1. /\ c \in Cases /\ Begun(c) /\ case[c] \in CaseType /\ Founded(case[c])
        /\ IsBegun(case[c])
    BY <1>4 DEF RunInv, TypeInv, TaskInv, CaseInv, IsBegun, Begun
  <2>. HIDE DEF c
  <2>2. CASE Timeout(t)
    <3>. DEFINE k == [case[c] EXCEPT !.state = "timeout"]
                m == [case EXCEPT ![c] = k]
    <3>1. /\ UNCHANGED <<buyer, reply, bounds>> /\ case[c].state \notin Terminal
          /\ Walk(t, c + 1, m, run)
          /\ \A u \in Tasks : task[u] # [pc |-> "creating", case |-> c]
      BY <2>2 DEF Timeout, Running, c
    <3>2. \A u \in Tasks : ~Creating(u, c)
      BY <3>1 DEF RunInv, TypeInv, TaskType, Creating
    <3>3. /\ k \in CaseType /\ IsBegun(k) /\ Founded(k) /\ k.state = "timeout"
          /\ k.seen = case[c].seen /\ k.session = case[c].session
      BY <2>1 DEF CaseType, CaseStates, IsBegun, Founded
    <3>. HIDE DEF k
    <3>4. Stirs(t, m)
      BY <1>4, <2>1, <3>1, <3>2, <3>3, StirsOne DEF c, Over, Terminal
    <3>5. m[c].state \in Terminal /\ m \in [Cases -> CaseType]
      BY <2>1, <3>3, <3>4 DEF RunInv, TypeInv, Stirs, Terminal
    <3>. HIDE DEF m
    <3>6. InOrder(m) /\ IsBegun(m[c])
      BY <2>1, <3>4, OrderStirred DEF Stirs
    <3>7. c + 1 \in 1..(N + 1) /\ \A d \in Cases : d < c + 1 => d < c \/ d = c
      BY <2>1, Numbers DEF Cases
    <3>8. \A d \in Cases : d < c + 1 => m[d].state \in Terminal
      BY <2>1, <3>5, <3>6, <3>7 DEF InOrder
    <3>9. WalkResult(t, m, run)
      BY <3>1, <3>5, <3>6, <3>7, <3>8, WalkOrder
    <3>. QED  BY <3>1, <3>4, <3>9, WalkKeeps
  <2>3. CASE GraceOver(t)
    <3>. DEFINE k == [case[c] EXCEPT !.state = "finished", !.waiting = 0]
                m == [case EXCEPT ![c] = k]
    <3>1. UNCHANGED <<buyer, reply, bounds>>
      BY <2>3 DEF GraceOver, Running
    <3>2. CASE case[c].state = "payment_ready"
      <4>1. Continue(t, c, m, run)
        BY <2>3, <3>2 DEF GraceOver, c, RunInv, TypeInv, CaseType
      <4>2. /\ k \in CaseType /\ IsBegun(k) /\ Founded(k)
            /\ k.seen = case[c].seen /\ k.session = case[c].session
        <5>1. k \in CaseType
          BY <2>1, Numbers DEF CaseType, CaseStates
        <5>. QED  BY <2>1, <3>2, <5>1 DEF CaseType, IsBegun, Founded
      <4>3. ~Over(c) /\ \A u \in Tasks : ~Creating(u, c)
        BY <2>1, <3>2 DEF Over, Terminal, RunInv, CreateInv
      <4>. HIDE DEF k
      <4>4. Stirs(t, m)
        BY <1>4, <2>1, <4>2, <4>3, StirsOne DEF c
      <4>. QED  BY <1>2, <1>4, <3>1, <4>1, <4>4 DEF c
    <3>3. CASE case[c].state # "payment_ready"
      <4>1. Continue(t, c, case, run)
        BY <2>3, <3>3 DEF GraceOver, c
      <4>. QED  BY <1>2, <1>4, <3>1, <4>1, StirsNone DEF c
    <3>. QED  BY <3>2, <3>3
  <2>4. CASE Created(t) \/ CreateFailed(t)
    <3>1. UNCHANGED <<buyer, reply, bounds>> /\ Making(t, c)
      BY <2>4 DEF Created, CreateFailed, Running, Making, c
    <3>2. \A u \in Tasks \ {t} : ~Creating(u, c)
      BY <2>1, <3>1 DEF RunInv, CreateInv
    <3>3. CASE Created(t)
      <4>. DEFINE k == [case[c] EXCEPT !.session = TRUE,
                          !.state = IF @ \in {"pending", "starting", "running"}
                                    THEN "running" ELSE @]
                  m == [case EXCEPT ![c] = k]
      <4>1. Continue(t, c, m, run)
        BY <3>3 DEF Created, c, RunInv, TypeInv, CaseType
      <4>2. /\ k \in CaseType /\ IsBegun(k) /\ Founded(k)
            /\ k.seen = case[c].seen /\ k.session
            /\ Over(c) => k.state \in Terminal /\ k.state = case[c].state
        BY <2>1 DEF CaseType, CaseStates, IsBegun, Founded, Over, Terminal
      <4>. HIDE DEF k
      <4>4. Stirs(t, m)
        BY <1>4, <2>1, <3>2, <4>2, StirsOne DEF c
      <4>. QED  BY <1>2, <1>4, <3>1, <4>1, <4>4 DEF c
    <3>4. CASE CreateFailed(t)
      <4>. DEFINE k == [case[c] EXCEPT !.state = "failed", !.waiting = 0]
                  m == [case EXCEPT ![c] = k]
      <4>1. Continue(t, c, m, run) /\ task[t].pc = "create_failed"
        BY <3>4 DEF CreateFailed, Running, c, RunInv, TypeInv, CaseType
      <4>2. /\ k \in CaseType /\ IsBegun(k) /\ Founded(k) /\ k.state \in Terminal
            /\ k.seen = case[c].seen /\ k.session = case[c].session
        <5>1. k \in CaseType
          BY <2>1, Numbers DEF CaseType, CaseStates
        <5>. QED  BY <2>1, <5>1 DEF CaseType, IsBegun, Founded, Terminal
      <4>. HIDE DEF k
      <4>4. Stirs(t, m)
        BY <1>4, <2>1, <3>2, <4>1, <4>2, StirsOne DEF c
      <4>. QED  BY <1>2, <1>4, <3>1, <4>1, <4>4 DEF c
    <3>. QED  BY <2>4, <3>3, <3>4
  <2>. QED
    BY <1>4, <2>2, <2>3, <2>4 DEF Coroutine, Start, Running
<1>5. Start(t) \/ Resume(t) \/ Poll(t) \/ task[t].pc \notin {"none", "start"}
  BY DEF Coroutine, Timeout, GraceOver, Created, CreateFailed, Running
<1>. QED
  BY <1>1, <1>3, <1>4, <1>5

-----------------------------------------------------------------------------
(* The handlers and the buyer *)

(* A callback of session b fits case k, whatever state the case is in.     *)
LEMMA CallbackFits ==
  ASSUME NEW k \in CaseType, NEW b \in BuyerType, NEW q,
         Founded(k), Speaks(b), Agree(k, b, q), b.out # View!Silence
  PROVE  LET k2 == AfterCallback(k, b.out)
         IN /\ k2 \in CaseType /\ Founded(k2) /\ IsBegun(k) /\ IsBegun(k2)
            /\ k.state \in Terminal => k2.state = k.state
            /\ b.out \in k2.seen /\ k.seen \subseteq k2.seen
            /\ k.session => k2.session
<1>. SUFFICES ASSUME NEW k2, k2 = AfterCallback(k, b.out)
              PROVE  /\ k2 \in CaseType /\ Founded(k2) /\ IsBegun(k) /\ IsBegun(k2)
                     /\ k.state \in Terminal => k2.state = k.state
                     /\ b.out \in k2.seen /\ k.seen \subseteq k2.seen
                     /\ k.session => k2.session
  OBVIOUS
<1>1. b.out \in Events /\ b.out.type \in View!EventTypes /\ IsBegun(k)
  BY DEF BuyerType, Events, Speaks, Agree, Pays
<1>2. CASE b.out \in k.seen
  BY <1>1, <1>2 DEF AfterCallback
<1>3. CASE b.out \notin k.seen /\ k.state \in Terminal
  <2>1. k2 = [k EXCEPT !.seen = k.seen \cup {b.out}]
    BY <1>3 DEF AfterCallback, CaseType
  <2>. QED  BY <1>1, <1>3, <2>1 DEF CaseType, Founded, IsBegun
<1>4. CASE b.out \notin k.seen /\ k.state \notin Terminal
  <2>. DEFINE j == Moved(k, b.out)
  <2>1. /\ j \in CaseType /\ j.seen = k.seen /\ j.session = k.session /\ IsBegun(j)
        /\ \/ j.state = k.state /\ j.waiting = k.waiting
           \/ j.state = "running"
           \/ b.out.type = "ask_user" /\ j.state = "waiting_user" /\ j.waiting = b.out.n
           \/ b.out.type = "payment_ready" /\ j.state = "payment_ready"
           \/ b.out.type \in {"payment_unverified", "unverified"} /\ j.state = "unverified"
           \/ b.out.type = "failed" /\ j.state = "failed"
           \/ b.out.type = "completed" /\ j.state = "finished"
    <3>1. CASE b.out.type = "ask_user"
      <4>1. b.out.n \in 0..MaxSteps
        BY <3>1, Numbers DEF Speaks
      <4>. QED  BY <3>1, <4>1 DEF Moved, CaseType, CaseStates, IsBegun
    <3>2. CASE b.out.type = "agent_step_started"
      BY <1>1, <3>2, Numbers DEF Moved, CaseType, CaseStates, IsBegun
    <3>3. ASSUME NEW x \in {"payment_ready", "unverified", "failed", "finished"},
                 j = [k EXCEPT !.state = x, !.waiting = 0]
          PROVE  /\ j \in CaseType /\ j.seen = k.seen /\ j.session = k.session
                 /\ IsBegun(j) /\ j.state = x
      BY <3>3, Numbers DEF CaseType, CaseStates, IsBegun
    <3>4. CASE b.out.type \notin {"ask_user", "agent_step_started"}
      <4>1. \/ /\ b.out.type = "payment_ready"
               /\ j = [k EXCEPT !.state = "payment_ready", !.waiting = 0]
            \/ /\ b.out.type \in {"payment_unverified", "unverified"}
               /\ j = [k EXCEPT !.state = "unverified", !.waiting = 0]
            \/ /\ b.out.type = "failed" /\ j = [k EXCEPT !.state = "failed", !.waiting = 0]
            \/ /\ b.out.type = "completed" /\ j = [k EXCEPT !.state = "finished", !.waiting = 0]
        BY <1>1, <3>4 DEF Moved, View!EventTypes
      <4>. HIDE DEF j
      <4>. QED  BY <3>3, <4>1
    <3>. QED  BY <3>1, <3>2, <3>4
  <2>2. k2 = [j EXCEPT !.session = TRUE, !.seen = k.seen \cup {b.out}]
    BY <1>4, <2>1 DEF AfterCallback, CaseType
  <2>. HIDE DEF j
  <2>3. /\ k2 \in CaseType /\ k2.session /\ k2.seen = k.seen \cup {b.out}
        /\ k2.state = j.state /\ k2.waiting = j.waiting /\ IsBegun(k2)
    <3>1. k.seen \cup {b.out} \in SUBSET Events /\ j \in CaseType
      BY <1>1, <2>1 DEF CaseType
    <3>2. /\ k2 \in CaseType /\ k2.session /\ k2.seen = k.seen \cup {b.out}
          /\ k2.state = j.state /\ k2.waiting = j.waiting
      BY <2>2, <3>1 DEF CaseType
    <3>. QED  BY <2>1, <3>2 DEF IsBegun
  <2>4. b.out.type = "ask_user" => b.out = Event("ask_user", b.out.n)
    BY <1>1 DEF Events, Event, View!Event
  <2>5. Founded(k2)
    <3>1. CASE k2.state = k.state /\ k2.waiting = k.waiting
      BY <2>1, <2>3, <3>1 DEF Founded
    <3>2. CASE k2.state \in {"running", "failed"}
      BY <3>2 DEF Founded
    <3>3. CASE b.out.type = "ask_user" /\ k2.state = "waiting_user" /\ k2.waiting = b.out.n
      BY <2>3, <2>4, <3>3 DEF Founded
    <3>4. CASE b.out.type \in {"payment_ready", "completed"} /\ k2.state \in {"payment_ready", "finished"}
      BY <2>3, <3>4 DEF Founded, Speaks, Agree, Pays
    <3>5. CASE b.out.type \in {"payment_unverified", "unverified"} /\ k2.state = "unverified"
      BY <2>3, <3>5 DEF Founded, Speaks, Agree, Pays
    <3>. QED  BY <2>1, <2>3, <3>1, <3>2, <3>3, <3>4, <3>5
  <2>. QED  BY <1>1, <1>4, <2>3, <2>5
<1>. QED
  BY <1>2, <1>3, <1>4

(* A step that touches one case, its session and its replies, and starts   *)
(* a coroutine for that case at most.                                      *)
LEMMA OneCaseKeeps ==
  ASSUME RunInv, TypeInv', NEW c \in Cases,
         \A d \in Cases \ {c} :
           case'[d] = case[d] /\ buyer'[d] = buyer[d] /\ reply'[d] = reply[d],
         Founded(case'[c]), Speaks(buyer'[c]), Agree(case'[c], buyer'[c], reply'[c]),
         Begun(c) <=> IsBegun(case'[c]),
         Over(c) => case'[c].state = case[c].state,
         (\E t \in Tasks : Creating(t, c)) =>
           case'[c].state = case[c].state /\ buyer'[c].at = buyer[c].at,
         \A t \in Tasks : \/ task'[t] = task[t] \/ task'[t] = NoTask
                          \/ task'[t] = [pc |-> "resume", case |-> c] /\ Begun(c),
         run' \in {run, "failed"}
  PROVE  RunInv' /\ OverStays
<1>1. \A d \in Cases : /\ Begun(d) <=> Begun(d)'
                       /\ Over(d) => Over(d)' /\ case'[d].state = case[d].state
  BY DEF IsBegun, Begun, Over
<1>2. \A t \in Tasks, d \in Cases : /\ Creating(t, d)' => Creating(t, d)
                                    /\ Making(t, d)' => Making(t, d)
  BY DEF NoTask, Creating, Making
<1>3. CaseInv'
  BY DEF RunInv, CaseInv
<1>4. TaskInv'
  <2>. SUFFICES ASSUME NEW t \in Tasks, task'[t].pc \notin {"none", "start"}
                PROVE  task'[t].case \in Cases /\ IsBegun(case'[task'[t].case])
    BY DEF TaskInv, IsBegun, Begun
  <2>1. CASE task'[t] = task[t]
    BY <1>1, <2>1 DEF RunInv, TaskInv, IsBegun, Begun
  <2>2. CASE task'[t] = [pc |-> "resume", case |-> c] /\ Begun(c)
    BY <2>2
  <2>. QED  BY <2>1, <2>2 DEF NoTask
<1>5. CreateInv'
  <2>. SUFFICES ASSUME NEW t \in Tasks, NEW d \in Cases, Creating(t, d)'
                PROVE  /\ case'[d].state = "starting" /\ buyer'[d].at = "absent"
                       /\ \A u \in Tasks \ {t} : ~Making(u, d)'
    BY DEF CreateInv
  <2>1. /\ Creating(t, d) /\ case[d].state = "starting" /\ buyer[d].at = "absent"
        /\ \A u \in Tasks \ {t} : ~Making(u, d)
    BY <1>2 DEF RunInv, CreateInv
  <2>. QED  BY <1>2, <2>1
<1>6. CasesInOrder' /\ FinishedIsOver' /\ OverStays
  BY <1>1 DEF RunInv, CasesInOrder, FinishedIsOver, OverStays
<1>. QED
  BY <1>3, <1>4, <1>5, <1>6 DEF RunInv

(* What every case, session and reply is typed as, and the bounds' steps.  *)
LEMMA CaseFacts ==
  ASSUME RunInv, NEW c \in Cases
  PROVE  /\ case[c] \in CaseType /\ buyer[c] \in BuyerType /\ reply[c] \in ReplyType
         /\ Founded(case[c]) /\ Speaks(buyer[c]) /\ Agree(case[c], buyer[c], reply[c])
         /\ Begun(c) <=> IsBegun(case[c])
         /\ \A t \in Tasks : Creating(t, c) =>
              case[c].state = "starting" /\ buyer[c].at = "absent"
  BY DEF RunInv, TypeInv, CaseInv, CreateInv, IsBegun, Begun

LEMMA LoseType ==
  ASSUME RunInv, NEW n \in Nat, Lose(n)
  PROVE  lost' \in 0..MaxLost
  BY ConstantsAssumption DEF ConstantsAssumption, RunInv, TypeInv, Lose

LEMMA RaisesKeeps ==
  ASSUME RunInv, NEW t \in Tasks, TaskRaises(t)
  PROVE  RunInv' /\ OverStays
<1>1. /\ faults' \in 0..MaxFaults /\ run' = "failed" /\ task' = [task EXCEPT ![t] = NoTask]
      /\ UNCHANGED <<case, buyer, reply, replies, lost, restarts>>
  BY ConstantsAssumption DEF ConstantsAssumption, TaskRaises, RunInv, TypeInv
<1>2. TypeInv' /\ \A u \in Tasks : task'[u] = task[u] \/ task'[u] = NoTask
  BY <1>1, Numbers DEF RunInv, TypeInv, TaskType, NoTask
<1>3. 1 \in Cases
  BY ConstantsAssumption DEF ConstantsAssumption, Cases
<1>. QED
  BY <1>1, <1>2, <1>3, CaseFacts, OneCaseKeeps

LEMMA RestartKeeps ==
  ASSUME RunInv, Restart
  PROVE  RunInv' /\ OverStays
<1>1. /\ restarts' \in 0..MaxRestarts /\ task' = [t \in Tasks |-> NoTask]
      /\ reply' = [c \in Cases |-> [r \in Questions |-> "none"]]
      /\ UNCHANGED <<run, case, buyer, replies, lost, faults>>
  BY ConstantsAssumption DEF ConstantsAssumption, Restart, Restarts, RunInv, TypeInv
<1>2. TypeInv'
  BY <1>1, Numbers DEF RunInv, TypeInv, TaskType, NoTask, ReplyType
<1>3. CaseInv'
  BY <1>1 DEF RunInv, CaseInv, Agree, Pays
<1>4. TaskInv' /\ CreateInv'
  BY <1>1 DEF TaskInv, CreateInv, Creating, Making, NoTask
<1>5. CasesInOrder' /\ FinishedIsOver' /\ OverStays
  BY <1>1 DEF RunInv, CasesInOrder, FinishedIsOver, OverStays, Begun, Over
<1>. QED
  BY <1>2, <1>3, <1>4, <1>5 DEF RunInv

(* A session that has been created says nothing yet.                       *)
LEMMA NewSession ==
  /\ View!Created \in BuyerType /\ Speaks(View!Created) /\ View!Created.at = "step"
  /\ \A k : Pays(k, View!Created)
<1>1. View!Created = [at |-> "step", out |-> View!Silence, tries |-> 0, step |-> 0, asked |-> 0,
                      question |-> 0]
  BY DEF View!Created, View!Absent
<1>2. View!Silence.type = "none"
  BY DEF View!Silence, View!Event
<1>. QED
  BY <1>1, <1>2, Numbers DEF BuyerType, View!Places, Speaks, Pays

(* A session that is over says nothing more.                               *)
LEMMA OverSession ==
  /\ View!Over \in BuyerType /\ Speaks(View!Over) /\ View!Over.at = "over"
  /\ \A k : Pays(k, View!Over)
<1>1. View!Over = [at |-> "over", out |-> View!Silence, tries |-> 0, step |-> 0, asked |-> 0,
                   question |-> 0]
  BY DEF View!Over, View!Absent
<1>2. View!Silence.type = "none"
  BY DEF View!Silence, View!Event
<1>. QED
  BY <1>1, <1>2, Numbers DEF BuyerType, View!Places, Speaks, Pays

LEMMA BuyerRestartsKeeps ==
  ASSUME RunInv, BuyerRestarts
  PROVE  RunInv' /\ OverStays
<1>1. /\ restarts' \in 0..MaxRestarts /\ buyer' = [c \in Cases |-> View!Cut(buyer[c])]
      /\ UNCHANGED <<run, case, task, reply, replies, lost, faults>>
  BY ConstantsAssumption DEF ConstantsAssumption, BuyerRestarts, Restarts, RunInv, TypeInv
<1>2. ASSUME NEW c \in Cases
      PROVE  /\ buyer'[c] \in BuyerType /\ Speaks(buyer'[c])
             /\ Agree(case[c], buyer'[c], reply[c])
             /\ buyer[c].at = "absent" => buyer'[c].at = "absent"
  <2>1. /\ buyer[c] \in BuyerType /\ Speaks(buyer[c])
        /\ Agree(case[c], buyer[c], reply[c])
    BY CaseFacts
  <2>2. CASE View!Active(buyer[c])
    <3>1. buyer'[c] = View!Over
      BY <1>1, <2>2 DEF View!Cut
    <3>. QED  BY <2>1, <2>2, <3>1, OverSession DEF View!Active, Agree
  <2>3. CASE ~View!Active(buyer[c])
    <3>1. buyer'[c] = buyer[c]
      BY <1>1, <2>3 DEF View!Cut
    <3>. QED  BY <2>1, <3>1
  <2>. QED  BY <2>2, <2>3
<1>3. TypeInv'
  BY <1>1, <1>2 DEF RunInv, TypeInv
<1>4. CaseInv' /\ TaskInv' /\ CreateInv'
  BY <1>1, <1>2 DEF RunInv, CaseInv, TaskInv, CreateInv, Creating, Making, Begun
<1>5. CasesInOrder' /\ FinishedIsOver' /\ OverStays
  BY <1>1 DEF RunInv, CasesInOrder, FinishedIsOver, OverStays, Begun, Over
<1>. QED
  BY <1>3, <1>4, <1>5 DEF RunInv

(* POST /v1/tasks: the session begins, or its creation has failed.         *)
LEMMA CreatesKeeps ==
  ASSUME RunInv, NEW t \in Tasks, BuyerCreates(t)
  PROVE  RunInv' /\ OverStays
<1>. DEFINE c == task[t].case
<1>1. /\ Creating(t, c) /\ lost' \in 0..MaxLost
      /\ UNCHANGED <<run, case, reply, replies, faults, restarts>>
      /\ buyer' = buyer \/ buyer' = [buyer EXCEPT ![c] = View!Created]
      /\ \E pc \in {"created", "create_failed"} :
           task' = [task EXCEPT ![t] = [pc |-> pc, case |-> c]]
  BY LoseType DEF BuyerCreates, Becomes, At, Creating
<1>2. c \in Cases /\ Begun(c)
  BY <1>1 DEF Creating, RunInv, TaskInv
<1>. HIDE DEF c
<1>3. /\ case[c].state = "starting" /\ buyer[c].at = "absent" /\ buyer[c].out = View!Silence
      /\ \A u \in Tasks \ {t} : ~Making(u, c)
  BY <1>1, <1>2, CaseFacts DEF RunInv, CreateInv, Speaks
<1>4. \A d \in Cases \ {c} : buyer'[d] = buyer[d]
  BY <1>1, <1>2 DEF RunInv, TypeInv
<1>5. /\ buyer'[c] \in BuyerType /\ Speaks(buyer'[c])
      /\ buyer'[c] = buyer[c] \/ (buyer'[c].at = "step" /\ \A k : Pays(k, buyer'[c]))
  <2>1. buyer[c] \in BuyerType /\ Speaks(buyer[c])
    BY <1>2, CaseFacts
  <2>2. CASE buyer' = buyer
    BY <2>1, <2>2
  <2>3. CASE buyer' = [buyer EXCEPT ![c] = View!Created]
    <3>1. buyer'[c] = View!Created
      BY <1>2, <2>3 DEF RunInv, TypeInv
    <3>. QED  BY <3>1, NewSession
  <2>. QED  BY <1>1, <2>2, <2>3
<1>6. \A u \in Tasks \ {t} : task'[u] = task[u]
  BY <1>1 DEF RunInv, TypeInv
<1>7. task'[t].case = c /\ task'[t].pc \in {"created", "create_failed"} /\ task'[t] \in TaskType
  BY <1>1, <1>2, Numbers DEF RunInv, TypeInv, TaskType, Cases
<1>8. TypeInv'
  <2>1. buyer' \in [Cases -> BuyerType]
    BY <1>1, <1>2, <1>4, <1>5 DEF RunInv, TypeInv
  <2>2. task' \in [Tasks -> TaskType]
    BY <1>1, <1>6, <1>7 DEF RunInv, TypeInv
  <2>. QED  BY <1>1, <2>1, <2>2 DEF RunInv, TypeInv
<1>9. CaseInv'
  <2>1. Agree(case[c], buyer'[c], reply[c])
    BY <1>2, <1>5, CaseFacts DEF Agree, Pays
  <2>. QED  BY <1>1, <1>4, <1>5, <2>1 DEF RunInv, CaseInv
<1>10. TaskInv'
  BY <1>1, <1>2, <1>6, <1>7 DEF RunInv, TaskInv, Begun
<1>11. CreateInv'
  <2>. SUFFICES ASSUME NEW u \in Tasks, NEW d \in Cases, Creating(u, d)'
                PROVE  /\ case'[d].state = "starting" /\ buyer'[d].at = "absent"
                       /\ \A v \in Tasks \ {u} : ~Making(v, d)'
    BY DEF CreateInv
  <2>1. u # t /\ Creating(u, d)
    BY <1>6, <1>7 DEF Creating
  <2>2. d # c
    BY <1>3, <2>1 DEF Creating, Making
  <2>3. /\ case[d].state = "starting" /\ buyer[d].at = "absent"
        /\ \A v \in Tasks \ {u} : ~Making(v, d)
    BY <2>1 DEF RunInv, CreateInv
  <2>4. ~Making(t, d)'
    BY <1>7, <2>2 DEF Making
  <2>. QED  BY <1>1, <1>4, <1>6, <2>2, <2>3, <2>4 DEF Making
<1>12. CasesInOrder' /\ FinishedIsOver' /\ OverStays
  BY <1>1 DEF RunInv, CasesInOrder, FinishedIsOver, OverStays, Begun, Over
<1>. QED
  BY <1>8, <1>9, <1>10, <1>11, <1>12 DEF RunInv

(* A coroutine that resumes the run after case c.                          *)
LEMMA SpawnType ==
  ASSUME RunInv, NEW c \in Cases, Begun(c), Spawn(c)
  PROVE  /\ task' \in [Tasks -> TaskType]
         /\ \A t \in Tasks : \/ task'[t] = task[t]
                             \/ task'[t] = [pc |-> "resume", case |-> c] /\ Begun(c)
<1>. DEFINE u == Min({v \in Tasks : task[v].pc = "none"})
<1>1. task' = [task EXCEPT ![u] = [pc |-> "resume", case |-> c]]
  BY DEF Spawn
<1>. HIDE DEF u
<1>2. [pc |-> "resume", case |-> c] \in TaskType
  BY Numbers DEF TaskType, Cases
<1>3. task \in [Tasks -> TaskType]
  BY DEF RunInv, TypeInv
<1>. QED
  BY <1>1, <1>2, <1>3

(* The operator's replies: claimed, accepted or failed.                    *)
LEMMA RepliesKeep ==
  ASSUME RunInv, NEW c \in Cases, NEW r \in Questions,
         ClaimReply(c, r) \/ ReplyAccepted(c, r) \/ ReplyFailed(c, r)
  PROVE  RunInv' /\ OverStays
<1>. DEFINE k == case[c]
            q == reply[c]
            resumed == [k EXCEPT !.state = "running", !.waiting = 0]
            back == [k EXCEPT !.state = "waiting_user", !.waiting = r]
<1>0. /\ k \in CaseType /\ buyer[c] \in BuyerType /\ q \in ReplyType /\ r \in 0..MaxSteps
      /\ Founded(k) /\ Speaks(buyer[c]) /\ Agree(k, buyer[c], q) /\ (Begun(c) <=> IsBegun(k))
      /\ \A t \in Tasks : Creating(t, c) => k.state = "starting"
  BY CaseFacts, Numbers
<1>1. /\ resumed \in CaseType /\ back \in CaseType /\ IsBegun(resumed) /\ IsBegun(back)
      /\ resumed.seen = k.seen /\ resumed.session = k.session /\ Founded(resumed)
      /\ back.seen = k.seen /\ back.session = k.session
      /\ back.state = "waiting_user" /\ back.waiting = r
  <2>1. resumed \in CaseType /\ back \in CaseType
    BY <1>0, Numbers DEF CaseType, CaseStates
  <2>. QED  BY <1>0, <2>1 DEF CaseType, IsBegun, Founded
<1>2. ASSUME NEW j \in {k, resumed, back}, case' = [case EXCEPT ![c] = j],
             NEW a \in {"none", "sent"}, reply' = [reply EXCEPT ![c] = [q EXCEPT ![r] = a]],
             a = "sent" => IsBegun(k) /\ k.session /\ Event("ask_user", r) \in k.seen,
             j = k \/ (IsBegun(k) /\ k.state \notin Terminal \cup {"starting"}),
             j = back => k.session /\ Event("ask_user", r) \in k.seen,
             UNCHANGED task \/ (Spawn(c) /\ Begun(c)),
             replies' \in 0..MaxReplies, UNCHANGED <<run, buyer, lost, faults, restarts>>
      PROVE  RunInv' /\ OverStays
  <2>. HIDE DEF k, q, resumed, back
  <2>1. /\ case' \in [Cases -> CaseType] /\ case'[c] = j
        /\ \A d \in Cases \ {c} : case'[d] = case[d]
    BY <1>0, <1>1, <1>2 DEF RunInv, TypeInv
  <2>2. /\ reply' \in [Cases -> ReplyType] /\ reply'[c] = [q EXCEPT ![r] = a]
        /\ \A d \in Cases \ {c} : reply'[d] = reply[d]
    BY <1>0, <1>2 DEF RunInv, TypeInv, ReplyType
  <2>3. /\ task' \in [Tasks -> TaskType]
        /\ \A t \in Tasks : \/ task'[t] = task[t]
                            \/ task'[t] = [pc |-> "resume", case |-> c] /\ Begun(c)
    BY <1>2, SpawnType DEF RunInv, TypeInv
  <2>4. TypeInv'
    BY <1>2, <2>1, <2>2, <2>3 DEF RunInv, TypeInv
  <2>5. Founded(j) /\ j.seen = k.seen /\ j.session = k.session /\ (IsBegun(k) <=> IsBegun(j))
    BY <1>0, <1>1, <1>2 DEF Founded
  <2>6. Agree(j, buyer'[c], reply'[c])
    <3>1. \A x \in Questions : reply'[c][x] # "none" =>
            IsBegun(j) /\ j.session /\ Event("ask_user", x) \in j.seen
      BY <1>0, <1>2, <2>2, <2>5 DEF Agree, Pays, ReplyType
    <3>. QED  BY <1>0, <1>2, <2>5, <3>1 DEF Agree, Pays
  <2>7. Over(c) => case'[c].state = case[c].state
    BY <1>2, <2>1 DEF Over, k
  <2>8. (\E t \in Tasks : Creating(t, c)) => case'[c].state = case[c].state
    BY <1>0, <1>2, <2>1 DEF k
  <2>. QED
    BY <1>0, <1>2, <2>1, <2>2, <2>3, <2>4, <2>5, <2>6, <2>7, <2>8, OneCaseKeeps
<1>3. /\ case = [case EXCEPT ![c] = k] /\ replies \in 0..MaxReplies
      /\ \A a : reply' = [reply EXCEPT ![c][r] = a] => reply' = [reply EXCEPT ![c] = [q EXCEPT ![r] = a]]
      /\ [case EXCEPT ![c].state = "running", ![c].waiting = 0] = [case EXCEPT ![c] = resumed]
      /\ [case EXCEPT ![c].state = "waiting_user", ![c].waiting = r] = [case EXCEPT ![c] = back]
  BY DEF RunInv, TypeInv, CaseType
<1>4. Terminal \cap {"waiting_user", "running", "starting"} = {}
  BY DEF Terminal
<1>5. CASE ClaimReply(c, r)
  <2>1. /\ k.state = "waiting_user" /\ k.session /\ k.waiting = r
        /\ case' = [case EXCEPT ![c] = resumed]
        /\ reply' = [reply EXCEPT ![c] = [q EXCEPT ![r] = "sent"]]
        /\ UNCHANGED <<run, task, buyer, lost, faults, restarts>>
    BY <1>3, <1>5 DEF ClaimReply, Answer
  <2>2. replies' \in 0..MaxReplies
    BY <1>3, <1>5, ConstantsAssumption DEF ConstantsAssumption, ClaimReply
  <2>3. IsBegun(k) /\ Event("ask_user", r) \in k.seen
    BY <1>0, <2>1 DEF Founded, IsBegun
  <2>4. "sent" \in {"none", "sent"} /\ resumed \in {k, resumed, back}
        /\ k.state \notin Terminal \cup {"starting"}
    BY <1>4, <2>1
  <2>. HIDE DEF k, q, resumed, back
  <2>. QED  BY <1>2, <2>1, <2>2, <2>3, <2>4
<1>6. CASE ReplyAccepted(c, r) \/ ReplyFailed(c, r)
  <2>1. /\ q[r] # "none" /\ reply' = [reply EXCEPT ![c] = [q EXCEPT ![r] = "none"]]
        /\ UNCHANGED <<run, buyer, bounds>>
        /\ UNCHANGED task \/ Spawn(c)
    BY <1>3, <1>6 DEF ReplyAccepted, ReplyFailed, Answer
  <2>2. IsBegun(k) /\ Begun(c) /\ k.session /\ Event("ask_user", r) \in k.seen
    BY <1>0, <2>1 DEF Agree, Pays
  <2>3. \/ case' = [case EXCEPT ![c] = k]
        \/ k.state = "waiting_user" /\ case' = [case EXCEPT ![c] = resumed]
        \/ k.state = "running" /\ case' = [case EXCEPT ![c] = back]
    BY <1>3, <1>6 DEF ReplyAccepted, ReplyFailed, Claimed, Restored
  <2>4. "none" \in {"none", "sent"} /\ replies' \in 0..MaxReplies
        /\ UNCHANGED <<lost, faults, restarts>>
    BY <1>3, <2>1 DEF bounds
  <2>5. ASSUME NEW j \in {k, resumed, back}, case' = [case EXCEPT ![c] = j],
               j = k \/ k.state \notin Terminal \cup {"starting"}
        PROVE  RunInv' /\ OverStays
    <3>. HIDE DEF k, q, resumed, back
    <3>. QED  BY <1>2, <2>1, <2>2, <2>4, <2>5
  <2>. HIDE DEF k, q, resumed, back
  <2>6. CASE case' = [case EXCEPT ![c] = k]
    BY <2>5, <2>6
  <2>7. CASE k.state = "waiting_user" /\ case' = [case EXCEPT ![c] = resumed]
    BY <1>4, <2>5, <2>7
  <2>8. CASE k.state = "running" /\ case' = [case EXCEPT ![c] = back]
    BY <1>4, <2>5, <2>8
  <2>. QED  BY <2>3, <2>6, <2>7, <2>8
<1>. QED
  BY <1>5, <1>6

(* A step of the session of case c: it speaks, is heard or not, hears, or  *)
(* answers a reply.                                                        *)
SessionMoves(c, k, b, q) ==
  /\ b \in BuyerType /\ q \in ReplyType /\ Speaks(b)
  /\ \/ k = case[c]
     \/ buyer[c].out # View!Silence /\ k = AfterCallback(case[c], buyer[c].out)
  /\ b.at = buyer[c].at \/ (b.at # "absent" /\ buyer[c].at # "absent")
  /\ Pays(k, b)
  /\ \A r \in Questions : q[r] # "none" => reply[c][r] # "none"
  /\ case' = [case EXCEPT ![c] = k] /\ buyer' = [buyer EXCEPT ![c] = b]
  /\ reply' = [reply EXCEPT ![c] = q] /\ lost' \in 0..MaxLost
  /\ UNCHANGED <<run, task, replies, faults, restarts>>

LEMMA SessionStep ==
  ASSUME RunInv, NEW c \in Cases, NEW k, NEW b, NEW q, SessionMoves(c, k, b, q)
  PROVE  RunInv' /\ OverStays
<1>. USE DEF SessionMoves
<1>1. /\ case[c] \in CaseType /\ buyer[c] \in BuyerType
      /\ Founded(case[c]) /\ Speaks(buyer[c]) /\ Agree(case[c], buyer[c], reply[c])
      /\ Begun(c) <=> IsBegun(case[c])
      /\ \A t \in Tasks : Creating(t, c) =>
           case[c].state = "starting" /\ buyer[c].at = "absent"
  BY CaseFacts
<1>2. /\ k \in CaseType /\ Founded(k) /\ (IsBegun(case[c]) <=> IsBegun(k))
      /\ case[c].state \in Terminal => k.state = case[c].state
      /\ case[c].seen \subseteq k.seen /\ (case[c].session => k.session)
  <2>1. CASE k = case[c]
    BY <1>1, <2>1
  <2>2. CASE buyer[c].out # View!Silence /\ k = AfterCallback(case[c], buyer[c].out)
    BY <1>1, <2>2, CallbackFits
  <2>. QED  BY <2>1, <2>2
<1>3. buyer[c].at = "absent" => k = case[c]
  BY <1>1 DEF Speaks
<1>4. /\ case' \in [Cases -> CaseType] /\ case'[c] = k
      /\ buyer' \in [Cases -> BuyerType] /\ buyer'[c] = b
      /\ reply' \in [Cases -> ReplyType] /\ reply'[c] = q
      /\ \A d \in Cases \ {c} :
           case'[d] = case[d] /\ buyer'[d] = buyer[d] /\ reply'[d] = reply[d]
  BY <1>2 DEF RunInv, TypeInv
<1>5. TypeInv'
  BY <1>4 DEF RunInv, TypeInv
<1>6. Agree(k, b, q)
  BY <1>1, <1>2 DEF Agree, Pays
<1>7. (\E t \in Tasks : Creating(t, c)) => k.state = case[c].state /\ b.at = buyer[c].at
  BY <1>1, <1>3
<1>8. Over(c) => k.state = case[c].state
  BY <1>2 DEF Over
<1>. QED
  BY <1>1, <1>2, <1>4, <1>5, <1>6, <1>7, <1>8, OneCaseKeeps

(* What a session may say next.                                            *)
LEMMA SpeechFits ==
  ASSUME NEW b \in BuyerType, Speaks(b), View!Idle(b), NEW b2 \in View!Speeches(b),
         b2.step <= MaxSteps, b2.at = "asked" => b2.step < MaxSteps,
         NEW k, Pays(k, b)
  PROVE  /\ b2 \in BuyerType /\ Speaks(b2) /\ Pays(k, b2)
         /\ b.at # "absent" /\ b2.at # "absent"
<1>1. /\ b.at \notin {"absent", "over"} /\ b.out = View!Silence /\ View!Silence.type = "none"
      /\ b.step \in 0..MaxSteps /\ b.asked \in 0..MaxSteps /\ MaxSteps \in Nat
      /\ \A type \in View!EventTypes : View!Event(type, 0) \in Events
      /\ \A type, n : /\ View!Event(type, n).type = type /\ View!Event(type, n).n = n
                      /\ type # "none" => View!Event(type, n) # View!Silence
      /\ Ready # View!Silence /\ Doubtful # View!Silence
  BY Numbers DEF View!Idle, View!Active, View!Silence, View!Event, BuyerType, Events, Ready,
     Doubtful, Event
<1>2. ASSUME NEW type \in View!EventTypes \ {"ask_user"}, NEW at \in {"paid", "found", "settle"},
             b2 = View!Say(b, type, at),
             at = "paid" => type = "payment_ready",
             at = "found" => type = "payment_unverified",
             type = "completed" => b.at = "paid", type = "unverified" => b.at = "found"
      PROVE  /\ b2 \in BuyerType /\ Speaks(b2) /\ Pays(k, b2) /\ b2.at # "absent"
  <2>1. /\ b2 = [b EXCEPT !.out = View!Event(type, 0), !.at = at]
        /\ b2.out = View!Event(type, 0) /\ b2.at = at /\ b2.asked = b.asked /\ b2.step = b.step
    BY <1>2 DEF View!Say, BuyerType
  <2>2. b2 \in BuyerType
    BY <1>1, <2>1 DEF BuyerType, View!Places
  <2>3. /\ type = "payment_ready" => b2.out = Ready
        /\ type = "payment_unverified" => b2.out = Doubtful
    BY <2>1 DEF Ready, Doubtful, Event
  <2>4. b2.out.type = type
    BY <1>1, <2>1
  <2>5. Speaks(b2)
    BY <1>1, <1>2, <2>1, <2>3, <2>4 DEF Speaks
  <2>6. Pays(k, b2)
    BY <1>1, <1>2, <2>1, <2>3, <2>4 DEF Pays
  <2>. QED  BY <2>1, <2>2, <2>5, <2>6
<1>3. ASSUME b2 = View!StartStep(b)
      PROVE  /\ b2 \in BuyerType /\ Speaks(b2) /\ Pays(k, b2) /\ b2.at # "absent"
  <2>. DEFINE n == b.step + 1
              e == View!Event("agent_step_started", n)
  <2>1. b2 = [b EXCEPT !.out = e, !.step = n, !.at = "result"]
    BY <1>3 DEF View!StartStep
  <2>2. e.type = "agent_step_started" /\ e.n = n
    BY <1>1
  <2>. HIDE DEF e
  <2>3. b2.out = e /\ b2.at = "result" /\ b2.step = n /\ b2.asked = b.asked
    BY <2>1 DEF BuyerType
  <2>4. n \in 0..MaxSteps
    BY <1>1, <2>3
  <2>5. e \in Events
    BY <2>4 DEF e, Events, View!Event, View!EventTypes
  <2>6. b2 \in BuyerType
    BY <2>1, <2>4, <2>5 DEF BuyerType, View!Places
  <2>7. Speaks(b2)
    BY <1>1, <2>2, <2>3 DEF Speaks
  <2>8. Pays(k, b2)
    BY <2>2, <2>3 DEF Pays
  <2>. QED  BY <2>3, <2>6, <2>7, <2>8
<1>4. ASSUME b2 = View!Ask(b), b.at = "result"
      PROVE  /\ b2 \in BuyerType /\ Speaks(b2) /\ Pays(k, b2) /\ b2.at # "absent"
  <2>. DEFINE n == b.asked + 1
              e == View!Event("ask_user", n)
  <2>1. b2 = [b EXCEPT !.out = e, !.asked = n, !.question = n, !.at = "asked"]
    BY <1>4 DEF View!Ask
  <2>2. e.type = "ask_user" /\ e.n = n
    BY <1>1
  <2>. HIDE DEF e
  <2>3. b2.out = e /\ b2.at = "asked" /\ b2.step = b.step /\ b2.asked = n
    BY <2>1 DEF BuyerType
  <2>4. b.asked < b.step /\ b.step < MaxSteps
    BY <1>4, <2>3 DEF Speaks
  <2>5. n \in 0..MaxSteps /\ n \in Questions /\ n <= b.step
    BY <1>1, <2>4 DEF Questions
  <2>6. e \in Events
    BY <2>5 DEF e, Events, View!Event, View!EventTypes
  <2>7. b2 \in BuyerType
    BY <2>1, <2>5, <2>6 DEF BuyerType, View!Places
  <2>8. Speaks(b2)
    BY <2>2, <2>3, <2>5 DEF Speaks
  <2>9. Pays(k, b2)
    BY <2>2, <2>3 DEF Pays
  <2>. QED  BY <2>3, <2>7, <2>8, <2>9
<1>5. \/ b2 = View!StartStep(b)
      \/ b.at = "result" /\ b2 = View!Ask(b)
      \/ b2 = View!Say(b, "failed", "settle")
      \/ b2 = View!Say(b, "payment_ready", "paid")
      \/ b2 = View!Say(b, "payment_unverified", "found")
      \/ b.at = "paid" /\ b2 = View!Say(b, "completed", "settle")
      \/ b.at = "found" /\ b2 = View!Say(b, "unverified", "settle")
  BY DEF View!Speeches
<1>6. {"failed", "payment_ready", "payment_unverified", "completed", "unverified"}
        \subseteq View!EventTypes \ {"ask_user"}
  BY DEF View!EventTypes
<1>. QED
  BY <1>1, <1>2, <1>3, <1>4, <1>5, <1>6

LEMMA BuyerKeeps ==
  ASSUME RunInv, NEW c \in Cases, Buyer(c) \/ DeliveryFails(c) \/ BuyerFallsSilent(c)
  PROVE  RunInv' /\ OverStays
<1>. DEFINE b == buyer[c]
            k == case[c]
            q == reply[c]
<1>0. /\ k = case[c] /\ b = buyer[c] /\ q = reply[c]
      /\ k \in CaseType /\ b \in BuyerType /\ q \in ReplyType
      /\ Founded(k) /\ Speaks(b) /\ Agree(k, b, q) /\ Pays(k, b)
      /\ case = [case EXCEPT ![c] = k] /\ buyer = [buyer EXCEPT ![c] = b]
      /\ reply = [reply EXCEPT ![c] = q] /\ lost \in 0..MaxLost
  BY CaseFacts DEF RunInv, TypeInv, Agree
<1>. HIDE DEF k, b, q
(* A step of the session alone.                                            *)
<1>1. ASSUME NEW b2 \in BuyerType, Speaks(b2), Pays(k, b2), b.at # "absent", b2.at # "absent",
             buyer' = [buyer EXCEPT ![c] = b2], lost' \in 0..MaxLost,
             UNCHANGED <<run, case, task, reply, replies, faults, restarts>>
      PROVE  RunInv' /\ OverStays
  <2>1. case' = [case EXCEPT ![c] = k] /\ reply' = [reply EXCEPT ![c] = q]
    BY <1>0, <1>1
  <2>2. SessionMoves(c, k, b2, q)
    BY <1>0, <1>1, <2>1 DEF SessionMoves
  <2>. QED  BY <2>2, SessionStep
<1>2. ASSUME BuyerSpeaks(c) PROVE RunInv' /\ OverStays
  <2>1. PICK b2 \in View!Speeches(b) :
          /\ b2.step <= MaxSteps /\ (b2.at = "asked" => b2.step < MaxSteps)
          /\ buyer' = [buyer EXCEPT ![c] = b2]
    BY <1>0, <1>2 DEF BuyerSpeaks, Becomes
  <2>2. View!Idle(b) /\ UNCHANGED <<run, case, task, reply, bounds>>
    BY <1>0, <1>2 DEF BuyerSpeaks
  <2>3. /\ b2 \in BuyerType /\ Speaks(b2) /\ Pays(k, b2)
        /\ b.at # "absent" /\ b2.at # "absent"
    BY <1>0, <2>1, <2>2, SpeechFits
  <2>. QED  BY <1>0, <1>1, <2>1, <2>2, <2>3 DEF bounds
<1>3. ASSUME View!Idle(b), NEW b2 \in {View!Hear(b), View!GiveUp(b), View!Over},
             buyer' = [buyer EXCEPT ![c] = b2], lost' \in 0..MaxLost,
             UNCHANGED <<run, case, task, reply, replies, faults, restarts>>
      PROVE  RunInv' /\ OverStays
  <2>1. b.at # "absent" /\ b.out = View!Silence /\ View!Silence.type = "none"
    BY <1>3 DEF View!Idle, View!Active, View!Silence, View!Event
  <2>2. CASE b2 = View!Over
    BY <1>1, <1>3, <2>1, <2>2, OverSession
  <2>3. CASE b2 \in {View!Hear(b), View!GiveUp(b)}
    <3>1. b2 \in {[b EXCEPT !.at = "step"],
                  [b EXCEPT !.out = View!Silence, !.tries = 0, !.at = "settle"]}
      BY <2>3 DEF View!Hear, View!GiveUp
    <3>2. /\ b2 \in BuyerType /\ b2.at \in {"step", "settle"} /\ b2.out = View!Silence
          /\ b2.asked = b.asked /\ b2.step = b.step
      <4>1. 0 \in 0..(MaxAttempts - 1) /\ {"step", "settle"} \subseteq View!Places
        BY Numbers DEF View!Places
      <4>2. CASE b2 = [b EXCEPT !.at = "step"]
        BY <1>0, <2>1, <4>1, <4>2 DEF BuyerType
      <4>3. CASE b2 = [b EXCEPT !.out = View!Silence, !.tries = 0, !.at = "settle"]
        BY <1>0, <4>1, <4>3 DEF BuyerType
      <4>. QED  BY <3>1, <4>2, <4>3
    <3>3. Speaks(b2) /\ Pays(k, b2)
      BY <1>0, <2>1, <3>2 DEF Speaks, Pays
    <3>. QED  BY <1>1, <1>3, <2>1, <3>2, <3>3
  <2>. QED  BY <1>3, <2>2, <2>3
<1>4. ASSUME BuyerHears(c) \/ BuyerSettles(c) \/ BuyerFallsSilent(c) PROVE RunInv' /\ OverStays
  <2>1. /\ View!Idle(b)
        /\ \E b2 \in {View!Hear(b), View!GiveUp(b), View!Over} : buyer' = [buyer EXCEPT ![c] = b2]
        /\ UNCHANGED <<run, case, task, reply, replies, faults, restarts>>
    BY <1>0, <1>4 DEF BuyerHears, BuyerSettles, BuyerFallsSilent, Becomes, View!MayHear,
       View!MaySettle, View!MayFallSilent, bounds
  <2>2. lost' \in 0..MaxLost
    <3>1. MaxAttempts \in Nat
      BY Numbers
    <3>. QED  BY <1>0, <1>4, <3>1, LoseType
              DEF BuyerHears, BuyerSettles, BuyerFallsSilent, bounds
  <2>. QED  BY <1>3, <2>1, <2>2
<1>5. ASSUME NEW r \in Questions, BuyerAnswers(c, r) PROVE RunInv' /\ OverStays
  <2>. DEFINE heard == View!Answer(b)
  <2>1. /\ q[r] = "sent" /\ lost' \in 0..MaxLost
        /\ UNCHANGED <<run, case, task, replies, faults, restarts>>
        /\ buyer' = buyer \/ buyer' = [buyer EXCEPT ![c] = heard]
        /\ \E a \in {"accepted", "failed"} :
             reply' = [reply EXCEPT ![c] = [q EXCEPT ![r] = a]]
    BY <1>0, <1>5, LoseType DEF BuyerAnswers, Answer, Becomes, RunInv, TypeInv
  <2>2. PICK a \in {"accepted", "failed"} : reply' = [reply EXCEPT ![c] = [q EXCEPT ![r] = a]]
    BY <2>1
  <2>3. /\ [q EXCEPT ![r] = a] \in ReplyType
        /\ \A x \in Questions : [q EXCEPT ![r] = a][x] # "none" => q[x] # "none"
    BY <1>0, <2>1 DEF ReplyType
  <2>4. /\ heard \in BuyerType /\ heard.at = b.at /\ heard.out = b.out
        /\ heard.asked = b.asked /\ heard.step = b.step
    BY <1>0, Numbers DEF BuyerType, View!Answer
  <2>. HIDE DEF heard
  <2>5. PICK b2 \in {b, heard} : buyer' = [buyer EXCEPT ![c] = b2]
    BY <1>0, <2>1
  <2>6. b2 \in BuyerType /\ Speaks(b2) /\ b2.at = b.at /\ Pays(k, b2)
    BY <1>0, <2>4, <2>5 DEF Speaks, Pays
  <2>7. case' = [case EXCEPT ![c] = k]
    BY <1>0, <2>1
  <2>8. SessionMoves(c, k, b2, [q EXCEPT ![r] = a])
    BY <1>0, <2>1, <2>2, <2>3, <2>5, <2>6, <2>7 DEF SessionMoves
  <2>. QED
    BY <2>8, SessionStep
(* An attempt to deliver what is on the wire.                              *)
<1>6. ASSUME b.out # View!Silence, NEW b2 \in {View!Delivered(b), View!Retry(b)},
             buyer' = [buyer EXCEPT ![c] = b2], Receive(c) \/ UNCHANGED case,
             b2 = View!Delivered(b) => Receive(c) \/ b2 = View!Retry(b),
             lost' \in 0..MaxLost, UNCHANGED <<run, task, reply, replies, faults, restarts>>
      PROVE  RunInv' /\ OverStays
  <2>1. /\ b2 \in BuyerType /\ b2.asked = b.asked /\ b2.step = b.step
        /\ \/ b2.out = View!Silence /\ b2.at = b.at
           \/ b2.out = View!Silence /\ b2.at = "settle"
           \/ b2.out = b.out /\ b2.at = b.at
        /\ b2.out = View!Silence /\ b2.at = b.at => Receive(c) \/ b2.at = "settle"
    <3>1. /\ b.tries \in 0..(MaxAttempts - 1) /\ MaxAttempts \in Nat \ {0}
          /\ 0 \in 0..(MaxAttempts - 1) /\ View!Silence \in Events \cup {View!Silence}
      BY <1>0, Numbers DEF BuyerType
    <3>2. CASE b2 = [b EXCEPT !.out = View!Silence, !.tries = 0]
      <4>1. /\ b2 \in BuyerType /\ b2.asked = b.asked /\ b2.step = b.step
            /\ b2.out = View!Silence /\ b2.at = b.at
        BY <1>0, <3>1, <3>2 DEF BuyerType
      <4>2. b2 = View!Delivered(b)
        BY <3>2 DEF View!Delivered
      <4>3. b2 = View!Retry(b) => b2.at = "settle"
        BY <1>0, <1>6, <4>1 DEF View!Retry, View!GiveUp, BuyerType
      <4>. QED  BY <1>6, <4>1, <4>2, <4>3
    <3>3. CASE b2 = [b EXCEPT !.out = View!Silence, !.tries = 0, !.at = "settle"]
      BY <1>0, <3>1, <3>3 DEF BuyerType, View!Places
    <3>4. CASE b2 = [b EXCEPT !.tries = b.tries + 1] /\ b.tries + 1 # MaxAttempts
      <4>1. b.tries + 1 \in 0..(MaxAttempts - 1)
        BY <3>1, <3>4
      <4>. QED  BY <1>0, <1>6, <3>4, <4>1 DEF BuyerType
    <3>. QED  BY <1>6, <3>2, <3>3, <3>4 DEF View!Delivered, View!Retry, View!GiveUp
  <2>2. PICK k2 \in {k, AfterCallback(k, b.out)} :
          case' = [case EXCEPT ![c] = k2] /\ (Receive(c) => k2 = AfterCallback(k, b.out))
    <3>1. CASE Receive(c)
      <4>1. case' = [case EXCEPT ![c] = AfterCallback(k, b.out)]
        BY <1>0, <3>1 DEF Receive
      <4>. QED  BY <4>1
    <3>2. CASE UNCHANGED case /\ ~Receive(c)
      BY <1>0, <3>2
    <3>. QED  BY <1>6, <3>1, <3>2
  <2>3. /\ k.seen \subseteq k2.seen /\ b.at # "absent"
        /\ k2 = AfterCallback(k, b.out) => b.out \in k2.seen
    BY <1>0, <1>6, <2>2, CallbackFits DEF Speaks
  <2>4. Speaks(b2) /\ b2.at # "absent"
    BY <1>0, <1>6, <2>1, <2>3 DEF Speaks
  <2>5. Pays(k2, b2)
    <3>1. View!Silence.type = "none"
      BY DEF View!Silence, View!Event
    <3>. QED  BY <1>0, <1>6, <2>1, <2>2, <2>3, <3>1 DEF Pays
  <2>6. k2 = case[c] \/ (buyer[c].out # View!Silence /\ k2 = AfterCallback(case[c], buyer[c].out))
    BY <1>0, <1>6, <2>2
  <2>7. reply' = [reply EXCEPT ![c] = q]
    BY <1>0, <1>6
  <2>8. SessionMoves(c, k2, b2, q)
    BY <1>0, <1>6, <2>1, <2>2, <2>3, <2>4, <2>5, <2>6, <2>7 DEF SessionMoves
  <2>. QED
    BY <2>8, SessionStep
<1>7. ASSUME Delivered(c) PROVE RunInv' /\ OverStays
  BY <1>0, <1>6, <1>7 DEF Delivered, Becomes, bounds
<1>8. ASSUME DeliveryFails(c) PROVE RunInv' /\ OverStays
  BY <1>0, <1>6, <1>8, LoseType DEF DeliveryFails, Becomes
<1>. QED
  BY <1>2, <1>4, <1>5, <1>7, <1>8 DEF Buyer

-----------------------------------------------------------------------------
(* The specification *)

LEMMA RunInvInit == Init => RunInv
<1>. SUFFICES ASSUME Init PROVE RunInv
  OBVIOUS
<1>. USE Numbers DEF Init
<1>1. NewCase \in CaseType /\ View!Absent \in BuyerType /\ NoTask \in TaskType
  <2>1. NewCase \in CaseType
    BY DEF CaseType, CaseStates, NewCase
  <2>2. 0 \in 0..(MaxAttempts - 1) /\ "absent" \in View!Places
    BY DEF View!Places
  <2>3. View!Absent \in BuyerType
    BY <2>2 DEF BuyerType, View!Absent
  <2>4. NoTask \in TaskType
    BY DEF TaskType, NoTask
  <2>. QED  BY <2>1, <2>3, <2>4
<1>2. [pc |-> "start", case |-> 0] \in TaskType
  BY DEF TaskType
<1>3. TypeInv
  BY <1>1, <1>2, ConstantsAssumption DEF ConstantsAssumption, TypeInv, ReplyType
<1>4. CaseInv
  <2>1. Founded(NewCase)
    BY DEF Founded, NewCase
  <2>2. /\ View!Absent.at = "absent" /\ View!Absent.out = View!Silence
        /\ View!Absent.step = 0 /\ View!Absent.asked = 0 /\ View!Silence.type = "none"
    BY DEF View!Absent, View!Silence, View!Event
  <2>3. Speaks(View!Absent) /\ Pays(NewCase, View!Absent)
    BY <2>2 DEF Speaks, Pays
  <2>4. Agree(NewCase, View!Absent, [r \in Questions |-> "none"])
    BY <2>2, <2>3 DEF Agree
  <2>. QED  BY <2>1, <2>3, <2>4 DEF CaseInv
<1>5. TaskInv /\ CreateInv
  BY DEF TaskInv, CreateInv, Creating, Making, NoTask
<1>6. CasesInOrder /\ FinishedIsOver
  BY DEF CasesInOrder, FinishedIsOver, Begun, NewCase
<1>. QED
  BY <1>3, <1>4, <1>5, <1>6 DEF RunInv

LEMMA RunInvNext == RunInv /\ [Next]_vars => RunInv' /\ [OverStays]_vars
<1>. SUFFICES ASSUME RunInv, [Next]_vars PROVE RunInv' /\ [OverStays]_vars
  OBVIOUS
<1>1. CASE UNCHANGED vars
  BY <1>1 DEF vars, bounds, RunInv, TypeInv, CaseInv, TaskInv, CreateInv, CasesInOrder,
              FinishedIsOver, Creating, Making, Begun, Over
<1>2. ASSUME NEW t \in Tasks, Coroutine(t) \/ TaskRaises(t) \/ BuyerCreates(t)
      PROVE  RunInv' /\ OverStays
  BY <1>2, CoroutineKeeps, RaisesKeeps, CreatesKeeps
<1>3. ASSUME NEW c \in Cases,
             \/ Handler(c) \/ Buyer(c) \/ DeliveryFails(c) \/ BuyerFallsSilent(c)
             \/ \E r \in Questions : ClaimReply(c, r)
      PROVE  RunInv' /\ OverStays
  BY <1>3, RepliesKeep, BuyerKeeps DEF Handler
<1>. QED
  BY <1>1, <1>2, <1>3, RestartKeeps, BuyerRestartsKeeps DEF Next

(* The type of the manifest, the coroutines, the sessions and the replies, *)
(* and what relates them: the invariant the theorems below follow from.    *)
THEOREM RunIsSound == Spec => []RunInv
  BY RunInvInit, RunInvNext, PTL DEF Spec

(* However many coroutines walk a run (its own, and one per operator reply *)
(* that resumes it), a case is begun only when all before it in the        *)
(* manifest are over (_run_cases_until_waiting, resume_after_operator_reply).*)
THEOREM RunWalksInOrder == Spec => []CasesInOrder
  BY RunIsSound, PTL DEF RunInv

LEMMA OrderedCreates == RunInv => CreatedOnce
<1>. SUFFICES ASSUME RunInv PROVE CreatedOnce
  OBVIOUS
<1>1. ASSUME NEW t \in Tasks, task[t].pc = "creating"
      PROVE  /\ task[t].case \in Cases /\ Creating(t, task[t].case)
             /\ Begun(task[t].case) /\ ~Over(task[t].case)
             /\ buyer[task[t].case].at = "absent"
  BY <1>1 DEF RunInv, TaskInv, CreateInv, Creating, Over, Terminal
<1>2. ASSUME NEW t \in Tasks, NEW u \in Tasks,
             task[t].pc = "creating", task[u].pc = "creating"
      PROVE  t = u
  <2>1. task[t].case \in Nat /\ task[u].case \in Nat
    BY <1>1, <1>2, Numbers
  <2>2. ~(task[t].case < task[u].case) /\ ~(task[u].case < task[t].case)
    BY <1>1, <1>2 DEF RunInv, CasesInOrder
  <2>3. task[t].case = task[u].case
    BY <2>1, <2>2
  <2>. QED  BY <1>1, <1>2, <2>3 DEF RunInv, CreateInv, Creating, Making
<1>. QED
  BY <1>1, <1>2 DEF CreatedOnce

(* No two coroutines of a run are in create_task at the same time, and     *)
(* none creates the session of a case that has one: STARTING is written    *)
(* before the await, and a case that is over or begun is not created again.*)
THEOREM RunCreatesOnce == Spec => []CreatedOnce
  BY RunIsSound, OrderedCreates, PTL

(* A case is finished only after payment_ready and unverified only after   *)
(* payment_unverified of its session, in whatever order callbacks, polls,  *)
(* replies and the payment_ready grace come (append_callback_event,        *)
(* _state_updates_for_callback, _wait_for_case); and one that waits for    *)
(* the operator names a question its session has asked, also when a claim  *)
(* was undone (_restore_operator_waiting_if_still_claimed).                *)
THEOREM RunSaysWhatWasTold == Spec => []SaysWhatWasTold
<1>1. RunInv => SaysWhatWasTold
  BY DEF RunInv, CaseInv, Founded, SaysWhatWasTold, Ready, Doubtful
<1>. QED
  BY <1>1, RunIsSound, PTL

(* A run is reported finished only when each of its cases is over          *)
(* (_refresh_run_status), and no later callback or reply undoes that.      *)
THEOREM RunFinishesLast == Spec => []FinishedIsOver
  BY RunIsSound, PTL DEF RunInv

(* No step of a coroutine, a callback, a reply, a raise or a restart moves *)
(* a case that is over, except _mark_case_runtime_failure after a          *)
(* create_task that failed (_run_case).                                    *)
THEOREM RunLeavesTheOver == Spec => OverIsFinal
<1>1. RunInv /\ [Next]_vars => [OverStays]_vars
  BY RunInvNext
<1>. QED
  BY <1>1, RunIsSound, PTL DEF Spec, OverIsFinal, OverStays
=============================================================================
