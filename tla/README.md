# A TLA+ development of codex-browser

TLA+ models of the buyer system of this repository, checked with TLC on small
instances, and theorems about them checked with TLAPS. Paths are relative to
`src/`. `PROJECT.json` maps every definition to the lines it stands for.

## 1. Inventory

| Component | State it keeps | Operations | What is hard | What makes it correct |
| --- | --- | --- | --- | --- |
| buyer session store (`buyer/app/state.py`) | one durable row per session (status, question, pending reply, events, memory, artifacts); in the process `_runtime_sessions`, `_task_refs`, wake events | create, set status, ask, reply, pop, append event, list with expiry, register task | three sources decide whether a session is active, and they change at different moments | at most `max_active_sessions` agents drive the browser; a reply answers the open question, once |
| buyer session runner (`buyer/app/service.py`) | a coroutine per session and its locals; analysis tasks; callback tokens | boot, auth, agent steps, ask, verdicts, fallback handlers, analysis | every await is a point where rows expire, replies arrive, calls fail or the process stops; verdicts take five steps | one verdict, told in order, stored only once told; a session never ends in silence |
| callback client (`buyer/app/callback.py`) | none | build envelope, deliver with retries | a lost answer is not a lost request | order and no gaps at the receiver |
| Postgres repository (`buyer/app/persistence.py`) | six tables | row replaced as a whole, delivery marks updated apart | two writers of `buyer_events`, only one under the store's lock | marks and replies agree with the row |
| agent runner (`buyer/app/runner.py`) | codex process, stream publisher with a timer, trace files | preflight, attempts, streaming | timer, publisher and close race | every item sent once, in order |
| payment verifier, URL policy | none | decide accepted, rejected, unverified | decision table | no acceptance without the evidence of the policy |
| SberId scripts, external cookies | none | retry ladder over sources of cookies | partial failure, retries | always a summary; no secret kept |
| knowledge analysis | queue of one, files per session | analyse, shut down | cancellation | does not touch the session |
| CDP tool (`buyer/tools/cdp_tool.py`) | a Playwright connection | page commands with reconnect | retry of what was done | bounded recovery |
| eval orchestrator (`eval_service/app/orchestrator.py`) | run manifest; coroutines | walk, create, poll, time out, grace, resume | several coroutines walk the same manifest | cases in order, each created once, runs come to an end |
| eval callbacks and replies (`eval_service/app/callbacks.py`, `run_store.py`) | the same manifest | receive event, claim a question, undo, resume | duplicated, late and lost messages; undoing a claim | a case that is over stays over; verdicts come from the buyer |
| judge (`eval_service/app/api.py`, `judge_runner.py`) | case states, evaluation files | synchronous and background batches | batches at the same time, stale files | every case judged once, from its own evidence |
| aggregation, dashboard, presenters, redaction, traces | none | pure views | boundaries | views agree with the evaluations |
| micro-ui (`micro-ui/app/store.py`, pages) | seen keys, events, bounded queues | add, subscribe, list, fold status | full queues, reconnects | no duplicate; a drop is bounded |
| evolve loop (`scripts/evolve_buyer_loop.py`) | cycle directories, worktrees | run, continue, compare | restart between steps | a cycle resumes where it was |

They interact over HTTP: a client or `eval_service` creates a task at `buyer`,
`buyer` posts events to the callback URL (micro-ui, or eval_service, which acts
on them), an operator answers questions through eval_service or directly. The
hazards of this code, with their lines, are in `PROJECT.json`; those without a
property carry a note.

## 2. Modules

| Module | What it is |
| --- | --- |
| `SessionLifecycle` | abstract: what the buyer's API promises about sessions, with no coroutine, callback or row |
| `BuyerSession` | one buyer process, every await of a session a step; implements `SessionLifecycle` |
| `BuyerSessionProofs` | theorems about `BuyerSession`: types, the shared browser |
| `BuyerSessionTold` | theorems about what `BuyerSession` tells the receiver, and when; what the page makes of it |
| `BuyerSessionReplies` | the theorem about questions and answers of `BuyerSession` |
| `BuyerSessionCalm` | theorems about `BuyerSession` while the repository answers: no gap, one verdict, no silent end |
| `BuyerSessionRefines` | theorems: `BuyerSession` implements `SessionLifecycle` and `SessionRow`, and takes no steps but those of `BuyerView`; the page agrees with it |
| `BuyerView` | abstract: what the receiver of its callbacks can see of one session of the buyer; `BuyerSession` keeps to it, `EvalRun` is built of it |
| `EvalRun` | one eval run: the coroutines that walk it, the callback and reply handlers, and one `BuyerView` per case |
| `EvalRunProofs` | theorems about `EvalRun`: order, creation, verdicts, the end of a run |
| `SessionRow` | abstract: what `SessionStore` expects of one session's durable row |
| `SessionRepository` | three tables of `persistence.py`, their transactions and the writer beside them; implements `SessionRow`, as `BuyerSession` does from the other side |
| `SessionRepositoryProofs` | theorems about `SessionRepository`: delivery marks, the refinement of `SessionRow` |
| `SessionSummary` | the status and the open question that micro-ui folds from the events of a session |
| `CallbackStore` | micro-ui: deduplication and the bounded queues of the pages |
| `AgentStep` | one `run_step`: codex, the readers of its output, the stream publisher with its timer, the outbox |
| `AuthFlow` | the authorisation of a session before its first step |
| `CdpCommand` | one command of the CDP tool |
| `PaymentVerifier` | the verdict on a purchase that the agent calls completed |
| `KnowledgeAnalysis` | the analyses that run after sessions |
| `EvalJudge` | judging the cases of a run |
| `EvolveCycle` | a cycle of the evolve loop |
| `ComponentProofs` | theorems about the components from `CallbackStore` to `EvolveCycle` in this table |
| `MCBuyerSession`, `MCEvalRun`, `MCComponents` | instances for TLC |

### BuyerSession

A step is what the event loop executes between two awaits. `SessionStore` holds
one `asyncio.Lock` from the read of a row to its write, so each of its methods is
one step. `status`, `question`, `pending` and `log` are the row and survive
`Restart`; `wake`, `runtime`, `task` are the maps of the process; `pc` and
`frame` are the coroutine `_run_session` with its locals. `inbox`, `accepted`
and `given` observe what the receiver, the API and the agent have seen.

* `CreateSession`, `StartTask` split `BuyerService.create_session` at its await;
  `ListSessions` is `GET /v1/sessions` and the pruning of a refused creation.
  Expiry takes any set of terminal sessions: the age of a row is abstracted.
* `Boot`, `Authenticate`, `BeginStep`, `RunStep`, `Dispatch`, `AskUser`, `Woken`,
  `PopReply`, `EmitVerdict`, `Settle`, `ScheduleAnalysis` are the body of
  `_run_session` in its order. `Raise`, `Unexpected`, `DeliveryError`, `Fallback`
  and `RowGone` are its except clauses.
* `EmitAppend`, `EmitDuplicate`, `Delivered`, `AttemptFails`, `MarkDelivered`,
  `MarkFailed` are `_emit_event` with the callback client; `frame.then` is where
  the coroutine goes on. `AttemptFails` loses the request or only its answer.
* `StoreFault` raises in any repository call. `Restart` is a new process.

Abstractions. A reply and a question are named by the number of the question.
"rejected" and a failed result are one outcome, as both call `_handle_failed`.
An accepted payment always has an order id, which the code checks first. The
recovery window is a choice: the first transient failure is always inside it.
A POST that reaches the receiver after the client has given up on it is taken to
arrive at that moment; nothing else of the session is sent afterwards, so
nothing can tell the difference. Stream events, agent memory, tokens and the
content of artifacts are left out. `_run_sberid_auth_flow` is one step that may
raise (its inside is `AuthFlow`), the analysis task is only recorded as scheduled
(its inside is `KnowledgeAnalysis`), and a step of the agent is a choice of its
result (its inside is `AgentStep` and `PaymentVerifier`).

### EvalRun

A step is what eval_service executes between two awaits; all its handlers are
coroutines of one event loop. `case` is the manifest, `task` the coroutines,
`reply` the operator replies in flight, `buyer` one session per case. `Walk` is
the loop of `_run_cases_until_waiting` up to its next await, in closed form:
cases that are over are passed, cases with no auth profile skipped, then the
first open case is created, waited for, or waits itself. `Continue` is what
follows `_wait_for_case`. `ClaimReply`, `ReplyAccepted`, `ReplyFailed` split
`send_operator_reply` at its await. The buyer is one `BuyerView` per
case and the rule that one of them is active at a time. Time is
abstracted: `Timeout` may happen whenever a coroutine polls, but not while another
coroutine awaits `create_task` for the same case: its HTTP client gives up after 30
seconds (`buyer_client.py`), long before the 600 of a case, which count from the mark
STARTING. Events that
change no case (`session_started`, `agent_step_finished`, the streams) are not told apart
from silence, but the session that gives up sending one ends (`BuyerFallsSilent`); the
branch for `accepted = false` (the buyer answers 409 instead) is left out. A request of eval_service in
flight when it restarts counts as answered before or lost. Judging is `EvalJudge`.

### BuyerView

The seam between the two services. A session is a record: where it is, the event on the
wire, the attempts to send it, the numbers of its step and question, and the question that
`POST /v1/replies` takes. Its steps are functions of the record (`Speeches`, `Delivered`, `Retry`, `Answer`,
`Hear`, ...), and `Moves` is the step relation. `EvalRun` applies these functions. `Sees` in
`BuyerSession` reads the record off the row and the coroutine, and `KeepsView` says that
with each step of the buyer one session moves by `Moves`, or a restart cuts all of them, or
nothing is to be seen; that an event leaves the wire only when the receiver has it or the
attempts are used up; and that the receiver gets what an active session has on the wire, and
nothing else. So what the runs
and theorems say of `EvalRun` rests on no other picture of the buyer than the code's. The
condition is that no repository call raises (then a session may report `failed` after its
verdict, a step that `BuyerView` has not).

### SessionRow, SessionRepository, SessionSummary

`SessionRow` is the seam between store and repository: a row that each call
replaces as a whole. `BuyerSession!KeepsRow` says that the runner and the API do
nothing else to it; `SessionRepository!KeepsRow` says that the tables, where the
open question and the pending reply are not stored but derived from
`buyer_replies`, read back as such a row. Of a transaction three moments matter:
the SELECT of the marks, the DELETE that locks the rows, and COMMIT.
`mark_event_delivery` runs on its own connection and waits for locked rows.
Memory, auth context and artifacts are `Touch`. That Postgres runs at READ
COMMITTED is external. `kept` observes the marks no open transaction can have
overlooked: a mark that falls between another call's SELECT and its COMMIT is
lost in the code, and `MarksAreKept` claims nothing of it.

`SessionSummary` has no state: `Shows` is what one event does to the entry of its session in
`list_sessions`, `ShownAfter` the fold of it. `MCBuyerSession` applies it to what the receiver
of `BuyerSession` holds and compares it with the row and the coroutine (`ShownStatus`): the
page is told by callbacks only, so it lags behind, and must be right when someone acts on it.

### CallbackStore

The events of one session and the pages that read
`GET /api/events/stream`. A page that subscribes to all sessions has the same
queue, and the store treats it alike. An envelope is its dedupe key, and may come
any number of times in any order.

### AgentStep

Each coroutine of a step is named by who waits for it: the readers, the timer
nobody waits for, `aclose`, and the runner with `agent_step_finished`. `lockq` is
the queue of the lock of `SessionStore` (asyncio's locks are first come, first
served), `sending` what is being delivered, in no order. An item is its number. A
read may take part of what a pipe holds; `Timeout` cancels the readers with
whatever they had taken. A second attempt with another model is the same again.

### AuthFlow, CdpCommand, PaymentVerifier

Sequential code with many exits. `AuthFlow` walks the ladder from the cookies in
the request over the external API to the script; what a script of a shop reports
is a choice. `CdpCommand` keeps of a page only its priority for `ensure_page`, and
lets pages come and go between two tries and under a command that runs (`moved`
observes that they did since a page was picked). `Record` may drop what it is given,
as `_append_action_log` does without a path or on an `OSError`, and `Stop` may raise
after the last record is written. `PaymentVerifier` takes a URL apart into
what the verifier looks at (scheme and parameters, host, path, the values of
`orderId`); its property states the policy of the merchants as a table, apart from
the code's branches.

### KnowledgeAnalysis

Analyses wait on a semaphore of one. A candidate is its kind, positive or
negative. `Shutdown` cancels every task, `Kill` gives none a chance to clean up.

### EvalJudge

Every batch is a coroutine with a thread for codex; synchronous requests and
background jobs differ in what registers them and in who settles an error. The
file of a case is the status it holds. FAILED behaves as FINISHED and is not a
state of its own. A case that timed out may still get callbacks (`live`).
`overlap` observes that a synchronous batch ran beside another one, which the
code does not prevent; `JudgedIsEvaluated` is claimed as long as it has not.
`Marked` and `Settled` go through the cases one after the other, and may stop at any
of them. `stranded` observes what leaves JUDGE_PENDING to nobody: a restart, or an
error in a synchronous request, while cases are marked for a job, or while those of a
failed job are settled. It ends with the next batch, which takes up every pending
case, with the next job that marks them, and with the next failed job that is settled
in full. `wrote` observes that the codex of this batch wrote the file, `stale` that a case was judged by a
file it did not write: on exit 0 the code reads the file whoever wrote it, so after a
restart or an error this happens, and `JudgedIsEvaluated` says that it takes one.

### EvolveCycle

A command step ends where it writes an artifact that a later command reads, or
waits. The result of an eval run is one of five classes. The patch command is any
command that leaves commits, staged and other changes, each of an allowed path, of
another one, or a file moved from the latter into the former; `Named` is what git
says of them, and of a move it names the destination only. So a move passes the
check of the paths, and `CandidateIsInScope` excepts it. What
`tools/propose_buyer_patch.py` does inside is not modelled. `cut` observes that a
command raised or was killed: `HandoffIsResumed` claims nothing of such a cycle,
because `continue` leaves `latest.json` as it was.

## 3. Runs

| Run | Expect | Question | Instance |
| --- | --- | --- | --- |
| `buyer_session` | pass | slot, order of callbacks, verdicts, refinement of `SessionLifecycle`, the steps of `BuyerView` | 2 sessions, 1 slot, 2 steps, 2 attempts, 1 restart |
| `buyer_faults` | pass | consistency when repository calls raise; page of the operator; refinement of `SessionRow` | 1 session, 3 steps, 2 faults, 1 restart |
| `buyer_live` | pass | sessions settle, answers are heard, the outbox is sent | 1 session, 3 steps, no fault, no restart |
| `buyer_restart` | violation | is delivery at least once across a restart? | 1 session, 1 restart |
| `buyer_analysis` | violation | does an error around the analysis leave the verdict alone? | 1 session, 1 fault |
| `eval_run` | pass | order, single creation, verdicts and end of a run, through losses, errors and restarts of either service | 3 cases (1 skipped), 3 steps, 1 reply, 2 troubles |
| `eval_live` | pass | runs come to an end | 2 cases, 2 steps, 2 replies, 1 fault, no loss |
| `eval_lost_answer` | violation | and when one answer is lost? | 1 case, 2 steps, 1 loss |
| `eval_stale_question` | violation | is the operator shown the open question? | 1 case, 3 steps, 2 replies, 1 loss |
| `eval_overlap` | violation | do cases run one after the other? | 2 cases, 1 step, no loss |
| `components` | pass | the properties of nine components | see below |
| `judge_unverified` | violation | does an UNVERIFIED case stay so? | 1 case, 1 batch |

`components` checks nine modules that share no state, each by itself: `part`
names the one that moves, and the others have no values. So its state space is the
sum of theirs, not the product. The instances: 2 events, 2 questions, 1 fault
(repository); stdout and the browser log with 2 items, batches of 2, 1 lost batch
(step); 4 events, 2 pages, queues of 2 (micro-ui); 1 retry (authorisation); 3
tries, up to 2 contexts of up to 2 pages (CDP); all combinations (payment); 2
sessions (analysis); 2 cases, 2 batches, 1 fault (judge; the batches, of which nothing
but their identity matters, are a symmetry set); 2 faults, 3 continue
commands, 2 questions (cycle).

`CHECK_DEADLOCK FALSE` throughout: a buyer whose sessions have all ended, or wait
for an operator who does not answer, and a run that is over, stop.

Bounds. `MaxSteps`, `MaxFaults`, `MaxRestarts`, `MaxLost`, `MaxTroubles` (losses,
raises and restarts together), `MaxAsks` (the repository), `MaxReplies`, `MaxItems`, `MaxProbes`,
`MaxTries` and `MaxContinues` bound how often something happens; nothing in the
code depends on their values. Two sessions and one slot are the smallest instance
in which a session can take what another has not let go of, and one slot is what
the service is deployed with. Three steps allow two questions and a step after the
second answer. Two attempts allow a lost answer with a retry that succeeds and
one that gives up. Three cases, the second skipped, are two that run and one that
each walk has to pass on its own; the states are spent on pairs of troubles. In so small a run
no case is left to create when one times out under one walk while another still creates it: that
`CreatedOnce` rests on the time limit of the HTTP client is seen in its proof (section 5),
which covers any number of cases and walks.
`Tasks = 0..MaxReplies` is enough coroutines because each but the first is
started by one reply. Two sources of a stream allow a batch of one to be sent
because of the other; a queue of two in front of four events loses some and keeps
an order; two batches of two cases allow every overlap of two judges; two faults in
a cycle allow an error after one. The runs fire every action of the
specifications.

Fairness. `FairSpec` of `BuyerSession` is weak fairness of each session's runner:
the event loop runs every coroutine that can go on, and timeouts end every HTTP
call. Creating sessions, answering, expiry, faults and restarts are not fair.
`FairSpec` of `EvalRun` is weak fairness of its coroutines, its handlers and the
buyer, and none of operator replies, losses, faults and restarts.

## 4. What the runs show

They pass: never two sessions on the browser; the receiver holds a prefix of the
outbox in its order in spite of losses and retries; one verdict, never revised
while the repository answers; a stored success was told to the receiver with its
payment event; answers reach the agent once and in order; cases are begun in the
order of the manifest and created once although several coroutines walk the same
run; a case that is over stays over, save for a failed `create_task`.

The components pass as well: a committed call is read back as it was written; a
delivery mark that no transaction overlooked is kept; every item of a stream is in
one batch, in order, before the end of its step; a page that lags loses its oldest
events only; cookies do not outlive the script; a command acts once and claims no more
than it did, though a record may be missing; a payment is
called ready exactly for what the policy names; a JUDGED case has its evaluation, by
a file of its own codex if nothing failed, and a batch leaves a case pending only
after one of the errors that `stranded` names; a handoff is resumed, a candidate is
one patch, committed within the allowed paths but for files moved into them, and an
improvement rests on a run that was judged in full.

They disagree with the documents (the findings of `PROJECT.json`): an event that
is in the outbox but not posted when the process stops is never sent; an error
while the analysis is scheduled overwrites a completed session; a lost answer to
an accepted reply leaves an eval run that nobody walks; undoing the claim of a
reply can undo a newer one; a case can be created while the session of the one
before still holds the buyer; and a case that became UNVERIFIED while it was
judged is made JUDGED.

## 5. Proofs

`BuyerSessionProofs` proves, for every finite set of sessions and every value of
the bounds, from `ConstantsAssumption` alone:

* `SpecTypeOK`: `Spec => []TypeOK`. One lemma per group of actions; the helpers
  `Emit`, `Finish` and `Raise` have lemmas of their own.
* `BrowserIsNotShared`: `Spec => []BrowserNotShared`. The property counts
  coroutines, the code counts rows, so it is not inductive. `SlotInv` adds that
  a coroutine that has not reached its verdict has an active row, that every
  coroutine with an active row is counted by `IsActive`, and that at most
  `MaxActive` sessions are. Each action moves one session (`OnlyMoves`), and
  `SlotStep` shows that a step that does not make its session active keeps the
  count; only `CreateSession` adds one, under its guard.

`BuyerSessionTold` proves `OutboxIsBeforeWire`, `StoredVerdictWasTold`,
`PaymentIsToldOnce` and `AnalysisIsAfterVerdict` from one invariant, `ToldInv`. None
of the four is inductive: they speak of the inbox and the row, while what keeps
them true is where the coroutine is. `WireInv` adds that the event being delivered
is in the outbox; `PathInv` says what the receiver holds at each place of the
coroutine (no payment before the verdict, the payment of this verdict from
`_handle_completed` and `_handle_unverified` on, the verdict itself at `set_status`) and
that the event in `_emit_event` fits the place to go on to; `RowInv` is the four
properties for one session. Most steps neither write an event nor tell one: they are
`Quiet`, and `QuietTold` treats them at once. The theorems need no assumption on
faults or restarts.

Its second part is about the page, a fold over the events. What a fold yields for any sequence
needs induction. The library states induction with an operator as parameter; `NatSet` states
it of a set of numbers, as inclusion is well-founded on the finite sets (`WFMin`).
`FoldExists` and `FoldUnique` give the recursive function `ShownAfter` its equation at
every length, `PageAppend` says what one more event does, and `StatusOnPage` which events a status
on the page stands for, however many came. `PagesInv` then says what the page has been told
at the places of a coroutine (`Due`: the question it waits on, none while the agent works or after
a verdict). An event on the wire may have arrived or not; that a lost answer does not show it
twice is `DeliverPage`, that it is not yet there when it is appended `EmitAppendPage`.

`BuyerSessionReplies` proves `AnswersAlwaysMatch`, that is
`Spec => []AnswersMatchQuestions`. `AnsInv` divides the places of a coroutine in
three: before a step the last answer was heard or is held (`Held`), after it no
question is open, and while it waits exactly one is, the one after the answers
heard (`Open`). An old or doubled reply finds no open question of its number. That an
expired row is not one that waits comes from `SlotInv`.

`BuyerSessionCalm` proves what holds as long as no repository call has raised (`faults
= 0`): `ReceiverHasNoGap`, `VerdictIsToldOnce` and `NoCoroutineEndsSilently`, and
`VerdictsAreFinal` when none can (`MaxFaults = 0`). The condition is the code's: an error
after a verdict is reported as a failed scenario on top of it (`buyer_analysis`), so all
four are false without it. `PlacesInv` holds with faults too: the status of a
row follows the place of its coroutine (a step runs only for a running row, one that waits
is waiting, or woken by the reply it will pop), so the silent returns of `_run_session` cannot
be reached. `CalmInv` adds, per session, that the inbox is the outbox but for the event on the
wire, and only a coroutine that gives up leaves one behind (`OutboxInv`); that no verdict is
in the outbox before the place that sends it, and one at most after it; and that a row
is over exactly when its coroutine settled it. It rests on `ToldInv` and `SlotInv`.

`BuyerSessionRefines` proves the refinements of `BuyerSession`, and that the page agrees with it.

* `LifecycleIsKept`: `Spec => KeepsLifecycle` when `MaxFaults = 0`. `AskUser` maps to `Ask`,
  `ApplyReply` to `Answer`, `Settle` and `DeliveryError` to `Conclude`, `CreateSession` to
  `Admit`, `ListSessions` to `Forget`; every other step is a stutter or lets sessions go
  (`Drop`), as `Restart` does. That `Admit` keeps its limit comes from `SlotInv`.
* `RowIsKept`: `Spec => KeepsRow`, whatever raises or restarts: each step is one call
  of `SessionRow` or leaves the row as it was. `AnsInv` shows that a question is asked with
  a new number and that a popped reply is the pending one.
* `PageShowsStatus`: `Spec => []ShownStatus`, whatever is lost, raises or restarts. `PagesInv` knows
  the question the coroutine waits on; that the row has the same one comes from `AnsInv` (`Open`) and
  from `PlacesInv` (no reply is pending while nothing has woken the coroutine).
* `ViewIsKept`: `Spec => KeepsView` when `MaxFaults = 0`. Each step of a session is a step of
  its view (`SpeaksView`, `DispatchView`, `RepliesView`, `DeliversView`, `EndsView`) or a stutter
  (`MovesStutter`), leaves what is seen of the others (`OthersView`), and tells the receiver what
  is on the wire, if anything (`StepTells`). Of `EmitDuplicate`, by which a session
  would end with nothing said, it must be shown that it never happens: `ViewInv` says that the
  event a coroutine is about to write, and every one it may still write, is not in the
  outbox (`Unwritten`), because where it is fits its numbers (`Numbered`), and
  `NeverDuplicate` follows. That a coroutine that has not ended drives a session that is seen
  as active (`Driven`) comes from `CalmInv`, `PlacesInv` and `SlotInv`.

`EvalRunProofs` proves the safety properties of `EvalRun` for every number of cases,
questions, replies, losses, raises and restarts: `RunWalksInOrder`, `RunCreatesOnce`,
`RunSaysWhatWasTold`, `RunFinishesLast` and `RunLeavesTheOver`. They
follow from `RunInv` (`RunIsSound`). `CasesInOrder` and `FinishedIsOver` are inductive beside the
types; the others are not, because what a callback does to a case depends on the buyer,
on the replies in flight and on coroutines. `CaseInv` says what the events seen of
a case, the place of its session at the buyer and the replies to it say about
each other (`Founded`, `Speaks`, `Agree`): a session exists only of a case that has begun, and
one that is at its verdict has told the payment before (`Pays`). That every step of `BuyerView`
keeps what a session says in accord with where it is, is `SpeechFits`. `TaskInv`
says that a coroutine that has walked works on a case that has begun, so by `CasesInOrder`
all before it are over, and `CreateInv` that a case in creation is STARTING, has no session
and one creator. `WalkOrder`
and `ContinueOrder` show that the closed form of the loop touches the first open case only;
they use that a non-empty set of numbers has a least element (`MinIsLeast`).
The first attempt at `CreatedOnce` failed: a case that timed out while its `create_task` was
in flight let the walk go on to create the next one. The code's time limits exclude it,
and the guard of `Timeout` now says so.

`SessionRepositoryProofs` proves, for any number of events, questions and rolled
back transactions:

* `RepositoryKeepsMarks`: `Spec => []MarksAreKept`. `MarksInv` adds that the rows are
  numbered as they were appended, that the marks a transaction has read are true and
  not older than the marks that count, and that an event is marked once.
* `RepositoryImplementsRow`: `Spec => KeepsRow`, when `MaxAsks` is a natural number. The
  mapping is `Load`, what `_load_session` reads. `RepliesInv` says that one reply at most
  is open, so the newest is the only one; `Becomes` says what a call of `SessionRow`
  makes of a row. A store call under way still fits the tables (`ImplInv`), and
  `CommitLoad` shows that the commit makes them read back as the row of the call; no
  other step but the deletion changes what is read.

`ComponentProofs` proves the properties of the other components, each for every value
of its constants. They speak of `PartsSpec` of `MCComponents`, whose assumption asks no
more than that queues and browser contexts have a size, that retries and cases are
counted, and that no pipe has the name of an empty publisher. As one component moves in a
behaviour (`PartStays`), an invariant of it is kept by its own steps. `ToldWhatIsProven` and
`CookiesAreRemoved` are inductive beside the types; to the others is added:

* `AgentStep` (`TakesItemsOnce`, `SendsInSequence`, `FinishesLast`), `StepInv`: from the head
  of the outbox to the last waiter of the lock batches stand in the order of their numbers,
  with none above `sequence` (`OrderInv`); `agent_step_finished` is queued once, behind
  all of them (`LastInv`), as readers and the publisher are done by then (`ReaderInv`);
  and every item in a batch, or pending, is one that was published, and each published one
  is in exactly one place (`ItemInv`). `ItemsTaken`, `ItemAdded` and `ItemsReplaced` are
  what `publish` and `aclose` do to the items, whoever calls them; `Joins` and `BatchJoins` that
  a batch moves between queue, outbox and `dropped` without being copied. That `Timeout`
  keeps the waiters that stay in order is why it picks an increasing enumeration of them.
* `EvalJudge` (`JudgesByEvaluation`, `LeavesNothingPending`), `JudgeInv`: what a batch holds by
  its place (`BatchInv`), one job at a time and, without overlap, one batch (`LoneInv`), the
  file of a case as far as its batch has come (`FileInv`), a pending case is in the
  list of a batch that is not over unless it was stranded (`PendingInv`), and before any fault a
  file that says judged is that of a JUDGED case or of the case a batch is at, whose codex
  then wrote it (`StaleInv`).
* `EvolveCycle` (`ResumesHandoff`, `KeepsScope`, `EarnsImproved`), `CycleInv`: the worktree by the
  place of the command (`TreeInv`), what it holds of a run and what is stored (`ResultInv`), and
  that what is handed to the operator is a run that waits for him (`HandoffInv`).
* `AuthFlow` (`RemovesCookies`, `TellsAuthTrue`), `AuthInv`: the summary by the place of the flow (`PathInv`).
* `CallbackStore` (`OwesTheNewest`): a queue is the end of the log, no longer than what came
  since its page subscribed; `IsSuffix` is spelled out index by index (`EndsWith`).
* `CdpCommand` (`ActsOnceOnly`): before its end a command has acted on nothing and recorded
  at most its start, and is connected exactly while it runs; at its end record and exit code
  claim no more than what was done (`CommandInv`).
* `KnowledgeAnalysis` (`AnalysesAreDrafts`): who analyses holds the turn (`TurnInv`), and
  files are written in the order of the task (`FilesInv`).
* `PaymentVerifier` (`TellsWhatIsProven`): the branches of the code agree with the
  policy written as a table. The proof did not go through at first: for an empty order id the
  model had written the branches of `_verify_unknown_merchant` as a CASE whose guards overlap,
  which leaves open what it yields; it is the chain of the code now.

Of what the runs check TLC alone checks the four liveness properties, which hold under fairness
only: liveness and `ENABLED` are out of the prover's reach. Every invariant, action property and
refinement of a passing run is a theorem.

## 6. Plan

To prove next: what the invariants above already carry and no run asks for yet, above all
action properties of the components (a JUDGED case stays so, an outbox only grows).

To compose next: `EvalJudge` with `EvalRun` on one manifest, and `AgentStep` with
`BuyerSession` on one outbox; both are checked apart because the product of their
states is out of reach.

## 7. Not modelled

* `url_policy.py`, `aggregation.py`, `dashboard.py`, presenters, redaction, case
  registry: functions of strings and files with no state, which unit tests reach.
* Memory, auth context and artifact references of a row: written as a whole,
  without a condition.
* The inside of `tools/propose_buyer_patch.py`, the container scripts and the
  shared candidate stack of `candidate_prepare.sh`: `EvolveCycle` takes the first
  for any command that changes a worktree and the second for a step that may raise.
* Pages and styles of micro-ui, the TypeScript scripts that drive shop pages,
  images and start scripts, prompts, the OpenClaw plugin and skill: rendering,
  text, or code whose behaviour is that of a browser page.
* Endpoints that `cdp_endpoint.py` tries for one connection, and the records that
  `ensure_page` writes of the page it took.
* An orchestrator that polls a run while its judge is at work, `run` called twice with one
  cycle id, and two commands of the evolve loop at once. That `redact_json` may redact
  `buyer_tokens_used` in the stored baseline, on which a later `int()` raises, is there only
  as one of the errors of `Raise`.
* Real time: deadlines and time limits may be reached at any moment, but for the one order
  of two limits that `Timeout` of `EvalRun` names.
