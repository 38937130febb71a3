----------------------------- MODULE AgentStep -----------------------------
(***************************************************************************)
(* One call of AgentRunner.run_step (buyer/app/runner.py): the preflight   *)
(* of the browser, one attempt of codex, the coroutines that read its      *)
(* output and the log of browser actions, the _AgentStreamPublisher they   *)
(* share, the timer that flushes it, and _emit_stream_event_best_effort    *)
(* (buyer/app/service.py), which writes a batch to the outbox of the       *)
(* session and hands it to the callback client.                            *)
(*                                                                         *)
(* A step is what the event loop executes between two awaits.  publish and *)
(* aclose hold the publisher's lock without awaiting under it, and the     *)
(* coroutine that took a batch runs on to the lock of SessionStore, which  *)
(* is first come, first served: taking a batch and queueing for the outbox *)
(* is one step.                                                            *)
(***************************************************************************)
EXTENDS Integers, SequencesExt

CONSTANTS
  Pipes,       \* sources that end with the process (stdout, stderr of codex)
  MaxItems,    \* bound: lines or records a source writes
  BatchSize,   \* STREAM_BATCH_SIZE
  MaxProbes,   \* bound: preflight probes within the recovery window
  MaxLost      \* bound: batches whose append or delivery fails

Sources == Pipes \cup {"browser"}

VARIABLES
  pc,        \* run_step, then _run_session up to agent_step_finished
  outcome,   \* status of the AgentOutput, or the failure_reason of the attempt
  probes, stopped,   \* stop_browser_tail; the process has exited
  written, upto, published,   \* per source: written, read, handed to publish
  reader,    \* per source: "reading", "publishing", "done", or "cancelled"
  pending,   \* _pending_source and _pending_items
  sequence, timer,
  lockq,     \* batches queued for the lock of SessionStore, and whose they are
  sending,   \* batches in delivery
  outbox,    \* SessionState.events
  dropped,   \* observed: batches that were cancelled or failed before the outbox
  lost

run == <<pc, outcome, probes>>
sources == <<stopped, written, upto, published, reader>>
publisher == <<pending, sequence, timer>>
wire == <<lockq, sending, outbox, dropped, lost>>
stepVars == <<run, sources, publisher, wire>>

Empty == [source |-> "none", items |-> <<>>]
Finished == [source |-> "step-finished", items |-> <<>>, sequence |-> 0]

Init ==
  /\ pc = "probe" /\ outcome = "none" /\ probes = 0 /\ stopped = FALSE
  /\ written = [s \in Sources |-> 0] /\ upto = written /\ published = written
  /\ reader = [s \in Sources |-> "reading"]
  /\ pending = Empty /\ sequence = 0 /\ timer = FALSE
  /\ lockq = <<>> /\ sending = {} /\ outbox = <<>> /\ dropped = {} /\ lost = 0

Owners(who) == {i \in DOMAIN lockq : lockq[i].who = who}
Busy(who) == Owners(who) # {} \/ \E x \in sending : x.who = who

-----------------------------------------------------------------------------
(* The run of the step *)

(* _probe_browser_sidecar: retried until it answers or the window is over. *)
Probe ==
  /\ pc = "probe"
  /\ \/ pc' = "spawn" /\ UNCHANGED <<outcome, probes>>
     \/ /\ probes < MaxProbes /\ probes' = probes + 1 /\ UNCHANGED <<pc, outcome>>
     \/ pc' = "result" /\ outcome' = "preflight_failed" /\ UNCHANGED probes
  /\ UNCHANGED <<sources, publisher, wire>>

(* The context files and the credentials of codex, then its process. *)
NoCredentials ==
  /\ pc = "spawn" /\ pc' = "result" /\ outcome' = "no_api_key_or_oauth"
  /\ UNCHANGED <<probes, sources, publisher, wire>>

Spawn ==
  /\ pc = "spawn"
  /\ \/ pc' = "collect" /\ UNCHANGED outcome
     \/ pc' = "result" /\ outcome' = "binary_missing"
  /\ UNCHANGED <<probes, sources, publisher, wire>>

Write(s) ==
  /\ pc = "collect" /\ ~stopped /\ written[s] < MaxItems
  /\ written' = [written EXCEPT ![s] = @ + 1]
  /\ UNCHANGED <<run, stopped, upto, published, reader, publisher, wire>>

Exit ==
  /\ pc = "collect" /\ ~stopped /\ stopped' = TRUE
  /\ UNCHANGED <<run, written, upto, published, reader, publisher, wire>>

(* A batch is taken for "who" and queued for the outbox. *)
Batch(p, n) == [source |-> p.source, items |-> p.items, sequence |-> n]
Take(who) ==
  IF pending.items = <<>>
  THEN UNCHANGED <<sequence, lockq>>
  ELSE /\ sequence' = sequence + 1
       /\ lockq' = Append(lockq, [who |-> who, batch |-> Batch(pending, sequence + 1)])

(* Mutant: the items that wait are left to the timer. *)
CloseCancelsOnly(who) == UNCHANGED <<pending, sequence, timer, lockq>>

(* aclose: what is pending is sent, and the timer cancelled. *)
Close(who) == Take(who) /\ pending' = Empty /\ timer' = FALSE

(* _collect_process_streams: all readers are done after the process. *)
Drained ==
  /\ pc = "collect" /\ stopped /\ \A s \in Sources : reader[s] = "done"
  /\ Close("closer") /\ pc' = "closing"
  /\ UNCHANGED <<outcome, probes, sources, sending, outbox, dropped, lost>>

Collected ==
  /\ pc = "closing" /\ ~Busy("closer")
  /\ pc' = "result"
  /\ outcome' \in {"process_failed", "parse_output_failed", "invalid_status",
                   "agent_reported_failed", "needs_user_input", "completed"}
  /\ UNCHANGED <<probes, sources, publisher, wire>>

(* codex_timeout_sec: wait_for cancels the readers and what they send; the *)
(* process is killed and the publisher closed.  Who is not cancelled keeps *)
(* the place in the queue.                                                 *)
Cancelled == Sources \cup {"closer"}
Staying == {i \in DOMAIN lockq : lockq[i].who \notin Cancelled}

Timeout ==
  /\ pc \in {"collect", "closing"} /\ outcome' = "timeout"
  /\ reader' = [s \in Sources |-> IF reader[s] = "done" THEN "done" ELSE "cancelled"]
  /\ dropped' = dropped \cup {lockq[i].batch : i \in DOMAIN lockq \ Staying}
  /\ \E place \in [1..Cardinality(Staying) -> Staying] :
       /\ Range(place) = Staying
       /\ \A i, j \in DOMAIN place : i < j => place[i] < place[j]
       /\ LET kept == [i \in DOMAIN place |-> lockq[place[i]]] IN
          IF pending.items = <<>>
          THEN lockq' = kept /\ UNCHANGED sequence
          ELSE /\ sequence' = sequence + 1
               /\ lockq' = Append(kept, [who |-> "closer", batch |-> Batch(pending, sequence + 1)])
  /\ pending' = Empty /\ timer' = FALSE
  /\ sending' = {x \in sending : x.who \notin Cancelled}
  /\ stopped' = TRUE /\ pc' = "killed"
  /\ UNCHANGED <<probes, written, upto, published, outbox, lost>>

Killed ==
  /\ pc = "killed" /\ ~Busy("closer") /\ Close("closer") /\ pc' = "result"
  /\ UNCHANGED <<outcome, probes, sources, sending, outbox, dropped, lost>>

(* _run_session emits agent_step_finished with the result. *)
StepFinished ==
  /\ pc = "result" /\ pc' = "finishing"
  /\ lockq' = Append(lockq, [who |-> "runner", batch |-> Finished])
  /\ UNCHANGED <<outcome, probes, sources, publisher, sending, outbox, dropped, lost>>

Over ==
  /\ pc = "finishing" /\ ~Busy("runner") /\ pc' = "over"
  /\ UNCHANGED <<outcome, probes, sources, publisher, wire>>

-----------------------------------------------------------------------------
(* The readers and the publisher *)

(* One read: some of the lines a pipe holds, or all new complete records   *)
(* of browser-actions.jsonl.                                               *)
Read(s) ==
  /\ pc = "collect" /\ reader[s] = "reading" /\ (upto[s] < written[s] \/ stopped)
  /\ \E n \in upto[s]..written[s] :
       /\ n = written[s] \/ (s \in Pipes /\ n > upto[s])
       /\ upto' = [upto EXCEPT ![s] = n]
  /\ reader' = [reader EXCEPT ![s] = "publishing"]
  /\ UNCHANGED <<run, stopped, written, published, publisher, wire>>

(* Mutant: a batch of another source is dropped, not sent. *)
PublishDropsOther(s) ==
  /\ reader[s] = "publishing" /\ published[s] < upto[s] /\ ~Busy(s)
  /\ published' = [published EXCEPT ![s] = @ + 1]
  /\ LET items == IF pending.source = s THEN pending.items ELSE <<>>
         now == [source |-> s, items |-> Append(items, published[s] + 1)]
     IN IF Len(now.items) >= BatchSize
        THEN /\ sequence' = sequence + 1 /\ pending' = Empty /\ timer' = FALSE
             /\ lockq' = Append(lockq, [who |-> s, batch |-> Batch(now, sequence + 1)])
        ELSE pending' = now /\ timer' = TRUE /\ UNCHANGED <<sequence, lockq>>
  /\ UNCHANGED <<run, stopped, written, upto, reader, sending, outbox, dropped, lost>>

(* publish: items of another source are sent first; a full batch is sent   *)
(* at once, and the reader waits until what it sends is delivered.         *)
Publish(s) ==
  /\ reader[s] = "publishing" /\ published[s] < upto[s] /\ ~Busy(s)
  /\ published' = [published EXCEPT ![s] = @ + 1]
  /\ LET item == published[s] + 1 IN
     IF pending.source \notin {"none", s}
     THEN /\ Take(s)
          /\ pending' = [source |-> s, items |-> <<item>>] /\ timer' = TRUE
     ELSE LET now == [source |-> s, items |-> Append(pending.items, item)] IN
          IF Len(now.items) >= BatchSize
          THEN /\ sequence' = sequence + 1 /\ pending' = Empty /\ timer' = FALSE
               /\ lockq' = Append(lockq, [who |-> s, batch |-> Batch(now, sequence + 1)])
          ELSE pending' = now /\ timer' = TRUE /\ UNCHANGED <<sequence, lockq>>
  /\ UNCHANGED <<run, stopped, written, upto, reader, sending, outbox, dropped, lost>>

(* A reader that has published what it read: a pipe is read to its end,    *)
(* the tail of the browser log ends once stop_browser_tail is set.         *)
Check(s) ==
  /\ reader[s] = "publishing" /\ published[s] = upto[s] /\ ~Busy(s)
  /\ reader' = [reader EXCEPT ![s] =
                  IF stopped /\ (s \in Pipes => upto[s] = written[s]) THEN "done" ELSE "reading"]
  /\ UNCHANGED <<run, stopped, written, upto, published, publisher, wire>>

(* _flush_later: nobody waits for the task that sends this batch. *)
Flush ==
  /\ timer /\ Take("timer") /\ pending' = Empty /\ timer' = FALSE
  /\ UNCHANGED <<run, sources, sending, outbox, dropped, lost>>

-----------------------------------------------------------------------------
(* From the lock of SessionStore to the callback client *)

(* Mutant: the waiters of the lock are served in any order. *)
AppendAnyEvent ==
  \E i \in DOMAIN lockq :
    /\ outbox' = Append(outbox, lockq[i].batch)
    /\ sending' = sending \cup {lockq[i]}
    /\ lockq' = RemoveAt(lockq, i)
    /\ UNCHANGED <<run, sources, publisher, dropped, lost>>

AppendEvent ==
  /\ lockq # <<>> /\ lockq' = Tail(lockq)
  /\ outbox' = Append(outbox, Head(lockq).batch)
  /\ sending' = sending \cup {Head(lockq)}
  /\ UNCHANGED <<run, sources, publisher, dropped, lost>>

(* The append of a batch raises: the event is dropped, the step goes on. *)
AppendFails ==
  /\ lockq # <<>> /\ Head(lockq).who # "runner"
  /\ lost < MaxLost /\ lost' = lost + 1
  /\ lockq' = Tail(lockq) /\ dropped' = dropped \cup {Head(lockq).batch}
  /\ UNCHANGED <<run, sources, publisher, sending, outbox>>

(* The delivery ends, well or not: CallbackDeliveryError is swallowed. *)
Deliver(x) ==
  /\ sending' = sending \ {x}
  /\ UNCHANGED <<run, sources, publisher, lockq, outbox, dropped, lost>>

Next ==
  \/ Probe \/ NoCredentials \/ Spawn \/ Exit \/ Drained \/ Collected \/ Timeout \/ Killed
  \/ StepFinished \/ Over \/ Flush \/ AppendEvent \/ AppendFails
  \/ \E s \in Sources : Write(s) \/ Read(s) \/ Publish(s) \/ Check(s)
  \/ \E x \in sending : Deliver(x)

Spec == Init /\ [][Next]_stepVars

-----------------------------------------------------------------------------
(* Properties *)

Taken == [i \in DOMAIN lockq |-> lockq[i].batch]
AllBatches == (Range(outbox) \cup Range(Taken) \cup dropped) \ {Finished}

(* Every item that a reader published is in exactly one place: pending, or *)
(* in one batch that is queued, in the outbox or known to be dropped; the  *)
(* readers, the timer and aclose never take it twice nor lose it between   *)
(* them.                                                                   *)
EachItemOnce ==
  \A s \in Sources : \A n \in 1..published[s] :
    LET in(b) == b.source = s /\ \E i \in DOMAIN b.items : b.items[i] = n
    IN IF in(pending) THEN \A b \in AllBatches : ~in(b)
       ELSE \E b \in AllBatches : in(b) /\ \A c \in AllBatches : in(c) => c = b

(* The outbox holds the batches of a step in the order of their sequence   *)
(* numbers, although four coroutines write it.                             *)
OutboxInSequence ==
  \A i, j \in DOMAIN outbox :
    i < j /\ outbox[j] # Finished => outbox[i].sequence < outbox[j].sequence

(* In the outbox agent_step_finished comes after every batch of its step,  *)
(* those of a timer nobody waits for and of a cancelled attempt included.  *)
FinishedIsLast ==
  \A i \in DOMAIN outbox : outbox[i] = Finished =>
    /\ i = Len(outbox) /\ Taken = <<>> /\ pending = Empty
=============================================================================
