-------------------------- MODULE SessionRepository --------------------------
(***************************************************************************)
(* PostgresSessionRepository (buyer/app/persistence.py) for one session:   *)
(* the rows of buyer_sessions, buyer_events and buyer_replies, rewritten   *)
(* as a whole by the transaction of each SessionStore call, while          *)
(* mark_event_delivery updates rows of buyer_events outside the lock of    *)
(* the store and on a connection of its own.                               *)
(*                                                                         *)
(* Postgres runs at READ COMMITTED (external): a statement sees what was   *)
(* committed before it, an UPDATE waits for a row that another transaction *)
(* is deleting, and finds nothing to update when that transaction commits. *)
(***************************************************************************)
EXTENDS Integers, Sequences, FiniteSetsExt

CONSTANTS
  MaxEvents,   \* bound: events of the session
  MaxAsks,     \* bound: questions of the session
  MaxFaults    \* bound: transactions that are rolled back, and restarts

VARIABLES
  status,   \* buyer_sessions.status; "absent" before the INSERT, "gone" once deleted
  events,   \* rows of buyer_events by position: an id and a delivery_status
  replies,  \* buyer_replies.status by number of the question, "none" without a row
  call,     \* the store call that holds SessionStore._lock
  wire,     \* how the delivery of each event ended, as _emit_event knows it
  marker,   \* where mark_event_delivery of each event is
  kept,     \* observed: marks that no open transaction can have overlooked
  faults

tables == <<status, events, replies>>
vars == <<tables, call, wire, marker, kept, faults>>

Terminal == {"completed", "failed", "unverified"}
Ids == 1..MaxEvents
Asks == 1..MaxAsks
NoRow == [status |-> "absent", question |-> 0, pending |-> 0, log |-> <<>>]
Idle == [phase |-> "idle", row |-> NoRow, marks |-> <<>>]

Init ==
  /\ status = "absent" /\ events = <<>> /\ replies = [q \in Asks |-> "none"]
  /\ call = Idle
  /\ wire = [e \in Ids |-> "none"] /\ marker = [e \in Ids |-> "idle"]
  /\ kept = {} /\ faults = 0

-----------------------------------------------------------------------------
(* Reading and writing the tables *)

Open == {q \in Asks : replies[q] \in {"waiting", "answered"}}

(* _load_session: the newest reply that waits or is answered says both     *)
(* which question is open and which reply is left to take.                 *)
Load ==
  IF status \in {"absent", "gone"} THEN NoRow
  ELSE [status |-> status,
        question |-> IF Open # {} /\ replies[Max(Open)] = "waiting" THEN Max(Open) ELSE 0,
        pending |-> IF Open # {} /\ replies[Max(Open)] = "answered" THEN Max(Open) ELSE 0,
        log |-> [i \in DOMAIN events |-> events[i].id]]

(* The replies after _sync_session_related: the open question is inserted, *)
(* or the newest waiting one is answered, or all answered ones consumed.   *)
SyncedReplies(row) ==
  LET waiting == {q \in Asks : replies[q] = "waiting"}
  IN CASE row.question # 0 -> [replies EXCEPT ![row.question] = "waiting"]
       [] row.question = 0 /\ row.pending # 0 ->
            IF waiting = {} THEN replies ELSE [replies EXCEPT ![Max(waiting)] = "answered"]
       [] OTHER -> [q \in Asks |-> IF replies[q] = "answered" THEN "consumed" ELSE replies[q]]

(* Mutant: the rows are inserted with the default of delivery_status. *)
SyncedEventsUnmarked(row) == [i \in DOMAIN row.log |-> [id |-> row.log[i], mark |-> "pending"]]

(* The events after the DELETE and the INSERT with the marks read before.  *)
SyncedEvents(row) ==
  [i \in DOMAIN row.log |->
     [id |-> row.log[i],
      mark |-> IF row.log[i] \in DOMAIN call.marks THEN call.marks[row.log[i]]
                                                   ELSE "pending"]]

-----------------------------------------------------------------------------
(* The calls of SessionStore: load, check and compute, then a transaction *)

Begin(row) ==
  /\ call.phase = "idle"
  /\ call' = [phase |-> "begun", row |-> row, marks |-> <<>>]
  /\ UNCHANGED <<tables, wire, marker, kept, faults>>

CreateSession ==
  status = "absent" /\ Begin([NoRow EXCEPT !.status = "created"])

SetStatus(v) == Load # NoRow /\ Begin([Load EXCEPT !.status = v])

(* The runner asks one question at a time, and takes the reply to it first.*)
SetWaitingQuestion(q) ==
  /\ Load # NoRow /\ Load.status = "running" /\ Load.question = 0 /\ Load.pending = 0
  /\ replies[q] = "none" /\ \A p \in 1..(q - 1) : replies[p] # "none"
  /\ Begin([Load EXCEPT !.status = "waiting_user", !.question = q, !.pending = 0])

ApplyReply ==
  /\ Load # NoRow /\ Load.status = "waiting_user" /\ Load.question # 0
  /\ Begin([Load EXCEPT !.status = "running", !.question = 0, !.pending = Load.question])

PopReply == Load # NoRow /\ Load.pending # 0 /\ Begin([Load EXCEPT !.pending = 0])

AppendEvent(e) ==
  /\ Load # NoRow /\ e = Len(events) + 1
  /\ Begin([Load EXCEPT !.log = Append(@, e)])

(* add_agent_memory and set_auth rewrite the rows with the same content. *)
Touch == Load # NoRow /\ Begin(Load)

(* The transaction of update_session: SELECT, DELETE (which locks the      *)
(* rows), INSERT and COMMIT.                                               *)
SelectMarks ==
  /\ call.phase = "begun"
  /\ call' = [call EXCEPT !.phase = "selected",
                          !.marks = [e \in {events[i].id : i \in DOMAIN events} |->
                                       events[CHOOSE i \in DOMAIN events : events[i].id = e].mark]]
  /\ UNCHANGED <<tables, wire, marker, kept, faults>>

DeleteEvents ==
  /\ call.phase = "selected" /\ call' = [call EXCEPT !.phase = "locked"]
  /\ UNCHANGED <<tables, wire, marker, kept, faults>>

Blocked == {e \in Ids : marker[e] = "blocked"}
Marked(rows, E) ==
  [i \in DOMAIN rows |-> IF rows[i].id \in E
                         THEN [rows[i] EXCEPT !.mark = wire[rows[i].id]] ELSE rows[i]]

(* Mutant: the replies are not written in the transaction of the row. *)
CommitWithoutReplies ==
  /\ call.phase = "locked"
  /\ status' = call.row.status
  /\ events' = SyncedEvents(call.row)
  /\ marker' = [e \in Ids |-> IF e \in Blocked THEN "over" ELSE marker[e]]
  /\ call' = Idle
  /\ UNCHANGED <<replies, wire, kept, faults>>

Commit ==
  /\ call.phase = "locked"
  /\ status' = call.row.status
  /\ events' = SyncedEvents(call.row)
  /\ replies' = SyncedReplies(call.row)
  /\ marker' = [e \in Ids |-> IF e \in Blocked THEN "over" ELSE marker[e]]
  /\ call' = Idle
  /\ UNCHANGED <<wire, kept, faults>>

(* A statement raises, or the connection is lost: the transaction leaves   *)
(* no trace, and the UPDATEs that waited for it go through.                *)
Rollback ==
  /\ call.phase # "idle" /\ faults < MaxFaults /\ faults' = faults + 1
  /\ events' = Marked(events, Blocked)
  /\ marker' = [e \in Ids |-> IF e \in Blocked THEN "over" ELSE marker[e]]
  /\ kept' = kept \cup Blocked
  /\ call' = Idle
  /\ UNCHANGED <<status, replies, wire>>

(* The process stops: Postgres rolls back, and marks not made are never    *)
(* made.                                                                   *)
Restart ==
  /\ faults < MaxFaults /\ faults' = faults + 1
  /\ marker' = [e \in Ids |-> IF wire[e] # "none" \/ \E i \in DOMAIN events : events[i].id = e
                              THEN "over" ELSE marker[e]]
  /\ call' = Idle
  /\ UNCHANGED <<tables, wire, kept>>

(* delete_sessions of an expired session; the other rows go by CASCADE. *)
DeleteSessions ==
  /\ call.phase = "idle" /\ status \in Terminal
  /\ status' = "gone" /\ events' = <<>> /\ replies' = [q \in Asks |-> "none"]
  /\ UNCHANGED <<call, wire, marker, kept, faults>>

-----------------------------------------------------------------------------
(* mark_event_delivery *)

(* The delivery of an event that is in the outbox has ended. *)
DeliveryEnds(e, how) ==
  /\ marker[e] = "idle" /\ \E i \in DOMAIN events : events[i].id = e
  /\ wire' = [wire EXCEPT ![e] = how]
  /\ marker' = [marker EXCEPT ![e] = "due"]
  /\ UNCHANGED <<tables, call, kept, faults>>

MarkEventDelivery(e) ==
  /\ marker[e] = "due" /\ call.phase # "locked"
  /\ events' = Marked(events, {e})
  /\ marker' = [marker EXCEPT ![e] = "over"]
  /\ kept' = IF call.phase \in {"idle", "begun"} THEN kept \cup {e} ELSE kept
  /\ UNCHANGED <<status, replies, call, wire, faults>>

MarkWaits(e) ==
  /\ marker[e] = "due" /\ call.phase = "locked"
  /\ \E i \in DOMAIN events : events[i].id = e
  /\ marker' = [marker EXCEPT ![e] = "blocked"]
  /\ UNCHANGED <<tables, call, wire, kept, faults>>

StoreCall ==
  \/ CreateSession
  \/ SetStatus("running") /\ status = "created"
  \/ \E v \in Terminal : SetStatus(v)
  \/ \E q \in Asks : SetWaitingQuestion(q)
  \/ ApplyReply \/ PopReply
  \/ \E e \in Ids : AppendEvent(e)
  \/ Touch

Next ==
  \/ StoreCall \/ SelectMarks \/ DeleteEvents \/ Commit \/ Rollback \/ Restart
  \/ DeleteSessions
  \/ \E e \in Ids : \/ \E how \in {"delivered", "failed"} : DeliveryEnds(e, how)
                    \/ MarkEventDelivery(e) \/ MarkWaits(e)

Spec == Init /\ [][Next]_vars

-----------------------------------------------------------------------------
(* Properties *)

(* The tables keep the promise of SessionRow: what _load_session puts      *)
(* together is what the last committed call wrote, in one piece, although  *)
(* question and pending reply are not stored but derived from the replies. *)
Row == INSTANCE SessionRow WITH row <- Load
KeepsRow == Row!RSpec

(* A delivery_status other than pending is how the delivery of that very   *)
(* event ended, through all the rewriting of the rows; and a mark made     *)
(* while no transaction had read the marks and not yet committed stays as  *)
(* long as the row: it is lost to no later rewriting.                      *)
MarksAreKept ==
  \A i \in DOMAIN events :
    LET e == events[i] IN
    /\ e.mark \in {"pending", wire[e.id]}
    /\ e.id \in kept => e.mark = wire[e.id]
=============================================================================
