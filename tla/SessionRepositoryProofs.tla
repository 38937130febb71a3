----------------------- MODULE SessionRepositoryProofs -----------------------
(***************************************************************************)
(* Theorems about SessionRepository, for any number of events, questions,  *)
(* rolled back transactions and restarts: no mark of a delivery is wrong   *)
(* or lost to a rewriting of the rows, and the tables implement the row of *)
(* SessionRow.                                                             *)
(***************************************************************************)
EXTENDS SessionRepository, TLAPS

Marks == {"pending", "delivered", "failed"}
Rows == [id : Nat, mark : Marks]
Known == {"created", "running", "waiting_user"} \cup Terminal
Numbers(seq) == seq \in Seq(Nat) /\ \A i \in DOMAIN seq : seq[i] = i /\ i \in Ids

(* The variables that the delivery of an event goes through.               *)
TypeInv ==
  /\ status \in Known \cup {"absent", "gone"}
  /\ events \in Seq(Rows)
  /\ \A i \in DOMAIN events : events[i].id = i /\ i \in Ids
  /\ wire \in [Ids -> {"none", "delivered", "failed"}]
  /\ marker \in [Ids -> {"idle", "due", "blocked", "over"}]
  /\ kept \subseteq Ids
  /\ call = [phase |-> call.phase, row |-> call.row, marks |-> call.marks]
  /\ call.phase \in {"idle", "begun", "selected", "locked"}

(* A mark m of event e is the truth or not yet known.                      *)
True(e, m) == m \in Marks /\ m \in {"pending", wire[e]} /\ (e \in kept => m = wire[e])

(* Events are delivered once they are rows, and marked once.               *)
MarkerInv ==
  \A e \in Ids :
    /\ marker[e] = "idle" => wire[e] = "none"
    /\ marker[e] \in {"due", "blocked"} => wire[e] # "none"
    /\ e \in kept => marker[e] = "over"
    /\ status # "gone" /\ e \notin DOMAIN events => e \notin kept /\ marker[e] \notin {"due", "blocked"}

(* A store call under way rewrites every row there is; the marks it has    *)
(* read are true, and not older than the marks that count.                 *)
CallInv ==
  /\ status = "absent" => events = <<>>
  /\ call.phase # "idle" =>
       /\ status # "gone" /\ call.row.status \in Known
       /\ Numbers(call.row.log) /\ DOMAIN events \subseteq DOMAIN call.row.log
  /\ call.phase \in {"selected", "locked"} =>
       /\ DOMAIN call.marks = DOMAIN events
       /\ \A e \in DOMAIN events : True(e, call.marks[e])

RowMarksInv == \A i \in DOMAIN events : True(i, events[i].mark)

MarksInv == TypeInv /\ MarkerInv /\ CallInv /\ RowMarksInv

LEMMA MarksInvInit == Init => MarksInv
  BY DEF Init, MarksInv, TypeInv, MarkerInv, CallInv, RowMarksInv, Idle, NoRow, Known

LEMMA MarksInvImplies == MarksInv => MarksAreKept
  BY DEF MarksInv, TypeInv, RowMarksInv, True, MarksAreKept

(* What _load_session puts together numbers the events as the rows do.     *)
LEMMA LoadLog ==
  ASSUME TypeInv, Load # NoRow
  PROVE  /\ status \in Known /\ Load.status = status
         /\ Numbers(Load.log) /\ DOMAIN Load.log = DOMAIN events
         /\ Len(Load.log) = Len(events)
         /\ Load = [status |-> Load.status, question |-> Load.question,
                    pending |-> Load.pending, log |-> Load.log]
<1>1. status \in Known
  BY DEF TypeInv, Load
<1>2. /\ Load.status = status /\ Load.log = [i \in DOMAIN events |-> events[i].id]
      /\ Load = [status |-> Load.status, question |-> Load.question,
                 pending |-> Load.pending, log |-> Load.log]
  BY <1>1 DEF Load, Known, Terminal
<1>3. Load.log = [i \in 1..Len(events) |-> i] /\ Len(events) \in Nat
  BY <1>2 DEF TypeInv
<1>4. Load.log \in Seq(Nat) /\ Len(Load.log) = Len(events) /\ DOMAIN Load.log = 1..Len(events)
  BY <1>3
<1>. QED
  BY <1>1, <1>2, <1>3, <1>4 DEF Numbers, TypeInv

(* A store call begins with the row it wants to be written.                *)
LEMMA StoreCallMarks ==
  ASSUME MarksInv, StoreCall
  PROVE  MarksInv'
<1>0. TypeInv
  BY DEF MarksInv
<1>1. \E row : /\ Begin(row) /\ row.status \in Known /\ Numbers(row.log)
               /\ DOMAIN events \subseteq DOMAIN row.log /\ status # "gone"
  <2>1. CASE CreateSession
    <3>. DEFINE new == [NoRow EXCEPT !.status = "created"]
    <3>1. new.status = "created" /\ new.log = <<>>
      BY DEF NoRow
    <3>2. events = <<>> /\ status = "absent" /\ Begin(new)
      BY <2>1 DEF CreateSession, MarksInv, CallInv
    <3>3. new.status \in Known /\ Numbers(new.log) /\ DOMAIN events \subseteq DOMAIN new.log
      <4>. HIDE DEF new
      <4>. QED  BY <3>1, <3>2 DEF Known, Numbers
    <3>. QED  BY <3>2, <3>3
  <2>2. CASE ApplyReply \/ PopReply \/ Touch
    <3>1. Load # NoRow
      BY <2>2 DEF ApplyReply, PopReply, Touch
    <3>. DEFINE answered == [Load EXCEPT !.status = "running", !.question = 0,
                                         !.pending = Load.question]
                taken == [Load EXCEPT !.pending = 0]
    <3>2. /\ answered.status = "running" /\ answered.log = Load.log
          /\ taken.status = Load.status /\ taken.log = Load.log
      BY <1>0, <3>1, LoadLog
    <3>3. Begin(answered) \/ Begin(taken) \/ Begin(Load)
      BY <2>2 DEF ApplyReply, PopReply, Touch
    <3>. HIDE DEF answered, taken
    <3>. QED  BY <1>0, <3>1, <3>2, <3>3, LoadLog DEF Known, Terminal
  <2>3. CASE \/ SetStatus("running") \/ \E v \in Terminal : SetStatus(v)
             \/ \E q \in Asks : SetWaitingQuestion(q)
    <3>1. Load # NoRow
      BY <2>3 DEF SetStatus, SetWaitingQuestion
    <3>2. \/ \E v \in Known : Begin([Load EXCEPT !.status = v])
          \/ \E q \in Asks :
               Begin([Load EXCEPT !.status = "waiting_user", !.question = q, !.pending = 0])
      BY <2>3 DEF SetStatus, SetWaitingQuestion, Known
    <3>3. \A v, q : /\ [Load EXCEPT !.status = v].status = v
                    /\ [Load EXCEPT !.status = v].log = Load.log
                    /\ [Load EXCEPT !.status = v, !.question = q, !.pending = 0].status = v
                    /\ [Load EXCEPT !.status = v, !.question = q, !.pending = 0].log = Load.log
      BY <1>0, <3>1, LoadLog
    <3>. QED  BY <1>0, <3>1, <3>2, <3>3, LoadLog DEF Known, Terminal
  <2>4. CASE \E e \in Ids : AppendEvent(e)
    <3>1. PICK e \in Ids : /\ Load # NoRow /\ e = Len(events) + 1
                           /\ Begin([Load EXCEPT !.log = Append(Load.log, e)])
      BY <2>4 DEF AppendEvent
    <3>2. /\ [Load EXCEPT !.log = Append(Load.log, e)].status = Load.status
          /\ [Load EXCEPT !.log = Append(Load.log, e)].log = Append(Load.log, e)
      BY <1>0, <3>1, LoadLog
    <3>3. Numbers(Append(Load.log, e)) /\ DOMAIN events \subseteq DOMAIN Append(Load.log, e)
      BY <1>0, <3>1, LoadLog DEF Numbers
    <3>. QED  BY <1>0, <3>1, <3>2, <3>3, LoadLog DEF Known, Terminal
  <2>. QED  BY <2>1, <2>2, <2>3, <2>4 DEF StoreCall
<1>2. PICK row : /\ Begin(row) /\ row.status \in Known /\ Numbers(row.log)
                 /\ DOMAIN events \subseteq DOMAIN row.log /\ status # "gone"
  BY <1>1
<1>3. /\ call' = [phase |-> "begun", row |-> row, marks |-> <<>>]
      /\ UNCHANGED <<tables, wire, marker, kept>>
  BY <1>2 DEF Begin
<1>4. TypeInv' /\ MarkerInv' /\ RowMarksInv'
  BY <1>3 DEF MarksInv, TypeInv, MarkerInv, RowMarksInv, True, tables
<1>5. CallInv'
  BY <1>2, <1>3 DEF MarksInv, CallInv, tables, Numbers
<1>. QED
  BY <1>4, <1>5 DEF MarksInv

(* The transaction reads the marks and locks the rows.                     *)
LEMMA SelectMarksKept ==
  ASSUME MarksInv, SelectMarks \/ DeleteEvents
  PROVE  MarksInv'
<1>1. UNCHANGED <<status, events, replies, wire, marker, kept>>
  BY DEF SelectMarks, DeleteEvents, tables
<1>2. (RowMarksInv /\ MarkerInv)'
  BY <1>1 DEF MarksInv, RowMarksInv, MarkerInv, True
<1>3. /\ call'.phase \in {"selected", "locked"} /\ call'.row = call.row /\ call.phase # "idle"
      /\ call' = [phase |-> call'.phase, row |-> call'.row, marks |-> call'.marks]
      /\ DOMAIN call'.marks = DOMAIN events
      /\ \A e \in DOMAIN events : True(e, call'.marks[e])
  <2>1. CASE SelectMarks
    <3>. DEFINE m == [e \in {events[i].id : i \in DOMAIN events} |->
                        events[CHOOSE i \in DOMAIN events : events[i].id = e].mark]
    <3>1. call' = [phase |-> "selected", row |-> call.row, marks |-> m] /\ call.phase = "begun"
      BY <2>1 DEF SelectMarks, MarksInv, TypeInv
    <3>0. \A i \in DOMAIN events : events[i].id = i
      BY DEF MarksInv, TypeInv
    <3>2. {events[i].id : i \in DOMAIN events} = DOMAIN events
      BY <3>0
    <3>3. \A e \in DOMAIN events : (CHOOSE i \in DOMAIN events : events[i].id = e) = e
      BY <3>0
    <3>4. DOMAIN m = DOMAIN events /\ \A e \in DOMAIN events : m[e] = events[e].mark
      BY <3>2, <3>3
    <3>. HIDE DEF m
    <3>. QED  BY <3>1, <3>4 DEF MarksInv, RowMarksInv
  <2>2. CASE DeleteEvents
    BY <2>2 DEF DeleteEvents, MarksInv, TypeInv, CallInv
  <2>. QED  BY <2>1, <2>2
<1>4. CallInv'
  BY <1>1, <1>3 DEF MarksInv, CallInv, True, Numbers
<1>. QED
  BY <1>1, <1>2, <1>3, <1>4 DEF MarksInv, TypeInv

(* The rows are written back with the marks that were read.                *)
LEMMA CommitMarks ==
  ASSUME MarksInv, Commit
  PROVE  MarksInv'
<1>1. /\ call.phase = "locked" /\ status' = call.row.status /\ call' = Idle
      /\ events' = SyncedEvents(call.row)
      /\ marker' = [e \in Ids |-> IF e \in Blocked THEN "over" ELSE marker[e]]
      /\ UNCHANGED <<wire, kept>>
  BY DEF Commit
<1>2. /\ Numbers(call.row.log) /\ DOMAIN events \subseteq DOMAIN call.row.log
      /\ call.row.status \in Known /\ status # "gone"
      /\ DOMAIN call.marks = DOMAIN events
      /\ \A e \in DOMAIN events : True(e, call.marks[e])
  BY <1>1 DEF MarksInv, CallInv
<1>3. \A i \in DOMAIN call.row.log :
        /\ i \in Ids /\ call.row.log[i] = i
        /\ i \notin DOMAIN events => i \notin kept
  BY <1>2 DEF MarksInv, MarkerInv, Numbers
<1>4. events' = [i \in DOMAIN call.row.log |->
                   [id |-> i, mark |-> IF i \in DOMAIN events THEN call.marks[i] ELSE "pending"]]
  BY <1>1, <1>2, <1>3 DEF SyncedEvents
<1>5. /\ DOMAIN events' = DOMAIN call.row.log
      /\ \A i \in DOMAIN events' : events'[i].id = i /\ i \in Ids /\ True(i, events'[i].mark)
  BY <1>2, <1>3, <1>4 DEF True, Marks
<1>6. events' \in Seq(Rows)
  <2>1. /\ DOMAIN call.row.log = 1..Len(call.row.log) /\ Len(call.row.log) \in Nat
    BY <1>2 DEF Numbers
  <2>2. \A i \in 1..Len(call.row.log) : events'[i] \in Rows
    BY <1>2, <1>4, <2>1 DEF True, Marks, Rows
  <2>3. events' \in [1..Len(call.row.log) -> Rows]
    BY <1>4, <2>1, <2>2
  <2>. QED  BY <2>1, <2>3
<1>7. RowMarksInv'
  BY <1>1, <1>5 DEF RowMarksInv, True
<1>8. TypeInv'
  BY <1>1, <1>2, <1>5, <1>6 DEF MarksInv, TypeInv, Idle
<1>9. MarkerInv'
  BY <1>1, <1>2, <1>3, <1>5 DEF MarksInv, TypeInv, MarkerInv, Blocked
<1>10. CallInv'
  BY <1>1, <1>2 DEF CallInv, Idle, Known, Terminal
<1>. QED
  BY <1>7, <1>8, <1>9, <1>10 DEF MarksInv

(* Rows that are marked with the truth.                                    *)
LEMMA MarkedRows ==
  ASSUME MarksInv, NEW E \in SUBSET Ids, \A e \in E : wire[e] # "none"
  PROVE  /\ Marked(events, E) \in Seq(Rows)
         /\ DOMAIN Marked(events, E) = DOMAIN events
         /\ \A i \in DOMAIN events :
              /\ Marked(events, E)[i].id = i
              /\ Marked(events, E)[i].mark = IF i \in E THEN wire[i] ELSE events[i].mark
<1>1. /\ events \in Seq(Rows) /\ Len(events) \in Nat
      /\ DOMAIN events = 1..Len(events) /\ wire \in [Ids -> {"none", "delivered", "failed"}]
      /\ \A i \in DOMAIN events : events[i].id = i /\ i \in Ids /\ events[i] \in Rows
  <2>1. /\ events \in Seq(Rows)
        /\ wire \in [Ids -> {"none", "delivered", "failed"}]
        /\ \A i \in DOMAIN events : events[i].id = i /\ i \in Ids
    BY DEF MarksInv, TypeInv
  <2>. QED  BY <2>1
<1>2. \A i \in DOMAIN events :
        Marked(events, E)[i] = IF i \in E THEN [events[i] EXCEPT !.mark = wire[i]] ELSE events[i]
  BY <1>1 DEF Marked
<1>3. DOMAIN Marked(events, E) = 1..Len(events)
  BY <1>1 DEF Marked
<1>4. \A i \in DOMAIN events :
        /\ Marked(events, E)[i] \in Rows
        /\ Marked(events, E)[i].id = i
        /\ Marked(events, E)[i].mark = IF i \in E THEN wire[i] ELSE events[i].mark
  <2>1. \A i \in E : wire[i] \in Marks
    BY <1>1 DEF Marks
  <2>. QED  BY <1>1, <1>2, <2>1, ZenonT(60) DEF Rows
<1>5. Marked(events, E) \in Seq(Rows)
  BY <1>1, <1>3, <1>4 DEF Marked
<1>. QED
  BY <1>1, <1>3, <1>4, <1>5

(* A mark is made in a row, or the UPDATE waits or finds the process gone. *)
LEMMA MarkerMarks ==
  ASSUME MarksInv,
         \/ Rollback \/ Restart
         \/ \E e \in Ids : MarkEventDelivery(e) \/ MarkWaits(e) \/ \E how \in {"delivered", "failed"} : DeliveryEnds(e, how)
  PROVE  MarksInv'
<1>. USE DEF tables
<1>1. CASE Rollback \/ \E e \in Ids : MarkEventDelivery(e)
  <2>1. \E E \in SUBSET Ids :
          /\ \A e \in E : marker[e] \in {"due", "blocked"}
          /\ events' = Marked(events, E) /\ UNCHANGED <<status, wire>>
          /\ marker' = [e \in Ids |-> IF e \in E THEN "over" ELSE marker[e]]
          /\ \/ call' = Idle /\ kept' = kept \cup E
             \/ call' = call /\ call.phase \in {"idle", "begun"} /\ kept' = kept \cup E
             \/ call' = call /\ call.phase = "selected" /\ kept' = kept
    <3>1. CASE Rollback
      BY <3>1 DEF Rollback, Blocked
    <3>2. ASSUME NEW e \in Ids, MarkEventDelivery(e)
          PROVE  /\ \A d \in {e} : marker[d] \in {"due", "blocked"}
                 /\ events' = Marked(events, {e}) /\ UNCHANGED <<status, wire>>
                 /\ marker' = [d \in Ids |-> IF d \in {e} THEN "over" ELSE marker[d]]
                 /\ \/ call' = call /\ call.phase \in {"idle", "begun"} /\ kept' = kept \cup {e}
                    \/ call' = call /\ call.phase = "selected" /\ kept' = kept
      BY <3>2 DEF MarkEventDelivery, MarksInv, TypeInv
    <3>3. \A e \in Ids : {e} \in SUBSET Ids
      OBVIOUS
    <3>. QED  BY <1>1, <3>1, <3>2, <3>3
  <2>2. PICK E \in SUBSET Ids :
          /\ \A e \in E : marker[e] \in {"due", "blocked"}
          /\ events' = Marked(events, E) /\ UNCHANGED <<status, wire>>
          /\ marker' = [e \in Ids |-> IF e \in E THEN "over" ELSE marker[e]]
          /\ \/ call' = Idle /\ kept' = kept \cup E
             \/ call' = call /\ call.phase \in {"idle", "begun"} /\ kept' = kept \cup E
             \/ call' = call /\ call.phase = "selected" /\ kept' = kept
    BY <2>1
  <2>3. \A e \in E : wire[e] # "none" /\ e \notin kept /\ (status # "gone" => e \in DOMAIN events)
    BY <2>2 DEF MarksInv, TypeInv, MarkerInv
  <2>4. /\ events' \in Seq(Rows) /\ DOMAIN events' = DOMAIN events
        /\ \A i \in DOMAIN events :
             /\ events'[i].id = i
             /\ events'[i].mark = IF i \in E THEN wire[i] ELSE events[i].mark
    <3>1. \A e \in E : wire[e] # "none"
      BY <2>3
    <3>. QED  BY <2>2, <3>1, MarkedRows
  <2>5. TypeInv'
    BY <2>2, <2>4 DEF MarksInv, TypeInv, Idle
  <2>6. MarkerInv'
    BY <2>2, <2>3, <2>4 DEF MarksInv, TypeInv, MarkerInv
  <2>7. RowMarksInv'
    BY <2>2, <2>3, <2>4 DEF MarksInv, TypeInv, RowMarksInv, True, Marks
  <2>8. CallInv'
    <3>1. (status = "absent" => events = <<>>)'
      BY <2>2, <2>4 DEF MarksInv, CallInv
    <3>2. CASE call' = Idle
      BY <3>1, <3>2 DEF CallInv, Idle
    <3>3. CASE call' = call /\ call.phase \in {"idle", "begun"}
      BY <2>2, <2>4, <3>1, <3>3 DEF MarksInv, CallInv, Numbers
    <3>4. CASE call' = call /\ call.phase = "selected" /\ kept' = kept
      BY <2>2, <2>4, <3>1, <3>4 DEF MarksInv, CallInv, Numbers, True
    <3>. QED  BY <2>2, <3>2, <3>3, <3>4
  <2>. QED  BY <2>5, <2>6, <2>7, <2>8 DEF MarksInv
<1>2. CASE Restart \/ \E e \in Ids : MarkWaits(e)
  <2>1. /\ UNCHANGED <<status, events, wire, kept>> /\ (call' = Idle \/ call' = call)
        /\ marker' \in [Ids -> {"idle", "due", "blocked", "over"}]
        /\ \A e \in Ids :
             \/ marker'[e] = marker[e]
             \/ marker'[e] = "over"
             \/ marker[e] = "due" /\ marker'[e] = "blocked"
    BY <1>2 DEF Restart, MarkWaits, MarksInv, TypeInv
  <2>2. TypeInv' /\ MarkerInv' /\ RowMarksInv'
    BY <2>1 DEF MarksInv, TypeInv, MarkerInv, RowMarksInv, True, Idle
  <2>3. CallInv'
    BY <2>1 DEF MarksInv, CallInv, True, Idle, Numbers
  <2>. QED  BY <2>2, <2>3 DEF MarksInv
<1>3. ASSUME NEW e \in Ids, NEW how \in {"delivered", "failed"}, DeliveryEnds(e, how)
      PROVE  MarksInv'
  <2>1. /\ UNCHANGED <<status, events, kept, call>> /\ marker[e] = "idle" /\ e \in DOMAIN events
        /\ wire' = [wire EXCEPT ![e] = how] /\ marker' = [marker EXCEPT ![e] = "due"]
    BY <1>3 DEF DeliveryEnds, MarksInv, TypeInv
  <2>2. wire[e] = "none" /\ e \notin kept
    BY <2>1 DEF MarksInv, TypeInv, MarkerInv
  <2>3. \A d \in Ids, m \in Marks : True(d, m) => True(d, m)'
    BY <2>1, <2>2 DEF True, Marks, MarksInv, TypeInv
  <2>4. TypeInv' /\ MarkerInv'
    BY <2>1, <2>2 DEF MarksInv, TypeInv, MarkerInv
  <2>5. DOMAIN events \subseteq Ids
    BY DEF MarksInv, TypeInv
  <2>6. RowMarksInv'
    BY <2>1, <2>3, <2>5 DEF MarksInv, RowMarksInv, True
  <2>7. CallInv'
    BY <2>1, <2>3, <2>5 DEF MarksInv, CallInv, True, Numbers
  <2>. QED  BY <2>4, <2>6, <2>7 DEF MarksInv
<1>. QED
  BY <1>1, <1>2, <1>3

LEMMA DeleteMarks ==
  ASSUME MarksInv, DeleteSessions
  PROVE  MarksInv'
<1>1. /\ status' = "gone" /\ events' = <<>> /\ call.phase = "idle"
      /\ UNCHANGED <<call, wire, marker, kept>>
  BY DEF DeleteSessions
<1>. QED
  BY <1>1 DEF MarksInv, TypeInv, MarkerInv, CallInv, RowMarksInv

LEMMA SpecMarksInv == Spec => []MarksInv
<1>1. MarksInv /\ [Next]_vars => MarksInv'
  <2>. SUFFICES ASSUME MarksInv, [Next]_vars PROVE MarksInv'
    OBVIOUS
  <2>1. CASE UNCHANGED vars
    BY <2>1 DEF vars, tables, MarksInv, TypeInv, MarkerInv, CallInv, RowMarksInv, True, Numbers
  <2>2. CASE Next
    BY <2>2, StoreCallMarks, SelectMarksKept, CommitMarks, MarkerMarks, DeleteMarks DEF Next
  <2>. QED  BY <2>1, <2>2
<1>. QED
  BY <1>1, MarksInvInit, PTL DEF Spec

(* A mark in buyer_events is how the delivery of that event ended, and a   *)
(* mark that no open transaction can have overlooked is never lost.        *)
THEOREM RepositoryKeepsMarks == Spec => []MarksAreKept
  BY SpecMarksInv, MarksInvImplies, PTL

-----------------------------------------------------------------------------
(* The tables implement SessionRow *)

(* At most one reply is open, so the newest is the only one.               *)
RepliesInv ==
  /\ replies \in [Asks -> {"none", "waiting", "answered", "consumed"}]
  /\ \A p, q \in Open : p = q
  /\ status \in {"absent", "gone"} => Open = {}

(* What a call of SessionRow makes of the row a.                           *)
Becomes(a, b) ==
  \/ a = NoRow /\ b = [NoRow EXCEPT !.status = "created"]
  \/ a # NoRow /\ \E v \in Terminal \cup {"running"} : b = [a EXCEPT !.status = v]
  \/ /\ a # NoRow /\ a.status = "running" /\ a.question = 0 /\ a.pending = 0
     /\ \E q \in Asks : /\ replies[q] = "none"
                        /\ b = [a EXCEPT !.status = "waiting_user", !.question = q, !.pending = 0]
  \/ /\ a # NoRow /\ a.status = "waiting_user" /\ a.question # 0
     /\ b = [a EXCEPT !.status = "running", !.question = 0, !.pending = a.question]
  \/ a # NoRow /\ a.pending # 0 /\ b = [a EXCEPT !.pending = 0]
  \/ a # NoRow /\ \E e \in Ids : e = Len(a.log) + 1 /\ b = [a EXCEPT !.log = Append(a.log, e)]
  \/ a # NoRow /\ b = a

ImplInv == MarksInv /\ RepliesInv /\ (call.phase # "idle" => Becomes(Load, call.row))

LEMMA ImplInvInit == Init => ImplInv
  BY MarksInvInit DEF Init, ImplInv, RepliesInv, Open, Idle

(* The question and the reply that _load_session finds.                    *)
LEMMA LoadReplies ==
  ASSUME MarksInv, RepliesInv, MaxAsks \in Nat
  PROVE  /\ Open = {} => Load.question = 0 /\ Load.pending = 0
         /\ \A q \in Open : /\ q \in Nat \ {0} /\ Open = {q}
                            /\ Load.question = IF replies[q] = "waiting" THEN q ELSE 0
                            /\ Load.pending = IF replies[q] = "answered" THEN q ELSE 0
<1>1. CASE status \in {"absent", "gone"}
  BY <1>1 DEF Load, NoRow, RepliesInv
<1>2. CASE status \notin {"absent", "gone"}
  <2>1. /\ Load.question = IF Open # {} /\ replies[Max(Open)] = "waiting" THEN Max(Open) ELSE 0
        /\ Load.pending = IF Open # {} /\ replies[Max(Open)] = "answered" THEN Max(Open) ELSE 0
    BY <1>2 DEF Load
  <2>2. ASSUME NEW q \in Open PROVE q \in Nat \ {0} /\ Open = {q} /\ Max(Open) = q
    <3>1. q \in Nat \ {0} /\ Open = {q}
      BY <2>2 DEF Open, RepliesInv, Asks
    <3>. QED  BY <3>1 DEF Max
  <2>. QED  BY <2>1, <2>2
<1>. QED
  BY <1>1, <1>2

(* What a row asks of the replies, next to the reply that is open.         *)
Talk(row) ==
  \/ /\ row.question = 0 /\ row.pending = 0
     /\ \A q \in Open : replies[q] = "answered"
  \/ row.question \in Asks /\ row.pending = 0 /\ Open \subseteq {row.question}
  \/ row.question = 0 /\ row.pending \in Asks /\ Open = {row.pending}

LEMMA BecomesTalk ==
  ASSUME MarksInv, RepliesInv, MaxAsks \in Nat, NEW row, Becomes(Load, row)
  PROVE  /\ row = [status |-> row.status, question |-> row.question,
                   pending |-> row.pending, log |-> row.log]
         /\ Talk(row)
<1>1. CASE Load = NoRow
  <2>1. row = [status |-> "created", question |-> 0, pending |-> 0, log |-> <<>>]
    BY <1>1 DEF Becomes, NoRow
  <2>2. Load.question = 0 /\ Load.pending = 0
    BY <1>1 DEF NoRow
  <2>3. Open = {}
    BY <2>2, LoadReplies DEF Open
  <2>. QED  BY <2>1, <2>3 DEF Talk
<1>2. CASE Load # NoRow
  <2>. DEFINE a == Load
  <2>1. a = [status |-> a.status, question |-> a.question, pending |-> a.pending, log |-> a.log]
    BY <1>2, LoadLog DEF MarksInv
  <2>2. /\ Open = {} => a.question = 0 /\ a.pending = 0
        /\ \A q \in Open : /\ q \in Asks /\ q \in Nat \ {0} /\ Open = {q}
                           /\ replies[q] \in {"waiting", "answered"}
                           /\ a.question = IF replies[q] = "waiting" THEN q ELSE 0
                           /\ a.pending = IF replies[q] = "answered" THEN q ELSE 0
    BY LoadReplies DEF Open
  <2>3. /\ row = [status |-> row.status, question |-> row.question,
                  pending |-> row.pending, log |-> row.log]
        /\ \/ row.question = a.question /\ row.pending = a.pending
           \/ a.question = 0 /\ a.pending = 0 /\ row.question \in Asks /\ row.pending = 0
           \/ a.question # 0 /\ row.question = 0 /\ row.pending = a.question
           \/ a.pending # 0 /\ row.question = a.question /\ row.pending = 0
    <3>1. Becomes(a, row) /\ a # NoRow
      BY <1>2
    <3>. HIDE DEF a
    <3>. QED  BY <2>1, <3>1 DEF Becomes
  <2>. HIDE DEF a
  <2>. QED  BY <2>2, <2>3 DEF Talk
<1>. QED
  BY <1>1, <1>2

(* The replies that are written keep the question and the reply of a row.  *)
LEMMA SyncedTalk ==
  ASSUME RepliesInv, MaxAsks \in Nat, NEW row, Talk(row), replies' = SyncedReplies(row)
  PROVE  /\ replies' \in [Asks -> {"none", "waiting", "answered", "consumed"}]
         /\ \/ row.question = 0 /\ row.pending = 0 /\ Open' = {}
            \/ /\ row.question \in Asks /\ row.pending = 0
               /\ Open' = {row.question} /\ replies'[row.question] = "waiting"
            \/ /\ row.question = 0 /\ row.pending \in Asks
               /\ Open' = {row.pending} /\ replies'[row.pending] = "answered"
<1>0. /\ replies \in [Asks -> {"none", "waiting", "answered", "consumed"}]
      /\ Open = {q \in Asks : replies[q] \in {"waiting", "answered"}}
      /\ \A q \in Asks : q \in Nat /\ q # 0
  BY DEF RepliesInv, Open, Asks
<1>1. CASE row.question = 0 /\ row.pending = 0 /\ \A q \in Open : replies[q] = "answered"
  <2>1. replies' = [q \in Asks |-> IF replies[q] = "answered" THEN "consumed" ELSE replies[q]]
    BY <1>1 DEF SyncedReplies
  <2>. QED  BY <1>0, <1>1, <2>1 DEF Open
<1>2. CASE row.question \in Asks /\ row.pending = 0 /\ Open \subseteq {row.question}
  <2>1. replies' = [replies EXCEPT ![row.question] = "waiting"]
    BY <1>0, <1>2 DEF SyncedReplies
  <2>. QED  BY <1>0, <1>2, <2>1 DEF Open
<1>3. CASE row.question = 0 /\ row.pending \in Asks /\ Open = {row.pending}
  <2>. DEFINE p == row.pending
              waiting == {q \in Asks : replies[q] = "waiting"}
  <2>1. replies' = IF waiting = {} THEN replies ELSE [replies EXCEPT ![Max(waiting)] = "answered"]
    BY <1>0, <1>3 DEF SyncedReplies
  <2>2. CASE replies[p] = "answered"
    <3>1. waiting = {}
      BY <1>0, <1>3, <2>2
    <3>. QED  BY <1>0, <1>3, <2>1, <2>2, <3>1 DEF Open
  <2>3. CASE replies[p] = "waiting"
    <3>1. waiting = {p} /\ p \in Nat
      BY <1>0, <1>3, <2>3
    <3>2. Max({p}) = p
      BY <3>1 DEF Max
    <3>3. replies' = [replies EXCEPT ![p] = "answered"]
      BY <2>1, <3>1, <3>2
    <3>. QED  BY <1>0, <1>3, <3>3 DEF Open
  <2>. QED  BY <1>0, <1>3, <2>2, <2>3
<1>. QED
  BY <1>1, <1>2, <1>3 DEF Talk

(* What _load_session reads after the commit is the row that was written.  *)
LEMMA CommitLoad ==
  ASSUME ImplInv, Commit, MaxAsks \in Nat
  PROVE  Load' = call.row /\ RepliesInv'
<1>. DEFINE row == call.row
<1>1. /\ call.phase = "locked" /\ status' = row.status /\ events' = SyncedEvents(row)
      /\ replies' = SyncedReplies(row)
  BY DEF Commit
<1>2. /\ row.status \in Known /\ Numbers(row.log) /\ Becomes(Load, row)
  BY <1>1 DEF ImplInv, MarksInv, CallInv
<1>3. /\ row = [status |-> row.status, question |-> row.question,
                pending |-> row.pending, log |-> row.log]
      /\ Talk(row)
  BY <1>2, BecomesTalk DEF ImplInv
<1>4. /\ replies' \in [Asks -> {"none", "waiting", "answered", "consumed"}]
      /\ \/ row.question = 0 /\ row.pending = 0 /\ Open' = {}
         \/ /\ row.question \in Asks /\ row.pending = 0
            /\ Open' = {row.question} /\ replies'[row.question] = "waiting"
         \/ /\ row.question = 0 /\ row.pending \in Asks
            /\ Open' = {row.pending} /\ replies'[row.pending] = "answered"
  BY <1>1, <1>3, SyncedTalk DEF ImplInv
<1>5. [i \in DOMAIN events' |-> events'[i].id] = row.log
  <2>1. row.log \in Seq(Nat)
    BY <1>2 DEF Numbers
  <2>2. DOMAIN events' = DOMAIN row.log /\ \A i \in DOMAIN row.log : events'[i].id = row.log[i]
    BY <1>1 DEF SyncedEvents
  <2>3. row.log = [i \in DOMAIN row.log |-> row.log[i]]
    BY <2>1
  <2>. QED  BY <2>2, <2>3
<1>6. status' \notin {"absent", "gone"}
  BY <1>1, <1>2 DEF Known, Terminal
<1>7. /\ row.question = IF Open' # {} /\ replies'[Max(Open')] = "waiting" THEN Max(Open') ELSE 0
      /\ row.pending = IF Open' # {} /\ replies'[Max(Open')] = "answered" THEN Max(Open') ELSE 0
  <2>1. \A q \in Asks : Max({q}) = q
    BY DEF Max, Asks
  <2>. QED  BY <1>4, <2>1
<1>8. Load' = [status |-> row.status, question |-> row.question,
               pending |-> row.pending, log |-> row.log]
  BY <1>1, <1>5, <1>6, <1>7 DEF Load
<1>9. RepliesInv'
  BY <1>4, <1>6 DEF RepliesInv
<1>. QED
  BY <1>3, <1>8, <1>9

(* Marks are no part of the row, and no other step touches the tables but  *)
(* the one that deletes them.                                              *)
LEMMA LoadStays ==
  ASSUME MarksInv, MarksInv', UNCHANGED <<status, replies>>, DOMAIN events' = DOMAIN events
  PROVE  Load' = Load
<1>1. [i \in DOMAIN events' |-> events'[i].id] = [i \in DOMAIN events |-> events[i].id]
  BY DEF MarksInv, TypeInv
<1>2. Open' = Open
  BY DEF Open
<1>. QED
  BY <1>1, <1>2 DEF Load

LEMMA StoreCallBecomes ==
  ASSUME MarksInv, RepliesInv, StoreCall
  PROVE  call'.phase = "begun" /\ Becomes(Load, call'.row) /\ UNCHANGED <<status, events, replies>>
<1>1. \E row : Begin(row) /\ Becomes(Load, row)
  <2>1. CASE CreateSession
    <3>1. Load = NoRow /\ Begin([NoRow EXCEPT !.status = "created"])
      BY <2>1 DEF CreateSession, Load
    <3>. QED  BY <3>1 DEF Becomes
  <2>2. CASE SetStatus("running") \/ \E v \in Terminal : SetStatus(v)
    <3>1. PICK v \in Terminal \cup {"running"} : Load # NoRow /\ Begin([Load EXCEPT !.status = v])
      BY <2>2 DEF SetStatus
    <3>2. Becomes(Load, [Load EXCEPT !.status = v])
      BY <3>1 DEF Becomes
    <3>. QED  BY <3>1, <3>2
  <2>3. CASE \E q \in Asks : SetWaitingQuestion(q)
    <3>1. PICK q \in Asks : SetWaitingQuestion(q)
      BY <2>3
    <3>2. Becomes(Load, [Load EXCEPT !.status = "waiting_user", !.question = q, !.pending = 0])
      BY <3>1 DEF SetWaitingQuestion, Becomes
    <3>. QED  BY <3>1, <3>2 DEF SetWaitingQuestion
  <2>4. CASE ApplyReply
    <3>1. Becomes(Load, [Load EXCEPT !.status = "running", !.question = 0,
                                     !.pending = Load.question])
      BY <2>4 DEF ApplyReply, Becomes
    <3>. QED  BY <2>4, <3>1 DEF ApplyReply
  <2>5. CASE PopReply
    <3>1. Becomes(Load, [Load EXCEPT !.pending = 0])
      BY <2>5 DEF PopReply, Becomes
    <3>. QED  BY <2>5, <3>1 DEF PopReply
  <2>6. CASE Touch
    BY <2>6 DEF Touch, Becomes
  <2>7. CASE \E e \in Ids : AppendEvent(e)
    <3>1. PICK e \in Ids : AppendEvent(e)
      BY <2>7
    <3>2. Load # NoRow /\ e = Len(Load.log) + 1 /\ Begin([Load EXCEPT !.log = Append(Load.log, e)])
      BY <3>1, LoadLog DEF AppendEvent, MarksInv
    <3>3. Becomes(Load, [Load EXCEPT !.log = Append(Load.log, e)])
      BY <3>2 DEF Becomes
    <3>. QED  BY <3>2, <3>3
  <2>. QED  BY <2>1, <2>2, <2>3, <2>4, <2>5, <2>6, <2>7 DEF StoreCall
<1>. QED
  BY <1>1 DEF Begin, tables

(* Between two commits the tables say the same, and the call that is under *)
(* way may still become what it wants.                                     *)
LEMMA QuietImpl ==
  ASSUME ImplInv, MarksInv', UNCHANGED <<status, replies>>, DOMAIN events' = DOMAIN events,
         \/ call'.phase = "idle"
         \/ call.phase # "idle" /\ call'.row = call.row
         \/ Becomes(Load, call'.row)
  PROVE  ImplInv' /\ Load' = Load
<1>1. Load' = Load
  BY LoadStays DEF ImplInv
<1>2. RepliesInv'
  BY DEF ImplInv, RepliesInv, Open
<1>3. \A row : Becomes(Load, row) => \A a : a = Load => Becomes(a, row)'
  BY ZenonT(60) DEF Becomes
<1>4. (call.phase # "idle" => Becomes(Load, call.row))'
  BY <1>1, <1>3 DEF ImplInv, Becomes
<1>. QED
  BY <1>1, <1>2, <1>4 DEF ImplInv

(* Every step keeps the invariant, and is a step of SessionRow or none.    *)
LEMMA ImplInvStep ==
  ASSUME ImplInv, MarksInv', [Next]_vars, MaxAsks \in Nat
  PROVE  /\ ImplInv'
         /\ \/ Load' = Load
            \/ Becomes(Load, Load')
            \/ status \in Terminal /\ Load' = NoRow
<1>. USE DEF tables
<1>1. CASE StoreCall
  BY <1>1, StoreCallBecomes, QuietImpl DEF ImplInv
<1>2. CASE SelectMarks \/ DeleteEvents
  <2>1. /\ UNCHANGED <<status, replies, events>>
        /\ call.phase # "idle" /\ call'.row = call.row
    BY <1>2 DEF SelectMarks, DeleteEvents, ImplInv, MarksInv, TypeInv
  <2>. QED  BY <2>1, QuietImpl
<1>3. CASE Commit
  <2>1. Load' = call.row /\ RepliesInv' /\ call'.phase = "idle" /\ Becomes(Load, call.row)
    BY <1>3, CommitLoad DEF Commit, Idle, ImplInv
  <2>2. ImplInv'
    BY <2>1 DEF ImplInv
  <2>3. Becomes(Load, Load')
    BY <2>1
  <2>. QED  BY <2>2, <2>3
<1>4. CASE DeleteSessions
  <2>1. /\ status \in Terminal /\ status' = "gone" /\ call'.phase = "idle"
        /\ replies' = [q \in Asks |-> "none"]
    BY <1>4 DEF DeleteSessions
  <2>2. Load' = NoRow
    BY <2>1 DEF Load
  <2>3. RepliesInv'
    BY <2>1 DEF RepliesInv, Open
  <2>. QED  BY <2>1, <2>2, <2>3 DEF ImplInv
<1>5. CASE Rollback \/ Restart \/ UNCHANGED vars
  <2>1. /\ UNCHANGED <<status, replies>> /\ DOMAIN events' = DOMAIN events
        /\ call'.phase = "idle" \/ (call.phase # "idle" /\ call'.row = call.row)
    BY <1>5 DEF Rollback, Restart, vars, Idle, Marked
  <2>. QED  BY <2>1, QuietImpl
<1>6. ASSUME NEW e \in Ids,
             \/ MarkEventDelivery(e) \/ MarkWaits(e)
             \/ \E how \in {"delivered", "failed"} : DeliveryEnds(e, how)
      PROVE  ImplInv' /\ Load' = Load
  <2>1. UNCHANGED <<status, replies, call>> /\ DOMAIN events' = DOMAIN events
    BY <1>6 DEF MarkEventDelivery, MarkWaits, DeliveryEnds, Marked
  <2>2. call'.phase = "idle" \/ (call.phase # "idle" /\ call'.row = call.row)
    BY <2>1
  <2>. QED  BY <2>1, <2>2, QuietImpl
<1>. QED
  BY <1>1, <1>2, <1>3, <1>4, <1>5, <1>6 DEF Next

(* What becomes of a row is a call of SessionRow.                          *)
LEMMA BecomesNext ==
  ASSUME MarksInv, RepliesInv, MaxAsks \in Nat,
         \/ Load' = Load
         \/ Becomes(Load, Load')
         \/ status \in Terminal /\ Load' = NoRow
  PROVE  [Row!RNext]_Load
<1>. USE DEF Row!Exists
<1>0. /\ Row!NoRow = NoRow /\ Row!Terminal = Terminal
      /\ \A q \in Asks : q \in Nat /\ q > 0
      /\ Load.status = "absent" <=> Load = NoRow
  <2>1. Load # NoRow => Load.status \in Known
    BY LoadLog DEF MarksInv
  <2>. QED  BY <2>1 DEF Row!NoRow, NoRow, Row!Terminal, Terminal, Asks, Known
<1>1. CASE Load = NoRow /\ Load' = [NoRow EXCEPT !.status = "created"]
  BY <1>0, <1>1 DEF Row!RNext, Row!Create
<1>2. CASE status \in Terminal /\ Load' = NoRow
  BY <1>0, <1>2 DEF Row!RNext, Row!Expire, Load, Terminal
<1>3. CASE Load # NoRow /\ Becomes(Load, Load')
  <2>. DEFINE a == Load
              b == Load'
  <2>1. /\ a = [status |-> a.status, question |-> a.question, pending |-> a.pending, log |-> a.log]
        /\ a.log \in Seq(Nat) /\ a # NoRow
    BY <1>3, LoadLog DEF MarksInv, Numbers
  <2>2. a.question \in Nat /\ a.pending \in Nat
    <3>1. Open = {} \/ \E q \in Open : TRUE
      OBVIOUS
    <3>. QED  BY <3>1, LoadReplies
  <2>3. \/ \E v \in Terminal \cup {"running"} : b = [a EXCEPT !.status = v]
        \/ /\ a.status = "running" /\ a.question = 0 /\ a.pending = 0
           /\ \E q \in Asks : b = [a EXCEPT !.status = "waiting_user", !.question = q, !.pending = 0]
        \/ /\ a.status = "waiting_user" /\ a.question # 0
           /\ b = [a EXCEPT !.status = "running", !.question = 0, !.pending = a.question]
        \/ a.pending # 0 /\ b = [a EXCEPT !.pending = 0]
        \/ \E e \in Ids : e = Len(a.log) + 1 /\ b = [a EXCEPT !.log = Append(a.log, e)]
        \/ b = a
    BY <1>3 DEF Becomes
  <2>4. CASE \E v \in Terminal \cup {"running"} : b = [a EXCEPT !.status = v]
    BY <1>0, <2>1, <2>4 DEF Row!RNext, Row!SetStatus
  <2>5. CASE /\ a.status = "running" /\ a.question = 0 /\ a.pending = 0
             /\ \E q \in Asks : b = [a EXCEPT !.status = "waiting_user", !.question = q, !.pending = 0]
    <3>1. PICK q \in Asks : b = [a EXCEPT !.status = "waiting_user", !.question = q, !.pending = 0]
      BY <2>5
    <3>2. b.question = q /\ q > 0 /\ b = [a EXCEPT !.status = "waiting_user", !.question = q]
      <4>. HIDE DEF a, b
      <4>. QED  BY <1>0, <2>1, <2>5, <3>1
    <3>. QED  BY <2>5, <3>2 DEF Row!RNext, Row!Ask
  <2>6. CASE /\ a.status = "waiting_user" /\ a.question # 0
             /\ b = [a EXCEPT !.status = "running", !.question = 0, !.pending = a.question]
    <3>1. a.question > 0
      BY <2>2, <2>6
    <3>. QED  BY <2>6, <3>1 DEF Row!RNext, Row!Reply
  <2>7. CASE a.pending # 0 /\ b = [a EXCEPT !.pending = 0]
    <3>1. a.pending > 0
      BY <2>2, <2>7
    <3>. QED  BY <2>7, <3>1 DEF Row!RNext, Row!Take
  <2>8. CASE \E e \in Ids : e = Len(a.log) + 1 /\ b = [a EXCEPT !.log = Append(a.log, e)]
    <3>1. PICK e \in Ids : e = Len(a.log) + 1 /\ b = [a EXCEPT !.log = Append(a.log, e)]
      BY <2>8
    <3>2. b.log = Append(a.log, e)
      <4>. HIDE DEF a, b
      <4>. QED  BY <2>1, <3>1
    <3>3. /\ Len(Append(a.log, e)) = Len(a.log) + 1
          /\ SubSeq(Append(a.log, e), 1, Len(a.log)) = a.log
      <4>. HIDE DEF a, b
      <4>. QED  BY <2>1, <3>1
    <3>. QED  BY <1>0, <2>1, <3>1, <3>2, <3>3 DEF Row!RNext, Row!AppendEvent
  <2>. QED  BY <2>3, <2>4, <2>5, <2>6, <2>7, <2>8
<1>. QED
  BY <1>1, <1>2, <1>3 DEF Becomes

(* The tables and the transactions of the repository implement the durable *)
(* row that SessionStore relies on: what _load_session puts together moves *)
(* only as the calls of SessionRow do.                                     *)
THEOREM RepositoryImplementsRow ==
  ASSUME MaxAsks \in Nat
  PROVE  Spec => KeepsRow
<1>1. Init => Row!RInit
  BY DEF Init, Row!RInit, Load, NoRow, Row!NoRow
<1>2. ImplInv /\ MarksInv' /\ [Next]_vars => ImplInv' /\ [Row!RNext]_Load
  <2>. SUFFICES ASSUME ImplInv, MarksInv', [Next]_vars PROVE ImplInv' /\ [Row!RNext]_Load
    OBVIOUS
  <2>1. /\ ImplInv'
        /\ \/ Load' = Load
           \/ Becomes(Load, Load')
           \/ status \in Terminal /\ Load' = NoRow
    BY ImplInvStep
  <2>. QED  BY <2>1, BecomesNext DEF ImplInv
<1>. QED
  BY <1>1, <1>2, ImplInvInit, SpecMarksInv, PTL DEF Spec, KeepsRow, Row!RSpec
=============================================================================
