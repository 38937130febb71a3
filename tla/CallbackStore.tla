---------------------------- MODULE CallbackStore ----------------------------
(***************************************************************************)
(* The callback store of micro-ui (micro-ui/app/store.py): the events of   *)
(* one session as its operator sees them, and the bounded queues that feed *)
(* the pages connected to GET /api/events/stream.  Every method holds the  *)
(* store's lock and awaits nothing under it, so each is one step.          *)
(***************************************************************************)
EXTENDS Integers, SequencesExt

CONSTANTS
  Envelopes,  \* events of the session, told apart by their dedupe key
  Pages,      \* connections to GET /api/events/stream
  QueueSize   \* maxsize of a subscriber's queue

VARIABLES
  bucket,   \* _events_by_session of the session
  queue,    \* the queue of each subscribed page, <<>> without one
  joined    \* length of the bucket when the page subscribed, -1 without a queue

storeVars == <<bucket, queue, joined>>

StoreInit ==
  /\ bucket = <<>>
  /\ queue = [p \in Pages |-> <<>>] /\ joined = [p \in Pages |-> -1]

(* Mutant: a full queue refuses the newest event. *)
OfferNewest(q, e) == IF Len(q) < QueueSize THEN Append(q, e) ELSE q

(* _offer: a full queue gives up its oldest event. *)
Offer(q, e) == Append(IF Len(q) < QueueSize THEN q ELSE Tail(q), e)

(* add: an event that was seen, by its key, is not stored or offered again.*)
Add(e) ==
  IF Contains(bucket, e)
  THEN UNCHANGED storeVars
  ELSE /\ bucket' = Append(bucket, e)
       /\ queue' = [p \in Pages |-> IF joined[p] >= 0 THEN Offer(queue[p], e) ELSE queue[p]]
       /\ UNCHANGED joined

Subscribe(p) ==
  /\ joined[p] = -1 /\ joined' = [joined EXCEPT ![p] = Len(bucket)]
  /\ UNCHANGED <<bucket, queue>>

(* One turn of event_source: the page is sent the oldest event it is owed. *)
Send(p) == queue[p] # <<>> /\ queue' = [queue EXCEPT ![p] = Tail(@)] /\ UNCHANGED <<bucket, joined>>

(* The connection has ended: the finally clause of event_source. *)
Unsubscribe(p) ==
  /\ joined[p] >= 0 /\ joined' = [joined EXCEPT ![p] = -1]
  /\ queue' = [queue EXCEPT ![p] = <<>>]
  /\ UNCHANGED bucket

(* An event may be delivered any number of times, in any order. *)
StoreNext ==
  \/ \E e \in Envelopes : Add(e)
  \/ \E p \in Pages : Subscribe(p) \/ Send(p) \/ Unsubscribe(p)

-----------------------------------------------------------------------------
(* Properties *)

(* A page that is connected is owed exactly the newest of the events that  *)
(* came since it subscribed, in their order: what a full queue gives up is *)
(* the oldest, nothing in between is ever missing, and nothing older than  *)
(* the connection is sent (the page reads that with GET /api/sessions).    *)
OwedTheNewest ==
  \A p \in Pages : joined[p] >= 0 =>
    /\ Len(queue[p]) <= QueueSize
    /\ IsSuffix(queue[p], SubSeq(bucket, joined[p] + 1, Len(bucket)))
=============================================================================
