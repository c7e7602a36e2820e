------------------------- MODULE EventStream ------------------------
(* The progress stream around the pipeline: emit_event in the           *)
(* transactions of workers, webhook and reaper, the listener thread and *)
(* the queues of app/events/notify.py, and the clients of               *)
(* GET /documents/{id}/events (app/api/events.py).                      *)
EXTENDS Pipeline, Sequences

CONSTANTS
    Watchers,       \* clients connected to the stream
    QueueSize       \* _SUBSCRIBER_QUEUE_MAXSIZE

VARIABLES
    listener,       \* the LISTEN thread of the API process
    channel,        \* notifications on their way to it, in commit order
    client          \* each client's connection, queue and view

streamVars == <<listener, channel, client>>

(* What a client knows of a document: its status and its steps'. *)
DocKey == "document"
Keys == Steps \cup {DocKey}

ASSUME StreamAssumption == QueueSize \in Nat \ {0} /\ DocKey \notin Steps

(* step_event and doc_status_event, with the document they are about. *)
Event(d, key, value) == [doc |-> d, key |-> key, value |-> value]

Values == StepStatuses \cup DocStatuses

Events == [doc : Docs, key : Keys, value : Values]

(* What a client has of the stream. covered: the listener was listening *)
(* already when its snapshot was read. dropped: it missed an event.     *)
Streams ==
    [pc : {"away", "subscribed", "steps", "live"}, doc : Docs \cup {NoDoc},
     queue : Seq(Events), dropped : BOOLEAN, covered : BOOLEAN, view : [Keys -> Values]]

(* A client that has disconnected, or has not connected yet. *)
Away ==
    [pc |-> "away", doc |-> NoDoc, queue |-> <<>>, dropped |-> FALSE,
     covered |-> FALSE, view |-> [k \in Keys |-> "absent"]]

StreamInit ==
    /\ Init
    /\ listener = "starting" /\ channel = <<>>
    /\ client = [c \in Watchers |-> Away]

(* recompute_document_status emits the document's status if it writes. *)
VerdictEvent(d, seen, verdict) ==
    IF verdict # seen THEN {Event(d, DocKey, verdict)} ELSE {}

(* What worker w emits in the transaction that takes it from one point  *)
(* of the handler to the next. A failure that is retried hands the step *)
(* back as QUEUED and emits nothing.                                    *)
WorkerEmits(w) ==
    LET moves(from, to) == worker[w].pc = from /\ worker'[w].pc = to
        step(value) == {Event(DocOf(w), StepOf(w), value)}
    IN  CASE moves("mark", "run") -> step("running")
          [] moves("run", "trigger") -> step("done")
          [] moves("called", "ack") -> step("awaiting_callback")
          [] moves("run", "recompute") -> step("error")
          [] moves("recompute", "recompute") ->
                {Event(DocOf(w), s, "queued") : s \in
                    {t \in Steps : claims'[<<DocOf(w), t>>] # claims[<<DocOf(w), t>>]}}
          [] moves("persist", "ack") ->
                VerdictEvent(DocOf(w), worker[w].seen, worker[w].verdict)
          [] OTHER -> {}

(* The webhook, unless it crashed. *)
HookEmits(h) ==
    LET moves(from, to) == hook[h].pc = from /\ hook'[h].pc = to /\ crashes' = crashes
    IN  CASE moves("apply", "recompute") ->
                {Event(d, ExternalCall, IF hook[h].ok THEN "done" ELSE "error")
                    : d \in hook[h].docs}
          [] moves("persist", "idle") ->
                UNION {VerdictEvent(d, docStatus[d], hook[h].verdict) : d \in hook[h].docs}
          [] OTHER -> {}

(* The reaper's _fail and the recompute after it. *)
ReaperEmits(r) ==
    LET moves(from, to) == reaper[r].pc = from /\ reaper'[r].pc = to
    IN  CASE moves("batch", "recompute") ->
                {Event(step.row[1], step.row[2], "error")
                    : step \in reaper[r].batch \ reaper'[r].batch}
          [] moves("persist", "batch") ->
                UNION {VerdictEvent(d, docStatus[d], reaper[r].verdict)
                            : d \in reaper[r].failed}
          [] OTHER -> {}

(* The event of a step of the pipeline: no transaction has two. *)
Emitted ==
    UNION ({WorkerEmits(w) : w \in Workers} \cup {HookEmits(h) : h \in Hooks}
                \cup {ReaperEmits(r) : r \in Reapers})

(* emit_event: pg_notify in the transaction of the change, delivered on *)
(* its commit to the sessions that LISTEN by then.                      *)
PipelineStep ==
    /\ Next
    /\ IF listener # "listening" \/ Emitted = {}
       THEN UNCHANGED channel
       ELSE \E event \in Emitted : channel' = Append(channel, event)
    /\ UNCHANGED <<listener, client>>

----
(* The thread connects and executes LISTEN, some time after the process *)
(* began to serve requests.                                             *)
ListenerStarts ==
    /\ listener = "starting"
    /\ listener' = "listening"
    /\ UNCHANGED <<vars, channel, client>>

(* It cannot connect, or loses its connection: the thread ends, and     *)
(* what it had not received is lost.                                    *)
ListenerDies ==
    /\ listener \in {"starting", "listening"}
    /\ listener' = "dead" /\ channel' = <<>>
    /\ UNCHANGED <<vars, client>>

(* Mutant: only clients that have their snapshot are subscribed. *)
SubscribedWhenLive(c, d) == client[c].pc = "live" /\ client[c].doc = d

(* subscribe comes before the snapshot, unsubscribe at the end. *)
Subscribed(c, d) == client[c].pc # "away" /\ client[c].doc = d

(* Mutant: the queue has no limit. *)
OfferAlways(session, event) == [session EXCEPT !.queue = Append(@, event)]

(* _enqueue: a client whose queue is full misses the event. *)
Offer(session, event) ==
    IF Len(session.queue) < QueueSize
    THEN [session EXCEPT !.queue = Append(@, event)]
    ELSE [session EXCEPT !.dropped = TRUE]

(* The listener takes a notification and hands it to the subscribers.   *)
Dispatch ==
    /\ channel # <<>>
    /\ channel' = Tail(channel)
    /\ client' = [c \in Watchers |->
          IF Subscribed(c, Head(channel).doc)
          THEN Offer(client[c], Head(channel)) ELSE client[c]]
    /\ UNCHANGED <<vars, listener>>

(* stream_events subscribes the client. (A document of another tenant   *)
(* is refused at its snapshot, and the client unsubscribed: left out.)  *)
Connect(c) ==
    /\ client[c].pc = "away"
    /\ \E d \in Docs :
          /\ docStatus[d] # "absent"
          /\ client' = [client EXCEPT ![c] = [Away EXCEPT !.pc = "subscribed", !.doc = d]]
    /\ UNCHANGED <<vars, listener, channel>>

(* _load_snapshot is two queries, of the document and of its steps.     *)
ReadDocument(c) ==
    /\ client[c].pc = "subscribed"
    /\ client' = [client EXCEPT ![c] =
          [@ EXCEPT !.pc = "steps", !.covered = (listener = "listening"),
                    !.view[DocKey] = docStatus[client[c].doc]]]
    /\ UNCHANGED <<vars, listener, channel>>

ReadSteps(c) ==
    /\ client[c].pc = "steps"
    /\ client' = [client EXCEPT ![c] =
          [@ EXCEPT !.pc = "live",
                    !.view = [k \in Keys |->
                        IF k = DocKey THEN client[c].view[DocKey]
                                      ELSE status[<<client[c].doc, k>>]]]]
    /\ UNCHANGED <<vars, listener, channel>>

(* The generator sends the next event of the queue. *)
SendEvent(c) ==
    /\ client[c].pc = "live" /\ client[c].queue # <<>>
    /\ LET event == Head(client[c].queue)
       IN  client' = [client EXCEPT ![c] =
              [@ EXCEPT !.queue = Tail(client[c].queue), !.view[event.key] = event.value]]
    /\ UNCHANGED <<vars, listener, channel>>

(* The client goes away; it may connect again. *)
Disconnect(c) ==
    /\ client[c].pc = "live"
    /\ client' = [client EXCEPT ![c] = Away]
    /\ UNCHANGED <<vars, listener, channel>>

ClientStep(c) ==
    Connect(c) \/ ReadDocument(c) \/ ReadSteps(c) \/ SendEvent(c) \/ Disconnect(c)

StreamNext ==
    \/ PipelineStep
    \/ ListenerStarts \/ ListenerDies \/ Dispatch
    \/ \E c \in Watchers : ClientStep(c)

StreamSpec == StreamInit /\ [][StreamNext]_<<vars, streamVars>>

----
(* Every variable keeps its type: no queue outgrows its limit. *)
StreamTypeOK ==
    /\ TypeOK
    /\ listener \in {"starting", "listening", "dead"}
    /\ channel \in Seq(Events)
    /\ client \in [Watchers -> Streams]
    /\ \A c \in Watchers : Len(client[c].queue) <= QueueSize

About(event, d, k) == event.doc = d /\ event.key = k

Silent(events, d, k) == \A i \in 1..Len(events) : ~About(events[i], d, k)

(* The last of events about k of d says value. *)
Says(events, d, k, value) ==
    \E i \in 1..Len(events) :
        /\ About(events[i], d, k) /\ events[i].value = value
        /\ \A j \in i + 1..Len(events) : ~About(events[j], d, k)

(* The client will think that k has value, when all that is on its way  *)
(* to it has arrived.                                                   *)
WillKnow(c, k, value) ==
    LET d == client[c].doc IN
    \/ Says(channel, d, k, value)
    \/ /\ Silent(channel, d, k)
       /\ \/ Says(client[c].queue, d, k, value)
          \/ Silent(client[c].queue, d, k) /\ client[c].view[k] = value

(* A client nothing was kept from: its queue was never full, and the    *)
(* listener has been listening since before its snapshot.               *)
Served(c) ==
    /\ client[c].pc = "live" /\ ~client[c].dropped
    /\ client[c].covered /\ listener = "listening"

(* The step was handed back for a retry, which is not announced. *)
RetryPending(row) == status[row] = "queued" /\ attempts[row] > 0

(* Snapshot and stream fit together: what a served client will know is  *)
(* what the database says, whenever it connected and in whatever order  *)
(* changes were committed, read and queued; but for a pending retry,    *)
(* which it takes for running. (Without overlap: an overlapping worker  *)
(* announces RUNNING for a row another one has finished.)               *)
StreamConverges ==
    NoOverlap =>
        \A c \in Watchers :
            Served(c) =>
                LET d == client[c].doc IN
                /\ WillKnow(c, DocKey, docStatus[d])
                /\ \A s \in Steps :
                      \/ WillKnow(c, s, status[<<d, s>>])
                      \/ WillKnow(c, s, "running") /\ RetryPending(<<d, s>>)

(* "every step change reported" (DESIGN.md, what the assignment asks    *)
(* for): what a served client will know of a step is its status.        *)
EveryChangeReported ==
    \A c \in Watchers :
        Served(c) => \A s \in Steps : WillKnow(c, s, status[<<client[c].doc, s>>])

====
