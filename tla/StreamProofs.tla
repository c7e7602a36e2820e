------------------------- MODULE StreamProofs -----------------------
(* The progress stream fits the snapshot it starts from, for every      *)
(* graph, every number of documents and of clients, and every size of   *)
(* their queues, whatever the pipeline does meanwhile.                  *)
EXTENDS EventStream, LifecycleProofs

(* What value a client may rightly have of k. *)
Agrees(d, k, value) ==
    IF k = DocKey THEN value = docStatus[d]
    ELSE \/ value = status[<<d, k>>]
         \/ value = "running" /\ RetryPending(<<d, k>>)

(* The last of events about k, if there is one, is right. *)
EventsAgree(events, d, k) ==
    \/ Silent(events, d, k)
    \/ \E value \in Values : Says(events, d, k, value) /\ Agrees(d, k, value)

ChannelAgrees == \A d \in Docs, k \in Keys : EventsAgree(channel, d, k)

(* The client's snapshot has k, and was read with the listener on. *)
Viewed(c, k) ==
    /\ client[c].covered
    /\ client[c].pc = "live" \/ (client[c].pc = "steps" /\ k = DocKey)

(* Where the channel has nothing newer for a client, its queue is       *)
(* right, and where the queue has nothing either, so is its view.       *)
KeyAgrees(c, k) ==
    Silent(channel, client[c].doc, k) =>
        /\ EventsAgree(client[c].queue, client[c].doc, k)
        /\ Viewed(c, k) /\ Silent(client[c].queue, client[c].doc, k) =>
              Agrees(client[c].doc, k, client[c].view[k])

ClientAgrees(c) ==
    client[c].pc # "away" /\ ~client[c].dropped => \A k \in Keys : KeyAgrees(c, k)

(* Before the listener is there, nothing is under way. *)
StartQuiet ==
    listener = "starting" =>
        channel = <<>> /\ \A c \in Watchers : client[c].queue = <<>> /\ ~client[c].covered

(* Events are about documents there are, and a client only gets those   *)
(* of its own document.                                                 *)
EventsPresent ==
    /\ \A i \in 1..Len(channel) : docStatus[channel[i].doc] # "absent"
    /\ \A c \in Watchers : client[c].pc # "away" =>
          /\ client[c].doc \in Docs /\ docStatus[client[c].doc] # "absent"
          /\ \A i \in 1..Len(client[c].queue) : client[c].queue[i].doc = client[c].doc

AllAgree ==
    NoOverlap /\ listener = "listening" =>
        ChannelAgrees /\ \A c \in Watchers : ClientAgrees(c)

PlainInv == StreamTypeOK /\ StartQuiet /\ EventsPresent

StreamInv == PlainInv /\ AllAgree

----
(* Sequences of events. *)

(* An event at the end is the last word about its key, and no word      *)
(* about any other.                                                     *)
LEMMA AppendedSays ==
    ASSUME NEW events \in Seq(Events), NEW event \in Events, NEW d, NEW k
    PROVE  LET longer == Append(events, event) IN
           /\ longer \in Seq(Events) /\ Len(longer) = Len(events) + 1
           /\ About(event, d, k) =>
                 Says(longer, d, k, event.value) /\ ~Silent(longer, d, k)
           /\ ~About(event, d, k) =>
                 /\ Silent(longer, d, k) <=> Silent(events, d, k)
                 /\ \A value : Says(events, d, k, value) => Says(longer, d, k, value)
<1> DEFINE longer == Append(events, event)
           n == Len(events)
<1>1. /\ longer \in Seq(Events) /\ n \in Nat /\ Len(longer) = n + 1 /\ longer[n + 1] = event
      /\ \A i \in 1..n : longer[i] = events[i]
    OBVIOUS
<1> HIDE DEF longer, n
<1>2. \A i \in 1..n + 1 : i = n + 1 \/ i \in 1..n
    BY <1>1
<1>3. n + 1 \in 1..n + 1 /\ \A j \in n + 1 + 1..n + 1 : FALSE
    BY <1>1
<1>4. ASSUME About(event, d, k)
      PROVE  Says(longer, d, k, event.value) /\ ~Silent(longer, d, k)
    BY <1>1, <1>3, <1>4 DEF Says, Silent
<1>5. ASSUME ~About(event, d, k)
      PROVE  Silent(longer, d, k) <=> Silent(events, d, k)
    BY <1>1, <1>2, <1>5 DEF Silent, n
<1>6. ASSUME ~About(event, d, k), NEW value, Says(events, d, k, value)
      PROVE  Says(longer, d, k, value)
    <2>1. PICK i \in 1..n :
            /\ About(events[i], d, k) /\ events[i].value = value
            /\ \A j \in i + 1..n : ~About(events[j], d, k)
        BY <1>6 DEF Says, n
    <2>2. i \in 1..n + 1 /\ About(longer[i], d, k) /\ longer[i].value = value
        BY <1>1, <2>1
    <2>3. ASSUME NEW j \in i + 1..n + 1
          PROVE  ~About(longer[j], d, k)
        <3>1. j = n + 1 \/ (j \in i + 1..n /\ j \in 1..n)
            BY <1>1, <2>3
        <3> QED
            BY <1>1, <1>6, <2>1, <3>1
    <2> QED
        BY <1>1, <2>2, <2>3 DEF Says
<1> QED
    BY <1>1, <1>4, <1>5, <1>6 DEF longer, n

(* When the first event is taken, the last word about a key stays or    *)
(* was that event's.                                                    *)
LEMMA TailSays ==
    ASSUME NEW events \in Seq(Events), events # <<>>, NEW d, NEW k
    PROVE  LET event == Head(events)
               rest == Tail(events)
           IN  /\ event \in Events /\ event = events[1] /\ 1 \in 1..Len(events)
               /\ rest \in Seq(Events) /\ Len(rest) = Len(events) - 1
               /\ \A i \in 1..Len(rest) : i + 1 \in 1..Len(events) /\ rest[i] = events[i + 1]
               /\ Silent(events, d, k) <=> ~About(event, d, k) /\ Silent(rest, d, k)
               /\ \A value : Says(events, d, k, value) =>
                     \/ Says(rest, d, k, value)
                     \/ Silent(rest, d, k) /\ About(event, d, k) /\ value = event.value
<1> DEFINE event == Head(events)
           rest == Tail(events)
           n == Len(rest)
<1>1. /\ event \in Events /\ event = events[1] /\ rest \in Seq(Events)
      /\ n \in Nat /\ Len(events) = n + 1 /\ \A i \in 1..n : rest[i] = events[i + 1]
    OBVIOUS
<1> HIDE DEF event, rest, n
<1>2. /\ 1 \in 1..n + 1 /\ \A i \in 1..n : i + 1 \in 1..n + 1
      /\ \A i \in 1..n + 1 : i = 1 \/ (i - 1 \in 1..n /\ i = (i - 1) + 1)
    BY <1>1
<1>3. Silent(events, d, k) <=> ~About(event, d, k) /\ Silent(rest, d, k)
    <2>1. ASSUME ~About(event, d, k), Silent(rest, d, k), NEW i \in 1..n + 1
          PROVE  ~About(events[i], d, k)
        BY <1>1, <1>2, <2>1 DEF Silent, n
    <2> QED
        BY <1>1, <1>2, <2>1 DEF Silent, n
<1>4. ASSUME NEW value, Says(events, d, k, value)
      PROVE  \/ Says(rest, d, k, value)
             \/ Silent(rest, d, k) /\ About(event, d, k) /\ value = event.value
    <2>1. PICK i \in 1..n + 1 :
            /\ About(events[i], d, k) /\ events[i].value = value
            /\ \A j \in i + 1..n + 1 : ~About(events[j], d, k)
        BY <1>1, <1>4 DEF Says
    <2>2. ASSUME NEW j \in 1..n, j >= i
          PROVE  ~About(rest[j], d, k)
        <3>1. j + 1 \in i + 1..n + 1
            BY <1>1, <2>2
        <3> QED
            BY <1>1, <2>1, <3>1
    <2>3. CASE i = 1
        BY <1>1, <2>1, <2>2, <2>3 DEF Silent, n
    <2>4. CASE i - 1 \in 1..n
        <3>1. rest[i - 1] = events[i] /\ \A j \in (i - 1) + 1..n : j \in 1..n /\ j >= i
            BY <1>1, <1>2, <2>4
        <3> QED
            BY <2>1, <2>2, <2>4, <3>1 DEF Says, n
    <2> QED
        BY <1>2, <2>3, <2>4
<1> QED
    BY <1>1, <1>2, <1>3, <1>4 DEF event, rest, n

----
(* What a step of the pipeline announces. *)

(* Whoever does not move announces nothing. *)
LEMMA OnlyMovesEmit ==
    /\ \A w \in Workers : worker'[w] = worker[w] /\ claims' = claims => WorkerEmits(w) = {}
    /\ \A h \in Hooks : hook'[h] = hook[h] => HookEmits(h) = {}
    /\ \A r \in Reapers : reaper'[r] = reaper[r] => ReaperEmits(r) = {}
<1>1. ASSUME NEW w \in Workers, worker'[w] = worker[w], claims' = claims
      PROVE  WorkerEmits(w) = {}
    BY <1>1 DEF WorkerEmits
<1>2. ASSUME NEW h \in Hooks, hook'[h] = hook[h]
      PROVE  HookEmits(h) = {}
    BY <1>2 DEF HookEmits
<1>3. ASSUME NEW r \in Reapers, reaper'[r] = reaper[r]
      PROVE  ReaperEmits(r) = {}
    BY <1>3 DEF ReaperEmits
<1> QED
    BY <1>1, <1>2, <1>3

(* Every event is about a document there is. *)
LEMMA EventsAreTyped ==
    ASSUME TypeOK, StartedInv, FailedPresent, [Next]_vars, NEW event \in Emitted
    PROVE  event \in Events /\ docStatus[event.doc] # "absent"
<1>1. ASSUME NEW d \in Docs, docStatus[d] # "absent", NEW key \in Keys, NEW value \in Values,
             event = Event(d, key, value)
      PROVE  event \in Events /\ docStatus[event.doc] # "absent"
    BY <1>1 DEF Event, Events
<1>2. ASSUME NEW d \in Docs, docStatus[d] # "absent", NEW seen, NEW verdict \in Verdicts,
             event \in VerdictEvent(d, seen, verdict)
      PROVE  event \in Events /\ docStatus[event.doc] # "absent"
    BY <1>1, <1>2 DEF VerdictEvent, Keys, Values, Verdicts, DocStatuses
<1>3. ASSUME NEW w \in Workers, event \in WorkerEmits(w)
      PROVE  event \in Events /\ docStatus[event.doc] # "absent"
    <2>1. ~At(w, "idle")
        BY <1>3 DEF WorkerEmits, At
    <2>2. /\ DocOf(w) \in Docs /\ docStatus[DocOf(w)] # "absent" /\ StepOf(w) \in Steps
          /\ worker[w].verdict \in Verdicts
        BY <2>1, WorkerMoves, HandlesStarted DEF TypeOK, WorkerTypeOK, WorkerSessions
    <2>3. \/ \E value \in StepStatuses : event = Event(DocOf(w), StepOf(w), value)
          \/ \E s \in Steps : event = Event(DocOf(w), s, "queued")
          \/ event \in VerdictEvent(DocOf(w), worker[w].seen, worker[w].verdict)
        BY <1>3 DEF WorkerEmits, StepStatuses
    <2> QED
        BY <1>1, <1>2, <2>2, <2>3 DEF Keys, Values, StepStatuses
<1>4. ASSUME NEW h \in Hooks, event \in HookEmits(h)
      PROVE  event \in Events /\ docStatus[event.doc] # "absent"
    <2>1. PICK d \in hook[h].docs :
            \/ event = Event(d, ExternalCall, IF hook[h].ok THEN "done" ELSE "error")
            \/ event \in VerdictEvent(d, docStatus[d], hook[h].verdict)
        BY <1>4 DEF HookEmits
    <2>2. d \in Docs /\ docStatus[d] # "absent" /\ hook[h].verdict \in Verdicts
        <3>1. d \in Docs /\ hook[h].verdict \in Verdicts /\ <<d, ExternalCall>> \in Rows
            BY RowParts, DagAssumption DEF TypeOK, HookTypeOK, HookSessions
        <3>2. Started(<<d, ExternalCall>>)
            BY DEF StartedInv, HooksStarted
        <3> QED
            BY <3>1, <3>2 DEF StartedInv, RowsStarted
    <2>3. ExternalCall \in Keys /\ "done" \in Values /\ "error" \in Values
        BY DagAssumption DEF Keys, Values, StepStatuses
    <2> QED
        BY <1>1, <1>2, <2>1, <2>2, <2>3
<1>5. ASSUME NEW r \in Reapers, event \in ReaperEmits(r)
      PROVE  event \in Events /\ docStatus[event.doc] # "absent"
    <2>1. \/ \E step \in reaper[r].batch : event = Event(step.row[1], step.row[2], "error")
          \/ \E d \in reaper[r].failed : event \in VerdictEvent(d, docStatus[d], reaper[r].verdict)
        BY <1>5 DEF ReaperEmits
    <2>2. \A step \in reaper[r].batch :
            /\ step.row[1] \in Docs /\ step.row[2] \in Steps
            /\ docStatus[step.row[1]] # "absent"
        BY RowParts
        DEF TypeOK, ReaperTypeOK, ReaperSessions, LoadedRows, StartedInv, ReapersStarted,
            RowsStarted
    <2>3. /\ \A d \in reaper[r].failed : d \in Docs /\ docStatus[d] # "absent"
          /\ reaper[r].verdict \in Verdicts
        BY DEF TypeOK, ReaperTypeOK, ReaperSessions, FailedPresent
    <2> QED
        BY <1>1, <1>2, <2>1, <2>2, <2>3 DEF Keys, Values, StepStatuses
<1> QED
    BY <1>3, <1>4, <1>5 DEF Emitted


(* The kinds of steps: what changes and what is announced. *)

SameRow(row) == status'[row] = status[row] /\ attempts'[row] = attempts[row]

(* Nothing a client knows changes, and nothing is announced. *)
Quiet == Emitted = {} /\ UNCHANGED docStatus /\ \A row \in Rows : SameRow(row)

(* A row gets a status, which is announced. *)
RowAnnounced(row, value) ==
    /\ Emitted = {Event(row[1], row[2], value)} /\ status'[row] = value
    /\ UNCHANGED docStatus /\ \A other \in Rows \ {row} : SameRow(other)

(* A running row is handed back for a retry, which is not. *)
HandedBack(row) ==
    /\ Emitted = {} /\ status[row] = "running" /\ RetryPending(row)'
    /\ UNCHANGED docStatus /\ \A other \in Rows \ {row} : SameRow(other)

(* A document gets its status. *)
DocumentAnnounced(d, value) ==
    /\ Emitted = {Event(d, DocKey, value)} /\ docStatus'[d] = value
    /\ \A e \in Docs \ {d} : docStatus'[e] = docStatus[e]
    /\ \A row \in Rows : SameRow(row)

(* A document is uploaded, which no client knows of. *)
Uploaded(d) ==
    /\ Emitted = {} /\ docStatus[d] = "absent"
    /\ \A e \in Docs \ {d} : docStatus'[e] = docStatus[e]
    /\ \A row \in Rows : row[1] # d => SameRow(row)

Kinds ==
    \/ Quiet
    \/ \E row \in Rows : HandedBack(row) \/ \E value \in StepStatuses : RowAnnounced(row, value)
    \/ \E d \in Docs : Uploaded(d) \/ \E value \in Verdicts : DocumentAnnounced(d, value)

(* Who moves is who announces. *)
LEMMA EmittedByMover ==
    ASSUME TypeOK, claims' = claims
    PROVE  /\ UNCHANGED <<worker, hook, reaper>> => Emitted = {}
           /\ \A w \in Workers :
                 WorkerNext(w) /\ UNCHANGED <<hook, reaper>> => Emitted = WorkerEmits(w)
           /\ \A h \in Hooks :
                 HookNext(h) /\ UNCHANGED <<worker, reaper>> => Emitted = HookEmits(h)
           /\ \A r \in Reapers :
                 ReaperNext(r) /\ UNCHANGED <<worker, hook>> => Emitted = ReaperEmits(r)
<1>1. UNCHANGED worker => \A w \in Workers : WorkerEmits(w) = {}
    BY OnlyMovesEmit
<1>2. UNCHANGED hook => \A h \in Hooks : HookEmits(h) = {}
    BY OnlyMovesEmit
<1>3. UNCHANGED reaper => \A r \in Reapers : ReaperEmits(r) = {}
    BY OnlyMovesEmit
<1>4. ASSUME NEW w \in Workers, WorkerNext(w), UNCHANGED <<hook, reaper>>
      PROVE  Emitted = WorkerEmits(w)
    <2>1. \A v \in Workers \ {w} : WorkerEmits(v) = {}
        BY <1>4, OtherSessions, OnlyMovesEmit
    <2> QED
        BY <1>2, <1>3, <1>4, <2>1 DEF Emitted
<1>5. ASSUME NEW h \in Hooks, HookNext(h), UNCHANGED <<worker, reaper>>
      PROVE  Emitted = HookEmits(h)
    <2>1. \A g \in Hooks \ {h} : HookEmits(g) = {}
        BY <1>5, HookMoves, OnlyMovesEmit
    <2> QED
        BY <1>1, <1>3, <1>5, <2>1 DEF Emitted
<1>6. ASSUME NEW r \in Reapers, ReaperNext(r), UNCHANGED <<worker, hook>>
      PROVE  Emitted = ReaperEmits(r)
    <2>1. \A q \in Reapers \ {r} : ReaperEmits(q) = {}
        BY <1>6, ReaperMoves, OnlyMovesEmit
    <2> QED
        BY <1>1, <1>2, <1>6, <2>1 DEF Emitted
<1> QED
    BY <1>1, <1>2, <1>3, <1>4, <1>5, <1>6 DEF Emitted

(* The announcement of a write of a document's status. *)
LEMMA PersistAnnounced ==
    ASSUME TypeOK, NEW d \in Docs, NEW seen, NEW verdict \in Verdicts,
           Persist(d, seen, verdict), Emitted = VerdictEvent(d, seen, verdict),
           UNCHANGED <<status, attempts>>
    PROVE  Kinds
<1>1. CASE verdict = seen
    <2>1. UNCHANGED docStatus
        BY <1>1 DEF Persist, TypeOK, StoreTypeOK
    <2> QED
        BY <1>1, <2>1 DEF Kinds, Quiet, SameRow, VerdictEvent
<1>2. CASE verdict # seen
    BY <1>2 DEF Kinds, DocumentAnnounced, SameRow, VerdictEvent, Persist, TypeOK, StoreTypeOK
<1> QED
    BY <1>1, <1>2

(* The announcement of a write of a row's status. *)
LEMMA UpdateAnnounced ==
    ASSUME TypeOK, NEW row \in Rows, NEW value \in StepStatuses, SetStatus(row, value),
           Emitted = {Event(row[1], row[2], value)}, UNCHANGED docStatus,
           \A other \in Rows \ {row} : attempts'[other] = attempts[other]
    PROVE  Kinds
    BY UpdatesOne DEF Kinds, RowAnnounced, SameRow

(* A request announces the outcome it stores and the status it writes. *)
LEMMA HookAnnounces ==
    ASSUME TypeOK, ReadyInv, NEW h \in Hooks, HookNext(h), UNCHANGED <<worker, reaper>>
    PROVE  Kinds
<1> USE DEF HookAt
<1>1. claims' = claims
    BY DEF HookNext, HookStep, Receive, Apply, HookDerives, HookPersists, HookCrashes, Crash,
           transitionVars
<1>2. Emitted = HookEmits(h)
    BY <1>1, EmittedByMover
<1>3. hook[h].docs \subseteq Docs /\ hook[h].verdict \in Verdicts
    BY DEF TypeOK, HookTypeOK, HookSessions
<1>4. CASE Apply(h)
    <2> DEFINE value == IF hook[h].ok THEN "done" ELSE "error"
    <2>1. PICK d \in hook[h].docs : SetStatus(<<d, ExternalCall>>, value)
        BY <1>4 DEF Apply
    <2>2. hook[h].docs = {d}
        BY DEF ReadyInv, HooksBacked
    <2>3. hook[h].pc = "apply" /\ hook'[h].pc = "recompute" /\ crashes' = crashes
        BY <1>4 DEF Apply, TypeOK, HookTypeOK, HookSessions, transitionVars
    <2>4. Emitted = {Event(d, ExternalCall, value)}
        BY <1>2, <2>2, <2>3 DEF HookEmits
    <2>5. <<d, ExternalCall>> \in Rows /\ value \in StepStatuses
        BY <1>3, RowParts, DagAssumption DEF StepStatuses
    <2>6. UNCHANGED <<attempts, docStatus>>
        BY <1>4 DEF Apply
    <2> QED
        BY <2>1, <2>4, <2>5, <2>6, UpdateAnnounced
<1>5. CASE HookPersists(h)
    <2>1. PICK d \in hook[h].docs : Persist(d, docStatus[d], hook[h].verdict)
        BY <1>5 DEF HookPersists
    <2>2. hook[h].docs = {d}
        BY DEF ReadyInv, HooksBacked
    <2>3. /\ hook[h].pc = "persist" /\ hook'[h].pc = "idle" /\ crashes' = crashes
          /\ UNCHANGED <<status, attempts>>
        BY <1>5 DEF HookPersists, IdleHook, TypeOK, HookTypeOK, transitionVars
    <2>4. Emitted = VerdictEvent(d, docStatus[d], hook[h].verdict)
        BY <1>2, <2>2, <2>3 DEF HookEmits
    <2> QED
        BY <1>3, <2>1, <2>3, <2>4, PersistAnnounced
<1>6. ASSUME UNCHANGED <<status, attempts, docStatus>>, HookEmits(h) = {}
      PROVE  Kinds
    BY <1>2, <1>6 DEF Kinds, Quiet, SameRow
<1>7. CASE HookCrashes(h)
    <2>1. crashes' # crashes
        BY <1>7 DEF HookCrashes, Crash, TypeOK, TransitionTypeOK
    <2> QED
        BY <1>6, <1>7, <2>1 DEF HookCrashes, HookEmits, storeVars
<1>8. CASE HookDerives(h)
    <2>1. hook[h].pc = "recompute"
        BY <1>8 DEF HookDerives
    <2> QED
        BY <1>6, <1>8, <2>1 DEF HookDerives, HookEmits, storeVars
<1>9. CASE Receive(h)
    <2>1. hook[h].pc = "idle"
        BY <1>9 DEF Receive
    <2> QED
        BY <1>6, <1>9, <2>1 DEF Receive, HookEmits, storeVars
<1> QED
    BY <1>4, <1>5, <1>7, <1>8, <1>9 DEF HookNext, HookStep


(* A reaper announces the step it fails and the status it writes. *)
LEMMA ReaperAnnounces ==
    ASSUME TypeOK, ReadyInv, NEW r \in Reapers, ReaperNext(r), UNCHANGED <<worker, hook>>
    PROVE  Kinds
<1> USE DEF ReaperAt
<1>1. claims' = claims
    BY DEF ReaperNext, Wake, ReaperStep, ScanInFlight, ScanCallbacks, Scan, EndIteration,
           Fail, Republish, LeaveRunning, ReaperDerives, ReaperPersists, ReaperCrashes,
           Crash, transitionVars
<1>2. Emitted = ReaperEmits(r)
    BY <1>1, EmittedByMover
<1>3. reaper[r] \in ReaperSessions
    BY DEF TypeOK, ReaperTypeOK
<1>4. \A session : reaper' = [reaper EXCEPT ![r] = session] => reaper'[r] = session
    BY DEF TypeOK, ReaperTypeOK
<1>5. CASE Fail(r)
    <2>1. PICK step \in reaper[r].batch :
            /\ SetStatus(step.row, "error")
            /\ reaper' = [reaper EXCEPT ![r] =
                  [reaper[r] EXCEPT !.pc = "recompute", !.failed = {step.row[1]},
                                    !.batch = reaper[r].batch \ {step}]]
        BY <1>5 DEF Fail
    <2> DEFINE batch == reaper[r].batch \ {step}
               failed == {step.row[1]}
    <2>2. reaper'[r] = [reaper[r] EXCEPT !.pc = "recompute", !.failed = failed,
                                         !.batch = batch]
        BY <1>4, <2>1
    <2>3. reaper'[r].pc = "recompute" /\ reaper'[r].batch = batch
        <3> HIDE DEF batch, failed
        <3> QED
            BY <1>3, <2>2 DEF ReaperSessions
    <2>4. reaper[r].pc = "batch" /\ reaper[r].batch \ reaper'[r].batch = {step}
        BY <1>5, <2>3 DEF Fail
    <2>5. ReaperEmits(r) = {Event(s.row[1], s.row[2], "error") : s \in {step}}
        BY <2>3, <2>4 DEF ReaperEmits
    <2>6. step.row \in Rows /\ "error" \in StepStatuses
        BY <1>3 DEF ReaperSessions, LoadedRows, StepStatuses
    <2> QED
        BY <1>2, <1>5, <2>1, <2>5, <2>6, UpdateAnnounced DEF Fail
<1>6. CASE ReaperPersists(r)
    <2>1. PICK d \in reaper[r].failed : Persist(d, docStatus[d], reaper[r].verdict)
        BY <1>6 DEF ReaperPersists
    <2>2. reaper[r].failed = {d} /\ d \in Docs /\ reaper[r].verdict \in Verdicts
        BY <1>3 DEF ReadyInv, ReapersBacked, ReaperSessions
    <2>3. reaper'[r] = [reaper[r] EXCEPT !.pc = "batch", !.failed = {}]
        BY <1>4, <1>6 DEF ReaperPersists
    <2>4. reaper[r].pc = "persist" /\ reaper'[r].pc = "batch"
        BY <1>3, <1>6, <2>3 DEF ReaperPersists, ReaperSessions
    <2>5. Emitted = VerdictEvent(d, docStatus[d], reaper[r].verdict)
        BY <1>2, <2>2, <2>4 DEF ReaperEmits
    <2> QED
        BY <1>6, <2>1, <2>2, <2>5, PersistAnnounced DEF ReaperPersists
<1>7. ASSUME UNCHANGED <<status, attempts, docStatus>>,
             reaper'[r].pc # "recompute", reaper[r].pc # "persist"
      PROVE  Kinds
    BY <1>2, <1>7 DEF Kinds, Quiet, SameRow, ReaperEmits
<1>8. CASE ReaperCrashes(r)
    <2>1. reaper'[r].pc = "idle"
        BY <1>4, <1>8 DEF ReaperCrashes, IdleReaper
    <2>2. Emitted = {}
        BY <1>2, <2>1 DEF ReaperEmits
    <2> QED
        BY <1>8, <2>2 DEF ReaperCrashes, Kinds, Quiet, SameRow
<1>9. CASE ReaperDerives(r)
    <2>1. reaper[r].pc = "recompute"
        BY <1>9 DEF ReaperDerives
    <2>2. Emitted = {}
        BY <1>2, <2>1 DEF ReaperEmits
    <2> QED
        BY <1>9, <2>2 DEF ReaperDerives, Kinds, Quiet, SameRow, storeVars
<1>10. CASE ~Fail(r) /\ ~ReaperPersists(r) /\ ~ReaperCrashes(r) /\ ~ReaperDerives(r)
    <2>1. UNCHANGED <<status, attempts, docStatus>> /\ reaper[r].pc # "persist"
        BY <1>10
        DEF ReaperNext, Wake, ReaperStep, ScanInFlight, ScanCallbacks, Scan, EndIteration,
            Republish, LeaveRunning, storeVars
    <2>2. reaper'[r].pc # "recompute"
        BY <1>10, ReaperMoves
    <2> QED
        BY <1>7, <2>1, <2>2
<1> QED
    BY <1>5, <1>6, <1>8, <1>9, <1>10

(* So does an upload, and the clock: nothing. *)
LEMMA OthersAnnounce ==
    ASSUME TypeOK
    PROVE  /\ \A d \in Docs :
                 Upload(d) /\ UNCHANGED <<worker, hook, reaper>> => Kinds
           /\ \A row \in Rows :
                 Age(row) /\ UNCHANGED <<transitionVars, worker, hook, reaper>> => Kinds
           /\ UNCHANGED vars => Kinds
<1>1. ASSUME NEW d \in Docs, Upload(d), UNCHANGED <<worker, hook, reaper>>
      PROVE  Uploaded(d)
    <2>1. claims' = claims /\ Emitted = {}
        BY <1>1, EmittedByMover DEF Upload, transitionVars
    <2> QED
        BY <1>1, <2>1 DEF Upload, Uploaded, SameRow, TypeOK, StoreTypeOK
<1>2. ASSUME claims' = claims, UNCHANGED <<status, attempts, docStatus, worker, hook, reaper>>
      PROVE  Quiet
    BY <1>2, EmittedByMover DEF Quiet, SameRow
<1> QED
    BY <1>1, <1>2 DEF Kinds, Age, vars, storeVars, transitionVars


(* A claim that is won is announced once, whoever else is about to      *)
(* claim a step of the same document.                                   *)
LEMMA ClaimEmits ==
    ASSUME TypeOK, NEW w \in Workers, ClaimNext(w), UNCHANGED <<hook, reaper>>,
           NEW s \in Steps, <<DocOf(w), s>> \in Rows,
           claims' = [claims EXCEPT ![<<DocOf(w), s>>] = @ + 1]
    PROVE  Emitted = {Event(DocOf(w), s, "queued")}
<1>1. \A d \in Docs, t \in Steps :
        claims'[<<d, t>>] # claims[<<d, t>>] <=> d = DocOf(w) /\ t = s
    <2>1. PICK row \in Rows : row = <<DocOf(w), s>>
        OBVIOUS
    <2>2. \A other \in Rows :
            claims'[other] = IF other = row THEN claims[row] + 1 ELSE claims[other]
        BY <2>1 DEF TypeOK, TransitionTypeOK
    <2>3. claims[row] \in Nat
        BY DEF TypeOK, TransitionTypeOK
    <2>4. claims[row] + 1 # claims[row]
        BY ONLY <2>3
    <2>5. \A other \in Rows : claims'[other] # claims[other] <=> other = row
        BY <2>2, <2>4
    <2> QED
        BY <2>1, <2>5, RowParts
<1>2. /\ worker[w].pc = "recompute" /\ worker'[w].pc = "recompute"
      /\ DocOf(w)' = DocOf(w) /\ DocOf(w) \in Docs
    BY Triggers, RowParts DEF ClaimNext, At, KeepsMessage, DocOf
<1>3. ASSUME NEW v \in Workers
      PROVE  WorkerEmits(v) \subseteq {Event(DocOf(w), s, "queued")}
    <2>1. CASE worker'[v].pc = worker[v].pc /\ worker[v].pc = "recompute"
        <3>1. DocOf(v) \in Docs
            BY <2>1, WorkerMoves DEF At
        <3> QED
            BY <1>1, <2>1, <3>1 DEF WorkerEmits
    <2>2. CASE worker'[v].pc = worker[v].pc /\ worker[v].pc # "recompute"
        BY <2>2 DEF WorkerEmits
    <2> QED
        BY <1>2, <2>1, <2>2, OtherSessions DEF WorkerNext, WorkerStep
<1>4. WorkerEmits(w) = {Event(DocOf(w), s, "queued")}
    BY <1>1, <1>2 DEF WorkerEmits
<1> QED
    BY <1>3, <1>4, OnlyMovesEmit DEF Emitted

(* A worker announces what it writes, but for a retry; and, without     *)
(* overlap, what it announces is so even if it did not need to write.   *)
LEMMA WorkerAnnounces ==
    ASSUME TypeOK, DeliveryInv, NEW w \in Workers, WorkerNext(w), UNCHANGED <<hook, reaper>>
    PROVE  Kinds
<1> USE DEF At
<1> DEFINE d == DocOf(w)
           s == StepOf(w)
<1>own. PICK own : own = worker[w].row
    OBVIOUS
<1>0. ~At(w, "idle") => d \in Docs /\ own \in Rows /\ d = own[1] /\ s = own[2]
    BY <1>own, WorkerMoves DEF DocOf, StepOf
<1>1. claims' = claims => Emitted = WorkerEmits(w)
    BY EmittedByMover
<1>2. ASSUME UNCHANGED <<status, attempts, docStatus, claims>>, WorkerEmits(w) = {}
      PROVE  Kinds
    BY <1>1, <1>2 DEF Kinds, Quiet, SameRow
<1>3. Undecided(w) => status[own] = IF worker[w].pc \in {"check", "mark"}
                                    THEN worker[w].status ELSE "running"
    BY <1>own DEF DeliveryInv, SessionsFresh
<1>4. ASSUME NEW value \in StepStatuses, SetStatus(own, value), ~At(w, "idle"),
             UNCHANGED <<docStatus, claims>>,
             WorkerEmits(w) = {Event(DocOf(w), StepOf(w), value)},
             \A row \in Rows \ {own} : attempts'[row] = attempts[row]
      PROVE  Kinds
    BY <1>0, <1>1, <1>4, UpdateAnnounced
<1>5. CASE MarkRunning(w)
    <2>1. /\ worker[w].pc = "mark" /\ worker'[w].pc = "run"
          /\ UNCHANGED <<docStatus, claims, attempts>>
        BY <1>5, Moves DEF MarkRunning, transitionVars
    <2>2. WorkerEmits(w) = {Event(DocOf(w), StepOf(w), "running")}
        BY <2>1 DEF WorkerEmits
    <2>3. "running" \in StepStatuses
        BY DEF StepStatuses
    <2>4. CASE SetStatus(own, "running")
        BY <1>4, <2>1, <2>2, <2>3, <2>4
    <2>5. CASE worker[w].status = "running" /\ UNCHANGED status
        <3>1. status'[own] = "running"
            BY <1>3, <2>1, <2>5 DEF Undecided
        <3>2. RowAnnounced(own, "running")
            BY <1>0, <1>1, <2>1, <2>2, <2>5, <3>1 DEF RowAnnounced, SameRow
        <3> QED
            BY <1>0, <2>1, <2>3, <3>2 DEF Kinds
    <2> QED
        BY <1>5, <1>own, <2>4, <2>5 DEF MarkRunning
<1>6. CASE SaveOutput(w)
    <2>1. /\ worker[w].pc = "run" /\ worker'[w].pc = "trigger"
          /\ UNCHANGED <<docStatus, claims, attempts>> /\ SetStatus(own, "done")
        BY <1>6, <1>own, Moves DEF SaveOutput, transitionVars
    <2>2. WorkerEmits(w) = {Event(DocOf(w), StepOf(w), "done")}
        BY <2>1 DEF WorkerEmits
    <2> QED
        BY <1>4, <2>1, <2>2 DEF StepStatuses
<1>7. CASE SaveJob(w)
    <2>1. /\ worker[w].pc = "called" /\ worker'[w].pc = "ack"
          /\ UNCHANGED <<docStatus, claims, attempts>> /\ SetStatus(own, "awaiting_callback")
        BY <1>7, <1>own, Moves DEF SaveJob, transitionVars
    <2>2. WorkerEmits(w) = {Event(DocOf(w), StepOf(w), "awaiting_callback")}
        BY <2>1 DEF WorkerEmits
    <2> QED
        BY <1>4, <2>1, <2>2 DEF StepStatuses
<1>8. CASE StepFails(w)
    <2> DEFINE n == worker[w].attempts + 1
    <2>1. /\ worker[w].pc = "run" /\ UNCHANGED <<docStatus, claims>>
          /\ attempts' = [attempts EXCEPT ![own] = n]
        BY <1>8, <1>own DEF StepFails, transitionVars
    <2>2. own \in Rows /\ \A row \in Rows \ {own} : attempts'[row] = attempts[row]
        BY <1>0, <2>1 DEF TypeOK, StoreTypeOK
    <2>3. CASE SetStatus(own, "error") /\ Goto(w, "recompute")
        <3>1. worker'[w].pc = "recompute"
            BY <2>3, Moves
        <3>2. WorkerEmits(w) = {Event(DocOf(w), StepOf(w), "error")}
            BY <2>1, <3>1 DEF WorkerEmits
        <3> QED
            BY <1>4, <2>1, <2>2, <2>3, <3>2 DEF StepStatuses
    <2>4. CASE SetStatus(own, "queued") /\ Finish(w)
        <3>1. worker'[w].pc = "idle"
            BY <2>4, Finishes DEF IdleWorker
        <3>2. Emitted = {}
            BY <1>1, <2>1, <3>1 DEF WorkerEmits
        <3>3. status[own] = "running"
            BY <1>3, <2>1 DEF Undecided
        <3>4. status'[own] = "queued" /\ \A row \in Rows \ {own} : status'[row] = status[row]
            BY <2>2, <2>4, UpdatesOne
        <3>5. attempts'[own] = n /\ n > 0
            BY <2>1, <2>2 DEF TypeOK, StoreTypeOK, WorkerTypeOK, WorkerSessions
        <3>6. HandedBack(own)
            BY <2>1, <2>2, <3>2, <3>3, <3>4, <3>5 DEF HandedBack, SameRow, RetryPending
        <3> QED
            BY <2>2, <3>6 DEF Kinds
    <2> QED
        BY <1>8, <1>own, <2>3, <2>4 DEF StepFails
<1>9. CASE ClaimNext(w)
    <2>1. PICK t \in worker[w].todo : ClaimAndPublish(<<DocOf(w), t>>)
        BY <1>9 DEF ClaimNext
    <2>2. /\ worker[w].pc = "recompute" /\ worker'[w].pc = "recompute"
          /\ UNCHANGED <<attempts, docStatus>> /\ DocOf(w)' = DocOf(w)
        BY <1>9, Triggers DEF ClaimNext, KeepsMessage, DocOf
    <2>3. t \in Steps /\ <<DocOf(w), t>> \in Rows /\ DocOf(w) \in Docs
        BY <1>0, <2>2, RowParts DEF TypeOK, WorkerTypeOK, WorkerSessions
    <2>4. CASE UNCHANGED <<status, claims>>
        BY <1>2, <2>2, <2>4 DEF WorkerEmits
    <2>5. CASE /\ SetStatus(<<DocOf(w), t>>, "queued")
               /\ claims' = [claims EXCEPT ![<<DocOf(w), t>>] = @ + 1]
        <3>1. Emitted = {Event(DocOf(w), t, "queued")}
            BY <1>9, <2>3, <2>5, ClaimEmits
        <3> QED
            BY <2>2, <2>3, <2>5, <3>1, UpdateAnnounced DEF StepStatuses
    <2> QED
        BY <2>1, <2>4, <2>5 DEF ClaimAndPublish
<1>10. CASE WorkerPersists(w)
    <2>1. /\ worker[w].pc = "persist" /\ worker'[w].pc = "ack"
          /\ Persist(DocOf(w), worker[w].seen, worker[w].verdict)
          /\ UNCHANGED <<status, attempts, claims>>
        BY <1>10, Moves DEF WorkerPersists, transitionVars
    <2>2. Emitted = VerdictEvent(DocOf(w), worker[w].seen, worker[w].verdict)
        BY <1>1, <2>1 DEF WorkerEmits
    <2>3. DocOf(w) \in Docs /\ worker[w].verdict \in Verdicts
        BY <1>0, <2>1 DEF TypeOK, WorkerTypeOK, WorkerSessions
    <2> QED
        BY <2>1, <2>2, <2>3, PersistAnnounced
<1>11. CASE \/ Deliver(w) \/ CheckDocument(w) \/ CallPartner(w) \/ ReadReady(w)
            \/ WorkerDerives(w) \/ Acknowledge(w) \/ WorkerCrashes(w) \/ LoseConnection(w)
    <2>1. UNCHANGED <<status, attempts, docStatus, claims>>
        BY <1>11
        DEF Deliver, CheckDocument, CallPartner, ReadReady, WorkerDerives, Acknowledge,
            WorkerCrashes, LoseConnection, Crash, storeVars, transitionVars
    <2>2. \A t \in Steps : claims'[<<DocOf(w), t>>] = claims[<<DocOf(w), t>>]
        BY <2>1
    <2>3. CASE Finish(w)
        <3>1. worker'[w].pc = "idle"
            BY <2>3, Finishes DEF IdleWorker
        <3> QED
            BY <1>2, <2>1, <3>1 DEF WorkerEmits
    <2>4. CASE Deliver(w)
        <3>1. worker[w].pc = "idle"
            BY <2>4 DEF Deliver
        <3> QED
            BY <1>2, <2>1, <3>1 DEF WorkerEmits
    <2>5. CASE CheckDocument(w)
        <3>1. worker[w].pc = "check"
            BY <2>5 DEF CheckDocument
        <3> QED
            BY <1>2, <2>1, <3>1 DEF WorkerEmits
    <2>6. CASE CallPartner(w) \/ WorkerDerives(w)
        <3>1. worker'[w].pc = "called" \/ worker'[w].pc = "persist"
            BY <2>6, Calls, Derives
        <3> QED
            BY <1>2, <2>1, <3>1 DEF WorkerEmits
    <2>7. CASE ReadReady(w)
        <3>1. worker[w].pc = "trigger"
            BY <2>7 DEF ReadReady
        <3> QED
            BY <1>2, <2>1, <3>1 DEF WorkerEmits
    <2>8. CASE LoseConnection(w)
        <3>1. worker'[w].pc = worker[w].pc
            BY <2>8, Disconnects
        <3> QED
            BY <1>2, <2>1, <2>2, <3>1 DEF WorkerEmits
    <2> QED
        BY <1>11, <2>3, <2>4, <2>5, <2>6, <2>7, <2>8 DEF Acknowledge, WorkerCrashes
<1> QED
    BY <1>5, <1>6, <1>7, <1>8, <1>9, <1>10, <1>11 DEF WorkerNext, WorkerStep

(* Every step is of one of the kinds, as long as nothing overlaps. *)
LEMMA EveryStepAnnounces ==
    ASSUME TypeOK, ReadyInv, DeliveryInv, [Next]_vars
    PROVE  Kinds
    BY WorkerAnnounces, HookAnnounces, ReaperAnnounces, OthersAnnounce DEF Next, vars


(* No transaction announces two changes, overlap or not. *)
LEMMA OneEvent ==
    ASSUME TypeOK, ReadyInv, [Next]_vars
    PROVE  \A e, f \in Emitted : e = f
<1>1. Kinds => \A e, f \in Emitted : e = f
    BY DEF Kinds, Quiet, HandedBack, RowAnnounced, Uploaded, DocumentAnnounced
<1>2. ASSUME NEW w \in Workers, WorkerNext(w), UNCHANGED <<hook, reaper>>
      PROVE  \A e, f \in Emitted : e = f
    <2>1. CASE claims' = claims
        <3>1. Emitted = WorkerEmits(w)
            BY <1>2, <2>1, EmittedByMover
        <3> QED
            BY <2>1, <3>1 DEF WorkerEmits, VerdictEvent
    <2>2. CASE claims' # claims
        <3>1. ClaimNext(w)
            BY <1>2, <2>2
            DEF WorkerNext, WorkerStep, Deliver, CheckDocument, MarkRunning, SaveOutput,
                CallPartner, SaveJob, StepFails, ReadReady, WorkerDerives, WorkerPersists,
                Acknowledge, WorkerCrashes, LoseConnection, Crash, transitionVars
        <3>2. PICK s \in worker[w].todo :
                claims' = [claims EXCEPT ![<<DocOf(w), s>>] = @ + 1]
            BY <2>2, <3>1 DEF ClaimNext, ClaimAndPublish
        <3>3. s \in Steps /\ <<DocOf(w), s>> \in Rows
            BY <3>1, WorkerMoves, RowParts
            DEF ClaimNext, At, TypeOK, WorkerTypeOK, WorkerSessions
        <3> QED
            BY <1>2, <3>1, <3>2, <3>3, ClaimEmits
    <2> QED
        BY <2>1, <2>2
<1> QED
    BY <1>1, <1>2, HookAnnounces, ReaperAnnounces, OthersAnnounce DEF Next, vars

(* What was right about k before a step is right after it. *)
Unmoved(d, k) == \A value : Agrees(d, k, value) => Agrees(d, k, value)'

(* An announcement is right, and what moves is announced. *)
LEMMA AnnouncedRight ==
    ASSUME TypeOK, Kinds
    PROVE  /\ \A event \in Emitted : Agrees(event.doc, event.key, event.value)'
           /\ \A d \in Docs, k \in Keys :
                 docStatus[d] # "absent" =>
                    \/ Unmoved(d, k)
                    \/ Emitted # {} /\ \A event \in Emitted : About(event, d, k)
<1>1. ASSUME NEW d \in Docs, NEW k \in Keys, k # DocKey, SameRow(<<d, k>>)
      PROVE  Unmoved(d, k)
    BY <1>1 DEF Unmoved, Agrees, RetryPending, SameRow
<1>2. ASSUME NEW d \in Docs, docStatus'[d] = docStatus[d]
      PROVE  Unmoved(d, DocKey)
    BY <1>2 DEF Unmoved, Agrees
<1>3. \A d \in Docs, k \in Keys : k # DocKey => <<d, k>> \in Rows
    BY DEF Keys, Rows
<1>4. CASE Quiet
    BY <1>1, <1>2, <1>3, <1>4 DEF Quiet
<1>5. ASSUME NEW row \in Rows, HandedBack(row)
      PROVE  \A d \in Docs, k \in Keys : Unmoved(d, k)
    <2> SUFFICES ASSUME NEW d \in Docs, NEW k \in Keys
                 PROVE  Unmoved(d, k)
        OBVIOUS
    <2>1. CASE row = <<d, k>> /\ k # DocKey
        BY <1>5, <2>1 DEF HandedBack, Unmoved, Agrees, RetryPending
    <2> QED
        BY <1>1, <1>2, <1>3, <1>5, <2>1 DEF HandedBack
<1>6. ASSUME NEW row \in Rows, NEW value \in StepStatuses, RowAnnounced(row, value)
      PROVE  /\ \A event \in Emitted : Agrees(event.doc, event.key, event.value)'
             /\ \A d \in Docs, k \in Keys :
                   Unmoved(d, k) \/ \A event \in Emitted : About(event, d, k)
    <2>1. row = <<row[1], row[2]>> /\ row[2] \in Steps /\ row[2] # DocKey
        BY RowParts, StreamAssumption
    <2>2. ASSUME NEW event \in Emitted
          PROVE  event.doc = row[1] /\ event.key = row[2] /\ event.value = value
        BY <1>6 DEF RowAnnounced, Event
    <2>3. \A event \in Emitted : Agrees(event.doc, event.key, event.value)'
        BY <1>6, <2>1, <2>2 DEF RowAnnounced, Agrees
    <2>4. ASSUME NEW d \in Docs, NEW k \in Keys
          PROVE  Unmoved(d, k) \/ \A event \in Emitted : About(event, d, k)
        <3>1. CASE d = row[1] /\ k = row[2]
            BY <2>2, <3>1 DEF About
        <3>2. CASE ~(d = row[1] /\ k = row[2])
            <4>1. <<d, k>> # row
                BY <2>1, <3>2
            <4> QED
                BY <1>1, <1>2, <1>3, <1>6, <4>1 DEF RowAnnounced
        <3> QED
            BY <3>1, <3>2
    <2> QED
        BY <2>3, <2>4
<1>7. ASSUME NEW e \in Docs, Uploaded(e)
      PROVE  \A d \in Docs, k \in Keys : docStatus[d] # "absent" => Unmoved(d, k)
    BY <1>1, <1>2, <1>3, <1>7 DEF Uploaded
<1>8. ASSUME NEW e \in Docs, NEW value \in Verdicts, DocumentAnnounced(e, value)
      PROVE  /\ \A event \in Emitted : Agrees(event.doc, event.key, event.value)'
             /\ \A d \in Docs, k \in Keys :
                   Unmoved(d, k) \/ \A event \in Emitted : About(event, d, k)
    <2>1. ASSUME NEW event \in Emitted
          PROVE  event.doc = e /\ event.key = DocKey /\ event.value = value
        BY <1>8 DEF DocumentAnnounced, Event
    <2>2. \A event \in Emitted : Agrees(event.doc, event.key, event.value)'
        BY <1>8, <2>1 DEF DocumentAnnounced, Agrees
    <2>3. ASSUME NEW d \in Docs, NEW k \in Keys, ~(d = e /\ k = DocKey)
          PROVE  Unmoved(d, k)
        BY <1>1, <1>2, <1>3, <1>8, <2>3 DEF DocumentAnnounced
    <2> QED
        BY <2>1, <2>2, <2>3 DEF About
<1>9. Emitted = {} \/ Emitted # {}
    OBVIOUS
<1>10. \A row \in Rows : HandedBack(row) => Emitted = {}
    BY DEF HandedBack
<1>11. \A row, value : RowAnnounced(row, value) => Emitted # {}
    BY DEF RowAnnounced
<1>12. \A d, value : /\ Uploaded(d) => Emitted = {}
                     /\ DocumentAnnounced(d, value) => Emitted # {}
    BY DEF Uploaded, DocumentAnnounced
<1>13. Quiet => Emitted = {}
    BY DEF Quiet
<1>14. CASE \E row \in Rows : HandedBack(row)
    BY <1>5, <1>10, <1>14
<1>15. CASE \E row \in Rows : \E value \in StepStatuses : RowAnnounced(row, value)
    BY <1>6, <1>11, <1>15
<1>16. CASE \E d \in Docs : Uploaded(d)
    BY <1>7, <1>12, <1>16
<1>17. CASE \E d \in Docs : \E value \in Verdicts : DocumentAnnounced(d, value)
    BY <1>8, <1>12, <1>17
<1> QED
    BY <1>4, <1>13, <1>14, <1>15, <1>16, <1>17 DEF Kinds


----
(* What a client's steps do to its connection. *)

(* Of a connection these stay. *)
KeepsStream(c) ==
    /\ client'[c].doc = client[c].doc /\ client'[c].dropped = client[c].dropped
    /\ client'[c].queue = client[c].queue

Connects(c) ==
    /\ client[c].pc = "away" /\ client'[c].pc = "subscribed"
    /\ client'[c].doc \in Docs /\ docStatus[client'[c].doc] # "absent"
    /\ client'[c].queue = <<>> /\ ~client'[c].covered

ReadsDocument(c) ==
    /\ client[c].pc = "subscribed" /\ client'[c].pc = "steps" /\ KeepsStream(c)
    /\ client'[c].covered = (listener = "listening")
    /\ client'[c].view[DocKey] = docStatus[client[c].doc]

ReadsSteps(c) ==
    /\ client[c].pc = "steps" /\ client'[c].pc = "live" /\ KeepsStream(c)
    /\ client'[c].covered = client[c].covered
    /\ client'[c].view[DocKey] = client[c].view[DocKey]
    /\ \A s \in Steps : client'[c].view[s] = status[<<client[c].doc, s>>]

SendsEvent(c) ==
    /\ client[c].pc = "live" /\ client'[c].pc = "live"
    /\ client[c].queue # <<>> /\ client'[c].queue = Tail(client[c].queue)
    /\ client'[c].doc = client[c].doc /\ client'[c].dropped = client[c].dropped
    /\ client'[c].covered = client[c].covered
    /\ \A k \in Keys : client'[c].view[k] = IF k = Head(client[c].queue).key
                                            THEN Head(client[c].queue).value
                                            ELSE client[c].view[k]

Disconnected(c) ==
    client'[c].pc = "away" /\ client'[c].queue = <<>> /\ ~client'[c].covered

(* A client that is away is typed as the others are. *)
LEMMA AwayTyped == Away \in Streams /\ Away.queue = <<>> /\ ~Away.covered
<1>1. "absent" \in Values
    BY DEF Values, StepStatuses, DocStatuses
<1>2. [k \in Keys |-> "absent"] \in [Keys -> Values] /\ <<>> \in Seq(Events)
    BY <1>1
<1> QED
    BY <1>2 DEF Away, Streams

LEMMA ClientMoves ==
    ASSUME StreamTypeOK, EventsPresent, NEW c \in Watchers, ClientStep(c)
    PROVE  /\ UNCHANGED <<vars, listener, channel>>
           /\ \A b \in Watchers \ {c} : client'[b] = client[b]
           /\ client' \in [Watchers -> Streams]
           /\ \/ Connects(c) \/ ReadsDocument(c) \/ ReadsSteps(c) \/ SendsEvent(c)
              \/ Disconnected(c)
<1>0. client \in [Watchers -> Streams] /\ client[c] \in Streams
    BY DEF StreamTypeOK
<1>1. ASSUME NEW session \in Streams, client' = [client EXCEPT ![c] = session]
      PROVE  /\ client'[c] = session /\ client' \in [Watchers -> Streams]
             /\ \A b \in Watchers \ {c} : client'[b] = client[b]
    BY <1>0, <1>1
<1>2. /\ client[c].view \in [Keys -> Values] /\ client[c].queue \in Seq(Events)
      /\ client[c].doc \in Docs \cup {NoDoc} /\ client[c].dropped \in BOOLEAN
      /\ client[c].covered \in BOOLEAN
    BY <1>0 DEF Streams
<1>3. client[c].pc # "away" => client[c].doc \in Docs
    BY DEF EventsPresent
<1>4. /\ \A d \in Docs : docStatus[d] \in Values
      /\ \A d \in Docs, s \in Steps : status[<<d, s>>] \in Values
    BY RowParts DEF StreamTypeOK, TypeOK, StoreTypeOK, Values
<1>5. CASE Connect(c)
    <2>1. PICK d \in Docs :
            /\ docStatus[d] # "absent"
            /\ client' = [client EXCEPT ![c] = [Away EXCEPT !.pc = "subscribed", !.doc = d]]
        BY <1>5 DEF Connect
    <2> DEFINE session == [Away EXCEPT !.pc = "subscribed", !.doc = d]
    <2>2. /\ session \in Streams /\ session.pc = "subscribed" /\ session.doc = d
          /\ session.queue = <<>> /\ ~session.covered
        BY AwayTyped DEF Streams
    <2> HIDE DEF session
    <2> QED
        BY <1>1, <1>5, <2>1, <2>2 DEF Connect, Connects, session
<1>6. CASE ReadDocument(c)
    <2> DEFINE covered == listener = "listening"
               view == [client[c].view EXCEPT ![DocKey] = docStatus[client[c].doc]]
               session == [client[c] EXCEPT !.pc = "steps", !.covered = covered,
                                            !.view = view]
    <2>1. client' = [client EXCEPT ![c] = session] /\ client[c].pc = "subscribed"
        BY <1>6 DEF ReadDocument
    <2>2. view \in [Keys -> Values] /\ view[DocKey] = docStatus[client[c].doc]
        BY <1>2, <1>3, <1>4, <2>1 DEF Keys
    <2>3. covered \in BOOLEAN
        OBVIOUS
    <2>4. /\ session \in Streams /\ session.pc = "steps" /\ session.covered = covered
          /\ session.view = view /\ session.doc = client[c].doc
          /\ session.queue = client[c].queue /\ session.dropped = client[c].dropped
        <3> HIDE DEF view, covered
        <3> QED
            BY <1>0, <2>2, <2>3 DEF Streams
    <2> HIDE DEF session
    <2> QED
        BY <1>1, <1>6, <2>1, <2>2, <2>4 DEF ReadDocument, ReadsDocument, KeepsStream
<1>7. CASE ReadSteps(c)
    <2> DEFINE view == [k \in Keys |-> IF k = DocKey THEN client[c].view[DocKey]
                                                     ELSE status[<<client[c].doc, k>>]]
               session == [client[c] EXCEPT !.pc = "live", !.view = view]
    <2>1. client' = [client EXCEPT ![c] = session] /\ client[c].pc = "steps"
        BY <1>7 DEF ReadSteps
    <2>2. /\ view \in [Keys -> Values] /\ view[DocKey] = client[c].view[DocKey]
          /\ \A s \in Steps : view[s] = status[<<client[c].doc, s>>]
        BY <1>2, <1>3, <1>4, <2>1, StreamAssumption DEF Keys
    <2>3. /\ session \in Streams /\ session.pc = "live" /\ session.view = view
          /\ session.covered = client[c].covered /\ session.doc = client[c].doc
          /\ session.queue = client[c].queue /\ session.dropped = client[c].dropped
        <3> HIDE DEF view
        <3> QED
            BY <1>0, <2>2 DEF Streams
    <2> HIDE DEF session, view
    <2>4. client'[c] = session
        BY <1>1, <2>1, <2>3
    <2>5. ReadsSteps(c)
        BY <2>1, <2>2, <2>3, <2>4 DEF ReadsSteps, KeepsStream
    <2> QED
        BY <1>1, <1>7, <2>1, <2>3, <2>5 DEF ReadSteps
<1>8. CASE SendEvent(c)
    <2> DEFINE event == Head(client[c].queue)
               rest == Tail(client[c].queue)
               view == [client[c].view EXCEPT ![event.key] = event.value]
               session == [client[c] EXCEPT !.queue = rest, !.view = view]
    <2>1. client[c].pc = "live" /\ client[c].queue # <<>>
        BY <1>8 DEF SendEvent
    <2>2. event \in Events /\ rest \in Seq(Events)
        BY <1>2, <2>1, TailSays
    <2>3. client' = [client EXCEPT ![c] = session]
        BY <1>0, <1>8 DEF SendEvent, Streams
    <2>4. /\ view \in [Keys -> Values]
          /\ \A k \in Keys : view[k] = IF k = event.key THEN event.value ELSE client[c].view[k]
        BY <1>2, <2>2 DEF Events
    <2>5. /\ session \in Streams /\ session.pc = "live" /\ session.view = view
          /\ session.covered = client[c].covered /\ session.doc = client[c].doc
          /\ session.queue = rest /\ session.dropped = client[c].dropped
        <3> HIDE DEF view, rest
        <3> QED
            BY <1>0, <2>1, <2>2, <2>4 DEF Streams
    <2> HIDE DEF session
    <2> QED
        BY <1>1, <1>8, <2>1, <2>3, <2>4, <2>5 DEF SendEvent, SendsEvent
<1>9. CASE Disconnect(c)
    <2>1. Away.pc = "away"
        BY DEF Away
    <2> QED
        BY <1>1, <1>9, <2>1, AwayTyped DEF Disconnect, Disconnected
<1> QED
    BY <1>5, <1>6, <1>7, <1>8, <1>9 DEF ClientStep


(* What the listener does to each connection. *)
Offered(c, event) ==
    /\ client'[c].pc = client[c].pc /\ client'[c].doc = client[c].doc
    /\ client'[c].covered = client[c].covered /\ client'[c].view = client[c].view
    /\ \/ ~Subscribed(c, event.doc) /\ KeepsStream(c)
       \/ /\ Subscribed(c, event.doc) /\ Len(client[c].queue) < QueueSize
          /\ client'[c].queue = Append(client[c].queue, event)
          /\ client'[c].dropped = client[c].dropped
       \/ client'[c].dropped /\ client'[c].queue = client[c].queue

LEMMA DispatchMoves ==
    ASSUME StreamTypeOK, Dispatch
    PROVE  /\ channel # <<>> /\ channel' = Tail(channel) /\ UNCHANGED <<vars, listener>>
           /\ client' \in [Watchers -> Streams]
           /\ \A c \in Watchers : Offered(c, Head(channel))
<1> DEFINE event == Head(channel)
<1>1. channel # <<>> /\ channel \in Seq(Events) /\ event \in Events
    BY TailSays DEF Dispatch, StreamTypeOK
<1>2. client' = [c \in Watchers |->
          IF Subscribed(c, event.doc) THEN Offer(client[c], event) ELSE client[c]]
    BY DEF Dispatch
<1> HIDE DEF event
<1>3. ASSUME NEW c \in Watchers
      PROVE  client'[c] \in Streams /\ Offered(c, event)
    <2>0. client[c] \in Streams /\ client[c].queue \in Seq(Events)
        BY DEF StreamTypeOK, Streams
    <2>1. CASE ~Subscribed(c, event.doc)
        BY <1>2, <2>0, <2>1 DEF Offered, KeepsStream
    <2>2. CASE Subscribed(c, event.doc) /\ Len(client[c].queue) < QueueSize
        <3> DEFINE longer == Append(client[c].queue, event)
        <3>1. longer \in Seq(Events)
            BY <1>1, <2>0, AppendedSays
        <3>2. client'[c] = [client[c] EXCEPT !.queue = longer]
            BY <1>2, <2>2 DEF Offer
        <3>3. /\ client'[c] \in Streams /\ client'[c].queue = longer
              /\ client'[c].dropped = client[c].dropped
              /\ client'[c].pc = client[c].pc /\ client'[c].doc = client[c].doc
              /\ client'[c].covered = client[c].covered /\ client'[c].view = client[c].view
            <4> HIDE DEF longer
            <4> QED
                BY <2>0, <3>1, <3>2 DEF Streams
        <3> QED
            BY <2>2, <3>3 DEF Offered
    <2>3. CASE Subscribed(c, event.doc) /\ ~(Len(client[c].queue) < QueueSize)
        <3>1. client'[c] = [client[c] EXCEPT !.dropped = TRUE]
            BY <1>2, <2>3 DEF Offer
        <3> QED
            BY <2>0, <2>3, <3>1 DEF Offered, Streams
    <2> QED
        BY <2>1, <2>2, <2>3
<1>4. client' \in [Watchers -> Streams]
    BY <1>2, <1>3
<1> QED
    BY <1>1, <1>3, <1>4 DEF Dispatch, event

----
(* Types, the quiet before the listener, and whose events these are.    *)

(* A step of the pipeline adds one event at most. *)
LEMMA PipelineKeepsPlain ==
    ASSUME TypeOK, TypeOK', StartedInv, FailedPresent, PlainInv, PipelineStep
    PROVE  PlainInv'
<1>1. \A d \in Docs : docStatus[d] # "absent" => docStatus'[d] # "absent"
    BY NextKeepsStarted DEF PipelineStep, Forward
<1>2. /\ channel \in Seq(Events) /\ UNCHANGED <<client, listener>>
      /\ \A i \in 1..Len(channel) : channel[i] \in Events /\ channel[i].doc \in Docs
    <2>1. channel \in Seq(Events)
        BY DEF PlainInv, StreamTypeOK
    <2>2. \A i \in 1..Len(channel) : channel[i] \in Events
        BY <2>1
    <2>3. \A event \in Events : event.doc \in Docs
        BY DEF Events
    <2> QED
        BY <2>1, <2>2, <2>3 DEF PipelineStep
<1>3. CASE UNCHANGED channel
    BY <1>1, <1>2, <1>3 DEF PlainInv, StreamTypeOK, StartQuiet, EventsPresent
<1>4. ASSUME listener = "listening", NEW event \in Emitted, channel' = Append(channel, event)
      PROVE  PlainInv'
    <2>1. event \in Events /\ event.doc \in Docs /\ docStatus[event.doc] # "absent"
        BY <1>4, EventsAreTyped DEF PipelineStep, Events
    <2>2. /\ channel' \in Seq(Events) /\ Len(channel') = Len(channel) + 1
          /\ \A i \in 1..Len(channel') : channel'[i] = event \/
                (i \in 1..Len(channel) /\ channel'[i] = channel[i])
        BY <1>2, <1>4, <2>1
    <2>3. \A i \in 1..Len(channel') : docStatus'[channel'[i].doc] # "absent"
        BY <1>1, <1>2, <2>1, <2>2 DEF PlainInv, EventsPresent
    <2> QED
        BY <1>1, <1>2, <1>4, <2>2, <2>3 DEF PlainInv, StreamTypeOK, StartQuiet, EventsPresent
<1> QED
    BY <1>3, <1>4 DEF PipelineStep

LEMMA DispatchKeepsPlain ==
    ASSUME TypeOK', PlainInv, Dispatch
    PROVE  PlainInv'
<1>1. /\ channel # <<>> /\ channel' = Tail(channel) /\ UNCHANGED <<vars, listener>>
      /\ client' \in [Watchers -> Streams] /\ \A c \in Watchers : Offered(c, Head(channel))
    BY DispatchMoves DEF PlainInv
<1>2. /\ channel \in Seq(Events) /\ Head(channel) \in Events /\ channel' \in Seq(Events)
      /\ \A i \in 1..Len(channel') : i + 1 \in 1..Len(channel) /\ channel'[i] = channel[i + 1]
    BY <1>1, TailSays DEF PlainInv, StreamTypeOK
<1>3. UNCHANGED docStatus
    BY <1>1 DEF vars, storeVars
<1>4. StartQuiet'
    BY <1>1 DEF PlainInv, StartQuiet
<1>5. ASSUME NEW c \in Watchers
      PROVE  /\ Len(client'[c].queue) <= QueueSize
             /\ client'[c].pc # "away" =>
                  \A i \in 1..Len(client'[c].queue) :
                     client'[c].queue[i].doc = client'[c].doc
    <2>1. /\ client[c].queue \in Seq(Events) /\ Len(client[c].queue) <= QueueSize
          /\ client[c].pc # "away" =>
                \A i \in 1..Len(client[c].queue) : client[c].queue[i].doc = client[c].doc
        BY DEF PlainInv, StreamTypeOK, EventsPresent, Streams
    <2>2. CASE client'[c].queue = client[c].queue
        BY <1>1, <2>1, <2>2 DEF Offered
    <2>3. CASE /\ Subscribed(c, Head(channel).doc) /\ Len(client[c].queue) < QueueSize
               /\ client'[c].queue = Append(client[c].queue, Head(channel))
        <3>1. /\ Len(client'[c].queue) = Len(client[c].queue) + 1
              /\ \A i \in 1..Len(client'[c].queue) :
                    \/ client'[c].queue[i] = Head(channel)
                    \/ i \in 1..Len(client[c].queue)
                          /\ client'[c].queue[i] = client[c].queue[i]
            BY <1>2, <2>1, <2>3
        <3>2. Len(client'[c].queue) <= QueueSize
            BY <2>1, <2>3, <3>1, StreamAssumption
        <3> QED
            BY <1>1, <2>1, <2>3, <3>1, <3>2 DEF Offered, Subscribed
    <2> QED
        BY <1>1, <2>2, <2>3 DEF Offered, KeepsStream
<1>6. EventsPresent'
    BY <1>1, <1>2, <1>3, <1>5 DEF PlainInv, EventsPresent, Offered
<1> QED
    BY <1>1, <1>2, <1>4, <1>5, <1>6 DEF PlainInv, StreamTypeOK

LEMMA ClientKeepsPlain ==
    ASSUME TypeOK', PlainInv, NEW c \in Watchers, ClientStep(c)
    PROVE  PlainInv'
<1>1. /\ UNCHANGED <<vars, listener, channel>>
      /\ \A b \in Watchers \ {c} : client'[b] = client[b]
      /\ client' \in [Watchers -> Streams]
      /\ \/ Connects(c) \/ ReadsDocument(c) \/ ReadsSteps(c) \/ SendsEvent(c)
         \/ Disconnected(c)
    BY ClientMoves DEF PlainInv
<1>2. UNCHANGED docStatus /\ QueueSize \in Nat
    BY <1>1, StreamAssumption DEF vars, storeVars
<1>3. /\ client[c].queue \in Seq(Events) /\ Len(client[c].queue) <= QueueSize
      /\ client[c].pc # "away" =>
            /\ client[c].doc \in Docs /\ docStatus[client[c].doc] # "absent"
            /\ \A i \in 1..Len(client[c].queue) : client[c].queue[i].doc = client[c].doc
      /\ listener = "starting" => client[c].queue = <<>> /\ ~client[c].covered
    BY DEF PlainInv, StreamTypeOK, EventsPresent, StartQuiet, Streams
<1>4. /\ Len(client'[c].queue) <= QueueSize
      /\ client'[c].pc # "away" =>
            /\ client'[c].doc \in Docs /\ docStatus[client'[c].doc] # "absent"
            /\ \A i \in 1..Len(client'[c].queue) : client'[c].queue[i].doc = client'[c].doc
      /\ listener = "starting" => client'[c].queue = <<>> /\ ~client'[c].covered
    <2>1. CASE Connects(c) \/ Disconnected(c)
        BY <1>2, <1>3, <2>1 DEF Connects, Disconnected
    <2>2. CASE ReadsDocument(c) \/ ReadsSteps(c)
        BY <1>3, <2>2 DEF ReadsDocument, ReadsSteps, KeepsStream
    <2>3. CASE SendsEvent(c)
        <3>1. /\ client[c].queue # <<>> /\ client'[c].queue = Tail(client[c].queue)
              /\ client[c].pc = "live" /\ client'[c].doc = client[c].doc
            BY <2>3 DEF SendsEvent
        <3>2. /\ Len(client'[c].queue) = Len(client[c].queue) - 1
              /\ \A i \in 1..Len(client'[c].queue) :
                    /\ i + 1 \in 1..Len(client[c].queue)
                    /\ client'[c].queue[i] = client[c].queue[i + 1]
            BY <1>3, <3>1, TailSays
        <3>3. Len(client'[c].queue) <= QueueSize
            BY <1>2, <1>3, <3>2
        <3> QED
            BY <1>3, <3>1, <3>2, <3>3
    <2> QED
        BY <1>1, <2>1, <2>2, <2>3
<1> QED
    BY <1>1, <1>2, <1>4 DEF PlainInv, StreamTypeOK, EventsPresent, StartQuiet


----
(* What is on its way to a client is right. *)

(* A step of the pipeline: what it changes it announces. *)
LEMMA PipelineKeepsAgreed ==
    ASSUME TypeOK, StartedInv, ReadyInv, NoOverlap => DeliveryInv, FailedPresent, PlainInv,
           AllAgree, PipelineStep
    PROVE  AllAgree'
<1> SUFFICES ASSUME NoOverlap', listener' = "listening"
             PROVE  ChannelAgrees' /\ \A c \in Watchers : ClientAgrees(c)'
    BY DEF AllAgree
<1>1. Next /\ UNCHANGED <<listener, client>>
    BY DEF PipelineStep
<1>2. NoOverlap /\ Kinds
    BY <1>1, FaultsCounted, EveryStepAnnounces
<1>3. /\ \A d \in Docs, k \in Keys : EventsAgree(channel, d, k)
      /\ \A c \in Watchers : client[c].pc # "away" /\ ~client[c].dropped =>
            \A k \in Keys : KeyAgrees(c, k)
    BY <1>1, <1>2 DEF AllAgree, ChannelAgrees, ClientAgrees
<1>4. channel \in Seq(Events) /\ \A i \in 1..Len(channel) : docStatus[channel[i].doc] # "absent"
    BY DEF PlainInv, StreamTypeOK, EventsPresent
<1>5. /\ \A event \in Emitted : /\ Agrees(event.doc, event.key, event.value)'
                                /\ event \in Events /\ docStatus[event.doc] # "absent"
      /\ \A d \in Docs, k \in Keys :
            docStatus[d] # "absent" =>
                Unmoved(d, k) \/ (Emitted # {} /\ \A event \in Emitted : About(event, d, k))
    BY <1>1, <1>2, AnnouncedRight, EventsAreTyped
<1>6. ASSUME NEW d \in Docs, docStatus[d] = "absent", NEW k \in Keys
      PROVE  Silent(channel, d, k)
    BY <1>4, <1>6 DEF Silent, About
(* What changes: nothing about k of d, or it is the last word. *)
<1>7. ASSUME NEW d \in Docs, docStatus[d] # "absent", NEW k \in Keys
      PROVE  \/ /\ Unmoved(d, k) /\ (Silent(channel', d, k) <=> Silent(channel, d, k))
                /\ \A value : Says(channel, d, k, value) => Says(channel', d, k, value)
             \/ /\ ~Silent(channel', d, k)
                /\ \E value \in Values : Says(channel', d, k, value) /\ Agrees(d, k, value)'
    <2>1. CASE UNCHANGED channel /\ Emitted = {}
        BY <1>5, <1>7, <2>1
    <2>2. ASSUME NEW event \in Emitted, channel' = Append(channel, event)
          PROVE  \/ /\ Unmoved(d, k) /\ (Silent(channel', d, k) <=> Silent(channel, d, k))
                    /\ \A value : Says(channel, d, k, value) => Says(channel', d, k, value)
                 \/ /\ ~Silent(channel', d, k)
                    /\ \E value \in Values : Says(channel', d, k, value) /\ Agrees(d, k, value)'
        <3>1. event.value \in Values /\ event \in Events
            BY <1>5 DEF Events
        <3>2. CASE About(event, d, k)
            <4>1. Says(channel', d, k, event.value) /\ ~Silent(channel', d, k)
                BY <1>4, <2>2, <3>1, <3>2, AppendedSays
            <4>2. Agrees(d, k, event.value)'
                BY <1>5, <3>2 DEF About
            <4> QED
                BY <3>1, <4>1, <4>2
        <3>3. CASE ~About(event, d, k)
            BY <1>4, <1>5, <1>7, <2>2, <3>1, <3>3, AppendedSays
        <3> QED
            BY <3>2, <3>3
    <2> QED
        BY <1>1, <2>1, <2>2 DEF PipelineStep
<1>8. ASSUME NEW d \in Docs, NEW k \in Keys
      PROVE  EventsAgree(channel, d, k)'
    <2>1. CASE docStatus[d] # "absent"
        BY <1>3, <1>7, <2>1 DEF EventsAgree, Unmoved
    <2>2. CASE docStatus[d] = "absent"
        <3>1. ASSUME NEW event \in Emitted, channel' = Append(channel, event)
              PROVE  Silent(channel', d, k)
            <4>1. ~About(event, d, k) /\ event \in Events
                BY <1>5, <2>2 DEF About
            <4> QED
                BY <1>4, <1>6, <2>2, <3>1, <4>1, AppendedSays
        <3> QED
            BY <1>1, <1>6, <2>2, <3>1 DEF EventsAgree, PipelineStep
    <2> QED
        BY <2>1, <2>2
<1>9. ASSUME NEW c \in Watchers, client[c].pc # "away", ~client[c].dropped, NEW k \in Keys
      PROVE  KeyAgrees(c, k)'
    <2> DEFINE d == client[c].doc
    <2>1. d \in Docs /\ docStatus[d] # "absent"
        BY <1>9 DEF PlainInv, EventsPresent
    <2>2. CASE ~Silent(channel', d, k)
        BY <1>1, <2>2 DEF KeyAgrees
    <2>3. CASE Unmoved(d, k) /\ Silent(channel, d, k)
        BY <1>1, <1>3, <1>9, <2>3 DEF KeyAgrees, EventsAgree, Unmoved, Viewed
    <2> QED
        BY <1>7, <2>1, <2>2, <2>3
<1> QED
    BY <1>1, <1>8, <1>9 DEF ChannelAgrees, ClientAgrees

(* The listener takes an event: the client it is for has it then. *)
LEMMA DispatchKeepsAgreed ==
    ASSUME PlainInv, AllAgree, Dispatch
    PROVE  AllAgree'
<1> SUFFICES ASSUME NoOverlap', listener' = "listening"
             PROVE  ChannelAgrees' /\ \A c \in Watchers : ClientAgrees(c)'
    BY DEF AllAgree
<1> DEFINE event == Head(channel)
<1>1. /\ channel # <<>> /\ channel' = Tail(channel) /\ UNCHANGED <<vars, listener>>
      /\ \A c \in Watchers : Offered(c, event)
    BY DispatchMoves DEF PlainInv
<1>2. UNCHANGED <<status, attempts, docStatus, backlogs, disconnects>>
    BY <1>1 DEF vars, storeVars, transitionVars
<1>3. /\ \A d \in Docs, k \in Keys : EventsAgree(channel, d, k)
      /\ \A c \in Watchers : client[c].pc # "away" /\ ~client[c].dropped =>
            \A k \in Keys : KeyAgrees(c, k)
    BY <1>1, <1>2 DEF AllAgree, ChannelAgrees, ClientAgrees, NoOverlap
<1>4. ASSUME NEW d, NEW k
      PROVE  /\ event \in Events
             /\ Silent(channel, d, k) <=> ~About(event, d, k) /\ Silent(channel', d, k)
             /\ \A value : Says(channel, d, k, value) =>
                    \/ Says(channel', d, k, value)
                    \/ Silent(channel', d, k) /\ About(event, d, k) /\ value = event.value
    BY <1>1, TailSays DEF PlainInv, StreamTypeOK
<1>5. \A d, k, value : Agrees(d, k, value)' <=> Agrees(d, k, value)
    BY <1>2 DEF Agrees, RetryPending
<1> HIDE DEF event
<1>6. ASSUME NEW d \in Docs, NEW k \in Keys
      PROVE  EventsAgree(channel, d, k)'
    BY <1>3, <1>4, <1>5 DEF EventsAgree
<1>7. ASSUME NEW c \in Watchers, client'[c].pc # "away", ~client'[c].dropped, NEW k \in Keys
      PROVE  KeyAgrees(c, k)'
    <2>1. PICK d \in Docs : d = client[c].doc /\ d = client'[c].doc
        BY <1>1, <1>7 DEF Offered, PlainInv, EventsPresent
    <2>b. PICK before : before = client[c].queue
        OBVIOUS
    <2>a. PICK after : after = client'[c].queue
        OBVIOUS
    <2>v. PICK view : view = client[c].view[k]
        OBVIOUS
    <2>2. before \in Seq(Events)
        BY <2>b DEF PlainInv, StreamTypeOK, Streams
    <2>3. /\ client'[c].pc = client[c].pc /\ client'[c].covered = client[c].covered
          /\ client'[c].view = client[c].view /\ ~client[c].dropped
          /\ \/ event.doc # d /\ after = before
             \/ event.doc = d /\ after = Append(before, event)
        BY <1>1, <1>7, <2>1, <2>a, <2>b DEF Offered, KeepsStream, Subscribed
    <2>l. event.doc = d =>
            /\ About(event, d, k) => Says(after, d, k, event.value) /\ ~Silent(after, d, k)
            /\ ~About(event, d, k) =>
                  /\ Silent(after, d, k) <=> Silent(before, d, k)
                  /\ \A value : Says(before, d, k, value) => Says(after, d, k, value)
        <3>1. PICK e \in Events : e = event
            BY <1>4
        <3>2. ASSUME e.doc = d
              PROVE  /\ About(e, d, k) => Says(after, d, k, e.value) /\ ~Silent(after, d, k)
                     /\ ~About(e, d, k) =>
                           /\ Silent(after, d, k) <=> Silent(before, d, k)
                           /\ \A value : Says(before, d, k, value) => Says(after, d, k, value)
            <4>1. after = Append(before, e)
                BY <2>3, <3>1, <3>2
            <4> QED
                BY <2>2, <4>1, AppendedSays
        <3> QED
            BY <3>1, <3>2
    <2>4. KeyAgrees(c, k)
        BY <1>3, <1>7, <2>3
    <2> SUFFICES ASSUME Silent(channel', d, k)
                 PROVE  /\ EventsAgree(after, d, k)'
                        /\ Viewed(c, k) /\ Silent(after, d, k) => Agrees(d, k, view)'
        BY <2>1, <2>3, <2>a, <2>v DEF KeyAgrees, Viewed
    <2>5. CASE About(event, d, k)
        <3>1. PICK value \in Values : Says(channel, d, k, value) /\ Agrees(d, k, value)
            BY <1>3, <1>4, <2>5 DEF EventsAgree
        <3>2. value = event.value
            <4>1. ~Says(channel', d, k, value)
                BY DEF Says, Silent
            <4> QED
                BY <1>4, <3>1, <4>1
        <3>3. Says(after, d, k, value) /\ ~Silent(after, d, k)
            BY <2>5, <2>l, <3>2 DEF About
        <3> QED
            BY <1>5, <3>1, <3>3 DEF EventsAgree
    <2>6. CASE ~About(event, d, k)
        <3>1. Silent(channel, d, k)
            BY <1>4, <2>6
        <3>2. /\ EventsAgree(before, d, k)
              /\ Viewed(c, k) /\ Silent(before, d, k) => Agrees(d, k, view)
            BY <2>1, <2>4, <2>b, <2>v, <3>1 DEF KeyAgrees
        <3>3. /\ Silent(after, d, k) <=> Silent(before, d, k)
              /\ \A value : Says(before, d, k, value) => Says(after, d, k, value)
            BY <2>3, <2>6, <2>l
        <3> QED
            BY <1>5, <2>3, <3>2, <3>3 DEF EventsAgree
    <2> QED
        BY <2>5, <2>6
<1> QED
    BY <1>6, <1>7 DEF ChannelAgrees, ClientAgrees


(* The client reads its snapshot, or sends on an event of its queue. *)
LEMMA ClientKeepsAgreed ==
    ASSUME PlainInv, AllAgree, NEW c \in Watchers, ClientStep(c)
    PROVE  AllAgree'
<1> SUFFICES ASSUME NoOverlap', listener' = "listening"
             PROVE  ChannelAgrees' /\ \A b \in Watchers : ClientAgrees(b)'
    BY DEF AllAgree
<1>1. /\ UNCHANGED <<vars, listener, channel>>
      /\ \A b \in Watchers \ {c} : client'[b] = client[b]
      /\ \/ Connects(c) \/ ReadsDocument(c) \/ ReadsSteps(c) \/ SendsEvent(c)
         \/ Disconnected(c)
    BY ClientMoves DEF PlainInv
<1>2. UNCHANGED <<status, attempts, docStatus, backlogs, disconnects>>
    BY <1>1 DEF vars, storeVars, transitionVars
<1>3. /\ \A d \in Docs, k \in Keys : EventsAgree(channel, d, k)
      /\ \A b \in Watchers : client[b].pc # "away" /\ ~client[b].dropped =>
            \A k \in Keys : KeyAgrees(b, k)
    BY <1>1, <1>2 DEF AllAgree, ChannelAgrees, ClientAgrees, NoOverlap
<1>4. \A d, k, value : Agrees(d, k, value)' <=> Agrees(d, k, value)
    BY <1>2 DEF Agrees, RetryPending
<1>5. \A d, k : Silent(<<>>, d, k)
    BY DEF Silent
<1>6. ASSUME NEW d \in Docs, NEW k \in Keys
      PROVE  EventsAgree(channel, d, k)'
    BY <1>1, <1>3, <1>4 DEF EventsAgree
<1>7. ASSUME NEW b \in Watchers, b # c, client'[b].pc # "away", ~client'[b].dropped,
             NEW k \in Keys
      PROVE  KeyAgrees(b, k)'
    BY <1>1, <1>3, <1>4, <1>7 DEF KeyAgrees, EventsAgree, Viewed
<1>8. ASSUME client'[c].pc # "away", ~client'[c].dropped, NEW k \in Keys
      PROVE  KeyAgrees(c, k)'
    <2>1. CASE Connects(c)
        BY <1>5, <2>1 DEF Connects, KeyAgrees, EventsAgree, Viewed
    <2>2. CASE Disconnected(c)
        BY <1>8, <2>2 DEF Disconnected
    <2>3. ASSUME KeepsStream(c), client[c].pc # "away",
                 Viewed(c, k)' => \/ Agrees(client[c].doc, k, client'[c].view[k])
                                  \/ Viewed(c, k) /\ client'[c].view[k] = client[c].view[k]
          PROVE  KeyAgrees(c, k)'
        <3>1. KeyAgrees(c, k)
            BY <1>3, <1>8, <2>3 DEF KeepsStream
        <3>2. /\ client'[c].doc = client[c].doc /\ client'[c].queue = client[c].queue
              /\ channel' = channel
            BY <1>1, <2>3 DEF KeepsStream
        <3>3. Silent(channel, client[c].doc, k) => EventsAgree(client[c].queue, client[c].doc, k)'
            BY <1>4, <3>1, <3>2 DEF KeyAgrees, EventsAgree
        <3>4. ASSUME Silent(channel, client[c].doc, k), Viewed(c, k)',
                     Silent(client[c].queue, client[c].doc, k)
              PROVE  Agrees(client[c].doc, k, client[c].view[k])'
            BY <1>4, <2>3, <3>1, <3>2, <3>4 DEF KeyAgrees
        <3> QED
            BY <3>2, <3>3, <3>4 DEF KeyAgrees
    <2>4. CASE ReadsDocument(c)
        <3>1. Viewed(c, k)' => k = DocKey
            BY <2>4 DEF ReadsDocument, Viewed
        <3> QED
            BY <2>3, <2>4, <3>1 DEF ReadsDocument, Agrees
    <2>5. CASE ReadsSteps(c)
        <3>1. CASE k = DocKey
            <4>1. Viewed(c, k)' => Viewed(c, k) /\ client'[c].view[k] = client[c].view[k]
                BY <2>5, <3>1 DEF ReadsSteps, Viewed
            <4> QED
                BY <2>3, <2>5, <4>1 DEF ReadsSteps
        <3>2. CASE k # DocKey
            <4>1. k \in Steps
                BY <3>2 DEF Keys
            <4>2. Agrees(client[c].doc, k, client'[c].view[k])
                BY <2>5, <3>2, <4>1 DEF ReadsSteps, Agrees
            <4> QED
                BY <2>3, <2>5, <4>2 DEF ReadsSteps
        <3> QED
            BY <3>1, <3>2
    <2>6. CASE SendsEvent(c)
        <3>1. PICK d \in Docs : d = client[c].doc /\ d = client'[c].doc
            BY <1>8, <2>6 DEF SendsEvent, PlainInv, EventsPresent
        <3>2. PICK before : before = client[c].queue
            OBVIOUS
        <3>3. PICK event \in Events :
                /\ event = Head(before) /\ event.doc = d
                /\ before \in Seq(Events) /\ before # <<>>
            <4>1. before \in Seq(Events) /\ before # <<>>
                BY <2>6, <3>2 DEF SendsEvent, PlainInv, StreamTypeOK, Streams
            <4>2. Head(before) \in Events /\ Head(before) = before[1] /\ 1 \in 1..Len(before)
                BY <4>1, TailSays
            <4>3. Head(before).doc = d
                BY <2>6, <3>1, <3>2, <4>2 DEF SendsEvent, PlainInv, EventsPresent
            <4> QED
                BY <4>1, <4>2, <4>3
        <3>4. PICK after : after = client'[c].queue /\ after = Tail(before)
            BY <2>6, <3>2 DEF SendsEvent
        <3>5. PICK view : view = client'[c].view[k]
            OBVIOUS
        <3>6. /\ Silent(before, d, k) <=> ~About(event, d, k) /\ Silent(after, d, k)
              /\ \A value : Says(before, d, k, value) =>
                     \/ Says(after, d, k, value)
                     \/ Silent(after, d, k) /\ About(event, d, k) /\ value = event.value
            BY <3>3, <3>4, TailSays
        <3>7. /\ view = IF k = event.key THEN event.value ELSE client[c].view[k]
              /\ Viewed(c, k)' => Viewed(c, k)
            BY <2>6, <3>2, <3>3, <3>5 DEF SendsEvent, Viewed
        <3>8. Silent(channel, d, k) =>
                /\ EventsAgree(before, d, k)
                /\ Viewed(c, k) /\ Silent(before, d, k) => Agrees(d, k, client[c].view[k])
            BY <1>3, <1>8, <2>6, <3>1, <3>2 DEF SendsEvent, KeyAgrees
        <3> SUFFICES ASSUME Silent(channel, d, k)
                     PROVE  /\ EventsAgree(after, d, k)'
                            /\ Viewed(c, k)' /\ Silent(after, d, k) => Agrees(d, k, view)'
            BY <1>1, <3>1, <3>4, <3>5 DEF KeyAgrees
        <3>9. EventsAgree(after, d, k)'
            BY <1>4, <3>6, <3>8 DEF EventsAgree
        <3>10. ASSUME Viewed(c, k)', Silent(after, d, k)
               PROVE  Agrees(d, k, view)'
            <4>1. CASE About(event, d, k)
                <5>1. PICK value \in Values : Says(before, d, k, value) /\ Agrees(d, k, value)
                    BY <3>6, <3>8, <4>1 DEF EventsAgree
                <5>2. ~Says(after, d, k, value)
                    BY <3>10 DEF Says, Silent
                <5>3. value = event.value /\ k = event.key
                    BY <3>6, <4>1, <5>1, <5>2 DEF About
                <5> QED
                    BY <1>4, <3>7, <5>1, <5>3
            <4>2. CASE ~About(event, d, k)
                <5>1. Silent(before, d, k) /\ k # event.key
                    BY <3>3, <3>6, <3>10, <4>2 DEF About
                <5> QED
                    BY <1>4, <3>7, <3>8, <3>10, <5>1
            <4> QED
                BY <4>1, <4>2
        <3> QED
            BY <3>9, <3>10
    <2> QED
        BY <1>1, <2>1, <2>2, <2>4, <2>5, <2>6
<1> QED
    BY <1>6, <1>7, <1>8 DEF ChannelAgrees, ClientAgrees

(* When the listener starts nothing is under way yet, and when it dies  *)
(* no client is served any more.                                        *)
LEMMA ListenerKeeps ==
    ASSUME TypeOK', PlainInv, AllAgree, ListenerStarts \/ ListenerDies
    PROVE  PlainInv' /\ AllAgree'
<1>1. \A d, k : Silent(<<>>, d, k)
    BY DEF Silent
<1>2. UNCHANGED <<docStatus, client>>
    BY DEF ListenerStarts, ListenerDies, vars, storeVars
<1>3. CASE ListenerStarts
    <2>1. channel' = <<>> /\ channel = <<>> /\ listener = "starting" /\ listener' = "listening"
        BY <1>3 DEF ListenerStarts, PlainInv, StartQuiet
    <2>2. PlainInv'
        BY <1>2, <2>1 DEF PlainInv, StreamTypeOK, StartQuiet, EventsPresent
    <2>3. ChannelAgrees'
        BY <1>1, <2>1 DEF ChannelAgrees, EventsAgree
    <2>4. ASSUME NEW c \in Watchers, NEW k \in Keys
          PROVE  KeyAgrees(c, k)'
        <3>1. client'[c].queue = <<>> /\ ~client'[c].covered
            BY <1>2, <2>1 DEF PlainInv, StartQuiet
        <3> QED
            BY <1>1, <3>1 DEF KeyAgrees, EventsAgree, Viewed
    <2> QED
        BY <2>2, <2>3, <2>4 DEF AllAgree, ClientAgrees
<1>4. CASE ListenerDies
    <2>1. channel' = <<>> /\ listener' = "dead" /\ <<>> \in Seq(Events)
        BY <1>4 DEF ListenerDies
    <2>2. PlainInv'
        BY <1>2, <2>1 DEF PlainInv, StreamTypeOK, StartQuiet, EventsPresent
    <2> QED
        BY <2>1, <2>2 DEF AllAgree
<1> QED
    BY <1>3, <1>4

----
(* The stream is the pipeline, watched. *)
LEMMA StreamRefines ==
    /\ StreamInit => Init
    /\ [StreamNext]_<<vars, streamVars>> => [Next]_vars
<1>1. ASSUME NEW c \in Watchers, ClientStep(c)
      PROVE  UNCHANGED vars
    BY <1>1 DEF ClientStep, Connect, ReadDocument, ReadSteps, SendEvent, Disconnect
<1> QED
    BY <1>1
    DEF StreamInit, StreamNext, PipelineStep, ListenerStarts, ListenerDies, Dispatch

LEMMA StreamIsPipeline == StreamSpec => Spec
    BY StreamRefines, PTL DEF StreamSpec, Spec

LEMMA FailedArePresent == Spec => []FailedPresent
<1>1. Init => FailedPresent
    BY DEF Init, ReaperInit, IdleReaper, FailedPresent
<1> QED
    BY <1>1, FailedStaysPresent, ReadyAlways, TypeCorrect, PTL DEF Spec

LEMMA InitStream == StreamInit => PlainInv /\ AllAgree
<1> SUFFICES ASSUME StreamInit
             PROVE  PlainInv /\ AllAgree
    OBVIOUS
<1>1. TypeOK
    BY InitTypeOK DEF StreamInit
<1>2. /\ listener = "starting" /\ channel = <<>> /\ client \in [Watchers -> Streams]
      /\ \A c \in Watchers : /\ client[c].pc = "away" /\ client[c].queue = <<>>
                             /\ ~client[c].covered
    BY AwayTyped DEF StreamInit, Away
<1>3. QueueSize \in Nat
    BY StreamAssumption
<1> QED
    BY <1>1, <1>2, <1>3 DEF PlainInv, StreamTypeOK, StartQuiet, EventsPresent, AllAgree

(* The invariant holds throughout. *)
LEMMA StreamAlways == StreamSpec => []StreamInv
<1>1. TypeOK /\ TypeOK' /\ StartedInv /\ FailedPresent /\ StreamInv
        /\ [StreamNext]_<<vars, streamVars>> => PlainInv'
    <2>1. CASE UNCHANGED <<vars, streamVars>>
        BY <2>1
        DEF vars, storeVars, streamVars, StreamInv, PlainInv, StreamTypeOK, StartQuiet,
            EventsPresent
    <2> QED
        BY <2>1, PipelineKeepsPlain, DispatchKeepsPlain, ClientKeepsPlain, ListenerKeeps
        DEF StreamNext, StreamInv
<1>2. TypeOK /\ TypeOK' /\ StartedInv /\ ReadyInv /\ (NoOverlap => DeliveryInv)
        /\ FailedPresent /\ StreamInv /\ [StreamNext]_<<vars, streamVars>>
        => AllAgree'
    <2>1. CASE UNCHANGED <<vars, streamVars>>
        BY <2>1
        DEF vars, storeVars, transitionVars, streamVars, StreamInv, AllAgree, ChannelAgrees,
            ClientAgrees, KeyAgrees, EventsAgree, Viewed, Agrees, RetryPending, NoOverlap,
            Says, Silent
    <2> QED
        BY <2>1, PipelineKeepsAgreed, DispatchKeepsAgreed, ClientKeepsAgreed, ListenerKeeps
        DEF StreamNext, StreamInv
<1>3. StreamInit => StreamInv
    BY InitStream DEF StreamInv
<1>4. PlainInv' /\ AllAgree' => StreamInv'
    BY DEF StreamInv
<1> QED
    BY <1>1, <1>2, <1>3, <1>4, StreamIsPipeline, FailedArePresent, DeliveryAlways, ReadyAlways,
       TypeCorrect, PTL DEF StreamSpec

(* No transaction of the pipeline has two events to announce, so the    *)
(* one PipelineStep sends is all there is, for every constant.          *)
THEOREM OneEventAtATime == Spec => [][\A e, f \in Emitted : e = f]_vars
    BY OneEvent, ReadyAlways, TypeCorrect, PTL DEF Spec

(* No queue of a client outgrows its limit, and every event is one, for *)
(* every number of clients and size of their queues, overlap or not.    *)
THEOREM StreamTyped == StreamSpec => []StreamTypeOK
    BY StreamAlways, PTL DEF StreamInv, PlainInv

(* Snapshot and stream fit together, for every constant: what a client  *)
(* with the listener on since its snapshot, whose queue was never full, *)
(* will know once its events have arrived is what the database says,    *)
(* but for a step handed back for a retry.                              *)
THEOREM StreamFits == StreamSpec => []StreamConverges
<1>1. PlainInv /\ AllAgree => StreamConverges
    <2> SUFFICES ASSUME PlainInv, AllAgree, NoOverlap, NEW c \in Watchers, Served(c)
                 PROVE  LET d == client[c].doc IN
                        /\ WillKnow(c, DocKey, docStatus[d])
                        /\ \A s \in Steps :
                              \/ WillKnow(c, s, status[<<d, s>>])
                              \/ WillKnow(c, s, "running") /\ RetryPending(<<d, s>>)
        BY DEF StreamConverges
    <2> DEFINE d == client[c].doc
    <2>1. /\ client[c].pc = "live" /\ ~client[c].dropped /\ client[c].covered
          /\ listener = "listening" /\ d \in Docs
        BY DEF Served, PlainInv, EventsPresent
    <2>2. /\ \A k \in Keys : EventsAgree(channel, d, k)
          /\ \A k \in Keys : KeyAgrees(c, k) /\ Viewed(c, k)
        BY <2>1 DEF AllAgree, ChannelAgrees, ClientAgrees, Viewed
    <2>3. ASSUME NEW k \in Keys
          PROVE  \E value : Agrees(d, k, value) /\ WillKnow(c, k, value)
        BY <2>2 DEF EventsAgree, KeyAgrees, WillKnow
    <2>4. DocKey \in Keys /\ \A s \in Steps : s \in Keys /\ s # DocKey
        BY StreamAssumption DEF Keys
    <2> QED
        BY <2>3, <2>4 DEF Agrees
<1> QED
    BY <1>1, StreamAlways, PTL DEF StreamInv

====
