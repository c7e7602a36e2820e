------------------------ MODULE LifecycleProofs ---------------------
(* As long as no message is handled or queued twice at a time: the rows *)
(* of pipeline_step implement the abstract state machine of their steps *)
(* (StepMachine), for every graph that ends with the external call; and *)
(* the stored status of a document is the one its steps derive to.      *)
EXTENDS DeliveryProofs

(* The entry steps of a document are started with it. *)
EntryStarted ==
    \A d \in Docs, s \in EntryNodes : docStatus[d] # "absent" => Started(<<d, s>>)

(* A reaper recomputes documents there are. *)
FailedPresent == \A r \in Reapers : \A d \in reaper[r].failed : docStatus[d] # "absent"

(* What a worker is going to claim has waited for nothing in vain. *)
TodoDone ==
    \A w \in Workers : ~At(w, "idle") =>
        \A s \in worker[w].todo : \A p \in Predecessors[s] : status[<<DocOf(w), p>>] = "done"

(* Only an upload makes a document present. *)
LEMMA OnlyUploads ==
    ASSUME TypeOK, StartedInv, FailedPresent, [Next]_vars, NEW d \in Docs,
           docStatus[d] = "absent", docStatus'[d] # "absent"
    PROVE  Upload(d)
<1>1. ASSUME NEW e \in Docs, NEW seen, NEW verdict, Persist(e, seen, verdict)
      PROVE  e = d
    BY <1>1 DEF Persist, TypeOK, StoreTypeOK
<1>2. \A row \in Rows : row[1] = d => ~Started(row)
    BY DEF StartedInv, RowsStarted
<1>3. ASSUME NEW w \in Workers, WorkerPersists(w)
      PROVE  FALSE
    <2>1. DocOf(w) \in Docs /\ worker[w].row \in Rows /\ Started(worker[w].row)
        BY <1>3, WorkerMoves DEF WorkerPersists, At, StartedInv, WorkersStarted
    <2> QED
        BY <1>1, <1>2, <1>3, <2>1 DEF WorkerPersists, DocOf
<1>4. ASSUME NEW h \in Hooks, HookPersists(h)
      PROVE  FALSE
    <2>1. PICK e \in hook[h].docs : Persist(e, docStatus[e], hook[h].verdict)
        BY <1>4 DEF HookPersists
    <2>2. e \in Docs /\ Started(<<e, ExternalCall>>)
        BY DEF TypeOK, HookTypeOK, HookSessions, StartedInv, HooksStarted
    <2> QED
        BY <1>1, <1>2, <2>1, <2>2, RowParts
<1>5. ASSUME NEW r \in Reapers, ReaperPersists(r)
      PROVE  FALSE
    <2>1. PICK e \in reaper[r].failed : Persist(e, docStatus[e], reaper[r].verdict)
        BY <1>5 DEF ReaperPersists
    <2>2. e \in Docs /\ docStatus[e] # "absent"
        BY DEF TypeOK, ReaperTypeOK, ReaperSessions, FailedPresent
    <2> QED
        BY <1>1, <2>1, <2>2
<1>6. ASSUME NEW e \in Docs, Upload(e)
      PROVE  Upload(d)
    <2>1. e = d
        BY <1>6 DEF Upload, TypeOK, StoreTypeOK
    <2> QED
        BY <1>6, <2>1
<1> QED
    BY <1>3, <1>4, <1>5, <1>6
    DEF Next, Age, WorkerNext, WorkerStep, Deliver, CheckDocument, MarkRunning,
        SaveOutput, CallPartner, SaveJob, StepFails, ReadReady, ClaimNext,
        WorkerDerives, Acknowledge, WorkerCrashes, LoseConnection, HookNext, HookStep,
        Receive, Apply, HookDerives, HookCrashes, ReaperNext, Wake, ReaperStep,
        ScanInFlight, ScanCallbacks, Scan, EndIteration, Fail, Republish, LeaveRunning,
        ReaperDerives, ReaperCrashes, storeVars, vars

(* Its entry steps start with it. *)
LEMMA EntryStaysStarted ==
    ASSUME TypeOK, StartedInv, EntryStarted, FailedPresent, [Next]_vars
    PROVE  EntryStarted'
<1> SUFFICES ASSUME NEW d \in Docs, NEW s \in EntryNodes, docStatus'[d] # "absent"
             PROVE  Started(<<d, s>>)'
    BY DEF EntryStarted
<1>1. s \in Steps /\ <<d, s>> \in Rows
    BY RowParts DEF EntryNodes
<1>2. CASE docStatus[d] # "absent"
    BY <1>1, <1>2, NextKeepsStarted DEF EntryStarted, Forward
<1>3. CASE docStatus[d] = "absent"
    <2>1. Upload(d)
        BY <1>3, OnlyUploads
    <2> QED
        BY <1>1, <2>1 DEF Upload, Started, InitialStatus
<1> QED
    BY <1>2, <1>3

(* The documents a reaper failed a step of stay where they are. *)
LEMMA FailedStaysPresent ==
    ASSUME TypeOK, StartedInv, FailedPresent, [Next]_vars
    PROVE  FailedPresent'
<1> SUFFICES ASSUME NEW r \in Reapers, NEW d \in reaper'[r].failed
             PROVE  docStatus'[d] # "absent"
    BY DEF FailedPresent
<1>1. d \in Docs /\ docStatus[d] # "absent"
    <2>1. CASE reaper'[r].failed = reaper[r].failed
        BY <2>1 DEF FailedPresent, TypeOK, ReaperTypeOK, ReaperSessions
    <2>2. ASSUME NEW step \in reaper[r].batch, reaper'[r].failed = {step.row[1]}
          PROVE  d \in Docs /\ docStatus[d] # "absent"
        <3>1. step.row \in Rows /\ Started(step.row) /\ d = step.row[1]
            BY <2>2
            DEF TypeOK, ReaperTypeOK, ReaperSessions, LoadedRows, StartedInv, ReapersStarted
        <3> QED
            BY <3>1, RowParts DEF StartedInv, RowsStarted
    <2> QED
        BY <2>1, <2>2, ReaperMoves DEF Next, vars
<1> QED
    BY <1>1, NextKeepsStarted DEF Forward

(* A computed step that is DONE stays so: nobody handles its row. *)
LEMMA DoneStays ==
    ASSUME TypeOK, DeliveryInv, NEW row \in Rows, RowChanges(row),
           status[row] = "done", row[2] # ExternalCall
    PROVE  status'[row] = "done"
<1>1. ASSUME NEW w \in Workers, worker[w].row = row, HandlerWrites(w, row)
      PROVE  FALSE
    <2>1. Undecided(w)
        BY <1>1 DEF HandlerWrites, Undecided, At
    <2>2. status[row] \in InFlight
        BY <1>1, <2>1 DEF DeliveryInv, SessionsFresh, InFlight
    <2> QED
        BY <2>2 DEF InFlight
<1> QED
    BY <1>1 DEF RowChanges, Started, Sent

(* So what is to be claimed stays claimable in order. *)
LEMMA TodoStaysDone ==
    ASSUME CallIsLast, TypeOK, DeliveryInv, TodoDone, [Next]_vars,
           \A row \in Rows : RowChanges(row)
    PROVE  TodoDone'
<1> SUFFICES ASSUME NEW w \in Workers, ~At(w, "idle")', NEW s \in worker'[w].todo,
                    NEW p \in Predecessors[s]
             PROVE  status'[<<DocOf(w)', p>>] = "done"
    BY DEF TodoDone
<1>1. ASSUME NEW d \in Docs, s \in Steps, status[<<d, p>>] = "done"
      PROVE  status'[<<d, p>>] = "done"
    <2>1. <<d, p>> \in Rows /\ p # ExternalCall
        BY <1>1, RowParts, DagAssumption DEF CallIsLast
    <2> QED
        BY <1>1, <2>1, DoneStays
<1>2. CASE /\ ~At(w, "idle") /\ worker'[w].row = worker[w].row
           /\ s \in worker[w].todo
    <2>1. s \in Steps /\ DocOf(w) \in Docs /\ DocOf(w)' = DocOf(w)
        BY <1>2, WorkerMoves DEF TypeOK, WorkerTypeOK, WorkerSessions, DocOf
    <2>2. status[<<DocOf(w), p>>] = "done"
        BY <1>2, <2>1 DEF TodoDone
    <2> QED
        BY <1>1, <2>1, <2>2
<1>3. CASE WorkerNext(w) /\ ~(s \in worker[w].todo)
    <2>1. CASE ReadReady(w)
        <3>1. s \in Ready(DocOf(w)) /\ DocOf(w)' = DocOf(w) /\ DocOf(w) \in Docs
            BY <2>1, Triggers, WorkerMoves DEF ReadReady, At, DocOf, KeepsMessage
        <3>2. s \in Steps /\ status[<<DocOf(w), p>>] = "done"
            BY <3>1 DEF Ready, ReadySuccessors, Done
        <3> QED
            BY <1>1, <3>1, <3>2
    <2>2. CASE Deliver(w)
        BY <1>3, <2>2, Delivers
    <2>3. CASE Finish(w)
        BY <2>3, Finishes DEF IdleWorker
    <2>4. CASE CheckDocument(w)
        BY <1>3, <2>3, <2>4, Checks
    <2>5. CASE MarkRunning(w) \/ SaveOutput(w) \/ SaveJob(w) \/ WorkerPersists(w)
        BY <1>3, <2>5, Moves DEF MarkRunning, SaveOutput, SaveJob, WorkerPersists
    <2>6. CASE CallPartner(w)
        BY <1>3, <2>6, Calls
    <2>7. CASE ClaimNext(w)
        BY <1>3, <2>7, Triggers
    <2>8. CASE WorkerDerives(w)
        BY <2>8, Derives
    <2>9. CASE LoseConnection(w)
        BY <1>3, <2>9, Disconnects
    <2>10. CASE StepFails(w) /\ ~Finish(w)
        BY <1>3, <2>10, Moves DEF StepFails
    <2> QED
        BY <1>3, <2>1, <2>2, <2>3, <2>4, <2>5, <2>6, <2>7, <2>8, <2>9, <2>10
        DEF WorkerNext, WorkerStep, Acknowledge, WorkerCrashes
<1>4. CASE WorkerNext(w) /\ s \in worker[w].todo
    <2>1. CASE Deliver(w)
        BY <1>2, <1>4, <2>1, Delivers DEF At
    <2>2. CASE ~Deliver(w)
        BY <1>2, <1>4, <2>2, KeepsRow
    <2> QED
        BY <2>1, <2>2
<1>5. CASE worker'[w] = worker[w]
    BY <1>2, <1>5 DEF At
<1> QED
    BY <1>3, <1>4, <1>5, OwnStep


----
(* The steps of the abstract machine. *)

LifecycleInv == TodoDone /\ EntryStarted /\ FailedPresent

(* Both modules mean the same graph. *)
LEMMA SameGraph ==
    /\ Lifecycle!Steps = Steps /\ Lifecycle!EntryNodes = EntryNodes
    /\ Lifecycle!ExternalCall = ExternalCall
    BY DEF Lifecycle!Steps, Lifecycle!EntryNodes, Lifecycle!ExternalCall, Steps,
           EntryNodes, ExternalCall

(* An UPDATE of a row's status is a move of the machine. *)
LEMMA Updates ==
    ASSUME NEW row, NEW new, SetStatus(row, new)
    PROVE  Lifecycle!Move(row, status[row], new)
    BY DEF SetStatus, Lifecycle!Move

(* An upload enters a document none of whose steps has started. *)
LEMMA UploadEnters ==
    ASSUME StartedInv, NEW d \in Docs, Upload(d)
    PROVE  Lifecycle!Enter(d)
<1> USE SameGraph
<1>1. \A s \in Steps : status[<<d, s>>] = "pending"
    BY RowParts DEF Upload, StartedInv, RowsStarted, Started
<1>2. ASSUME NEW row \in Rows
      PROVE  status'[row] = IF row[1] = d /\ row[2] \in EntryNodes THEN "queued"
                                                                   ELSE status[row]
    <2>1. row[1] = d => status[row] = "pending"
        BY <1>1, RowParts
    <2> QED
        BY <2>1 DEF Upload, InitialStatus
<1>3. status' = [row \in Docs \X Steps |->
          IF row[1] = d /\ row[2] \in EntryNodes THEN "queued" ELSE status[row]]
    BY <1>2 DEF Upload, Rows
<1> QED
    BY <1>1, <1>3 DEF Lifecycle!Enter

(* A worker's write is a move of its own step, or the start of one it   *)
(* was to claim.                                                        *)
LEMMA WorkerSteps ==
    ASSUME TypeOK, StartedInv, DeliveryInv, LifecycleInv, NEW w \in Workers, WorkerNext(w)
    PROVE  [Lifecycle!Next]_status
<1> USE SameGraph
<1> DEFINE d == DocOf(w)
           s == StepOf(w)
           row == worker[w].row
<1>0. ~At(w, "idle") => d \in Docs /\ s \in Steps /\ row \in Rows /\ row = <<d, s>>
    BY WorkerMoves
<1>1. CASE UNCHANGED status
    BY <1>1
<1>2. Undecided(w) => status[row] = IF worker[w].pc \in {"check", "mark"}
                                    THEN worker[w].status ELSE "running"
    BY DEF DeliveryInv, SessionsFresh
<1>3. CASE MarkRunning(w)
    <2>1. CASE SetStatus(row, "running") /\ worker[w].status # "running"
        <3>1. At(w, "mark") /\ ~At(w, "idle") /\ Undecided(w)
            BY <1>3 DEF MarkRunning, Undecided, At
        <3>2. status[row] = "queued"
            BY <1>2, <2>1, <3>1 DEF At, DeliveryInv, SessionsFresh, InFlight
        <3>3. Lifecycle!Run(<<d, s>>)
            BY <1>0, <2>1, <3>1, <3>2, Updates DEF Lifecycle!Run
        <3> QED
            BY <1>0, <3>1, <3>3 DEF Lifecycle!Next
    <2> QED
        BY <1>1, <1>3, <2>1 DEF MarkRunning
<1>4. CASE SaveOutput(w) \/ SaveJob(w)
    <2>1. ~At(w, "idle") /\ status[row] = "running"
        BY <1>2, <1>4 DEF SaveOutput, SaveJob, Undecided, At
    <2>2. SetStatus(row, IF s = ExternalCall THEN "awaiting_callback" ELSE "done")
        BY <1>4 DEF SaveOutput, SaveJob, StartedInv, CallersStarted
    <2>3. Lifecycle!Succeed(d, s)
        BY <1>0, <2>1, <2>2, Updates DEF Lifecycle!Succeed
    <2> QED
        BY <1>0, <2>1, <2>3 DEF Lifecycle!Next
<1>5. CASE StepFails(w)
    <2>1. ~At(w, "idle") /\ status[row] = "running"
        BY <1>2, <1>5 DEF StepFails, Undecided, At
    <2>2. SetStatus(row, "error") \/ SetStatus(row, "queued")
        BY <1>5 DEF StepFails
    <2>3. Lifecycle!GiveUp(<<d, s>>) \/ Lifecycle!Retry(<<d, s>>)
        BY <1>0, <2>1, <2>2, Updates DEF Lifecycle!GiveUp, Lifecycle!Retry
    <2> QED
        BY <1>0, <2>1, <2>3 DEF Lifecycle!Next
<1>6. CASE ClaimNext(w)
    <2>1. PICK t \in worker[w].todo : ClaimAndPublish(<<d, t>>)
        BY <1>6 DEF ClaimNext
    <2>2. ~At(w, "idle") /\ t \in Steps /\ <<d, t>> \in Rows
        BY <1>0, <1>6, <2>1, RowParts
        DEF ClaimNext, At, TypeOK, WorkerTypeOK, WorkerSessions
    <2>3. CASE status[<<d, t>>] = "pending" /\ SetStatus(<<d, t>>, "queued")
        <3>1. t \notin EntryNodes
            BY <1>0, <2>2, <2>3, HandlesStarted DEF LifecycleInv, EntryStarted, Started
        <3>2. \A p \in Predecessors[t] : status[<<d, p>>] = "done"
            BY <2>1, <2>2 DEF LifecycleInv, TodoDone
        <3>3. Lifecycle!Start(d, t)
            BY <2>3, <3>1, <3>2, Updates DEF Lifecycle!Start
        <3> QED
            BY <1>0, <2>2, <3>3 DEF Lifecycle!Next
    <2> QED
        BY <1>1, <2>1, <2>3 DEF ClaimAndPublish, Claimable
<1> QED
    BY <1>1, <1>3, <1>4, <1>5, <1>6
    DEF WorkerNext, WorkerStep, Deliver, CheckDocument, CallPartner, ReadReady,
        WorkerDerives, WorkerPersists, Acknowledge, WorkerCrashes, LoseConnection, storeVars

(* A report or a timeout resolves an external call that was sent. *)
LEMMA OutcomeResolves ==
    ASSUME DeliveryInv, NEW row \in Rows, Sent(row), NEW new \in {"done", "error"},
           SetStatus(row, new)
    PROVE  Lifecycle!Next
<1>1. row = <<row[1], ExternalCall>> /\ row[1] \in Docs
    BY RowParts DEF Sent
<1>2. status[row] \in {"awaiting_callback", "done", "error"}
    BY DEF DeliveryInv, TableInv, SentSettled
<1>3. Lifecycle!Resolve(row[1])
    BY <1>1, <1>2, SameGraph DEF Lifecycle!Resolve, SetStatus
<1> QED
    BY <1>1, <1>3 DEF Lifecycle!Next

(* So every step of the pipeline is a move of the machine, or none. *)
LEMMA StepsAreMoves ==
    ASSUME TypeOK, StartedInv, DeliveryInv, LifecycleInv, [Next]_vars
    PROVE  [Lifecycle!Next]_status
<1>1. ASSUME NEW d \in Docs, Upload(d)
      PROVE  Lifecycle!Next
    BY <1>1, UploadEnters DEF Lifecycle!Next
<1>2. ASSUME NEW h \in Hooks, HookNext(h)
      PROVE  [Lifecycle!Next]_status
    <2>1. CASE Apply(h)
        <3>1. PICK d \in hook[h].docs :
                SetStatus(<<d, ExternalCall>>, IF hook[h].ok THEN "done" ELSE "error")
            BY <2>1 DEF Apply
        <3>2. <<d, ExternalCall>> \in Rows /\ Sent(<<d, ExternalCall>>)
            BY RowParts DEF TypeOK, HookTypeOK, HookSessions, DeliveryInv, HooksSent
        <3> QED
            BY <3>1, <3>2, OutcomeResolves
    <2> QED
        BY <1>2, <2>1
        DEF HookNext, HookStep, Receive, HookDerives, HookPersists, HookCrashes, storeVars
<1>3. ASSUME NEW r \in Reapers, ReaperNext(r)
      PROVE  [Lifecycle!Next]_status
    <2>1. CASE Fail(r)
        <3>1. PICK step \in reaper[r].batch : MustFail(step) /\ SetStatus(step.row, "error")
            BY <2>1 DEF Fail
        <3>2. step.row \in Rows /\ reaper[r].part \in {1, 2}
            BY DEF TypeOK, ReaperTypeOK, ReaperSessions, LoadedRows
        <3>3. Sent(step.row)
            BY <3>1, <3>2 DEF DeliveryInv, BatchesLocked, StepLocked, MustFail, InFlight
        <3> QED
            BY <3>1, <3>2, <3>3, OutcomeResolves
    <2> QED
        BY <1>3, <2>1
        DEF ReaperNext, Wake, ReaperStep, ScanInFlight, ScanCallbacks, Scan, EndIteration,
            Republish, LeaveRunning, ReaperDerives, ReaperPersists, ReaperCrashes, storeVars
<1> QED
    BY <1>1, <1>2, <1>3, WorkerSteps DEF Next, Age, vars, storeVars


(* What the moves rest on holds from the start, until an overlap. *)
LEMMA LifecycleAlways ==
    ASSUME CallIsLast
    PROVE  Spec => [](NoOverlap => LifecycleInv)
<1>1. Init => LifecycleInv
    BY DEF Init, StoreInit, WorkerInit, IdleWorker, ReaperInit, IdleReaper, LifecycleInv,
           TodoDone, EntryStarted, FailedPresent, At
<1>2. TypeOK /\ StartedInv /\ ReadyInv /\ (NoOverlap => DeliveryInv)
        /\ (NoOverlap => LifecycleInv) /\ [Next]_vars => (NoOverlap => LifecycleInv)'
    <2> SUFFICES ASSUME TypeOK, StartedInv, ReadyInv, NoOverlap => DeliveryInv,
                        NoOverlap => LifecycleInv, [Next]_vars, NoOverlap'
                 PROVE  LifecycleInv'
        OBVIOUS
    <2>1. DeliveryInv /\ LifecycleInv
        BY FaultsCounted
    <2>2. \A row \in Rows : RowChanges(row)
        BY <2>1, NextKeepsDelivery
    <2> QED
        BY <2>1, <2>2, TodoStaysDone, EntryStaysStarted, FailedStaysPresent DEF LifecycleInv
<1> QED
    BY <1>1, <1>2, DeliveryAlways, ReadyAlways, TypeCorrect, PTL DEF Spec

(* The rows of pipeline_step follow the state machine of their steps,   *)
(* up to the first overlap, for every graph that ends with the external *)
(* call and every bound on crashes and lost messages: an entry step     *)
(* starts with its document and any other after its predecessors, it    *)
(* runs, fails and succeeds in that order, and only the outcome of the  *)
(* external call may be set twice.                                      *)
THEOREM StepsMoveUntilOverlap ==
    ASSUME CallIsLast
    PROVE  Spec => Lifecycle!Init /\ [][NoOverlap => [Lifecycle!Next]_status]_vars
<1>1. Init => Lifecycle!Init
    BY SameGraph DEF Init, StoreInit, Rows, Lifecycle!Init
<1>2. TypeOK /\ StartedInv /\ (NoOverlap => DeliveryInv) /\ (NoOverlap => LifecycleInv)
        /\ [Next]_vars => [NoOverlap => [Lifecycle!Next]_status]_vars
    BY StepsAreMoves
<1> QED
    BY <1>1, <1>2, LifecycleAlways, DeliveryAlways, ReadyAlways, TypeCorrect, PTL DEF Spec

(* Where nothing overlaps the pipeline implements the abstract machine. *)
THEOREM ImplementsLifecycle ==
    ASSUME CallIsLast, MaxBacklogs = 0, MaxDisconnects = 0
    PROVE  Spec => StepsFollowLifecycle
<1>1. Init => Lifecycle!Init
    BY SameGraph DEF Init, StoreInit, Rows, Lifecycle!Init
<1>2. TypeOK => NoOverlap
    BY DEF TypeOK, TransitionTypeOK, NoOverlap
<1>3. TypeOK /\ StartedInv /\ (NoOverlap => DeliveryInv) /\ (NoOverlap => LifecycleInv)
        /\ [Next]_vars => [Lifecycle!Next]_status
    BY <1>2, StepsAreMoves
<1> QED
    BY <1>1, <1>3, LifecycleAlways, DeliveryAlways, ReadyAlways, TypeCorrect, PTL
    DEF Spec, StepsFollowLifecycle, Lifecycle!Spec


----
(* The status of a document against that of its steps. *)

HasError(d) == \E s \in Steps : status[<<d, s>>] = "error"

(* The steps have decided the document: no later step undoes that. *)
Decided(d) == HasError(d) \/ status[<<d, ExternalCall>>] = "done"

(* The document's row says so. *)
Stored(d) == docStatus[d] \in {"ready", "failed"}

(* A session with d at recompute_document_status will write a verdict. *)
WillDecide(session) ==
    \/ session.pc = "recompute"
    \/ session.pc = "persist" /\ session.verdict # "processing"

DecisionComing(d) ==
    \/ \E w \in Workers : DocOf(w) = d /\ WillDecide(worker[w])
    \/ \E h \in Hooks : d \in hook[h].docs /\ WillDecide(hook[h])
    \/ \E r \in Reapers : d \in reaper[r].failed /\ WillDecide(reaper[r])

(* A verdict is stored for a decision, and a decision leads to one. *)
DecisionStored(d) ==
    /\ Stored(d) => Decided(d)
    /\ Decided(d) => Stored(d) \/ DecisionComing(d)

(* What the sessions that work on d have seen and will write: one that  *)
(* recomputes after an outcome has a verdict, and one that derived      *)
(* PROCESSING has seen PROCESSING, so that it writes nothing.           *)
WorkersAgree(d) ==
    \A w \in Workers : ~At(w, "idle") /\ DocOf(w) = d =>
        /\ ~At(w, "check") => worker[w].seen = "processing" \/ Stored(d)
        /\ At(w, "persist") =>
              IF worker[w].verdict = "processing"
              THEN worker[w].seen = "processing" ELSE Decided(d)

HooksAgree(d) ==
    \A h \in Hooks : d \in hook[h].docs =>
        /\ HookAt(h, "recompute") \/ HookAt(h, "persist") => Decided(d)
        /\ HookAt(h, "persist") => hook[h].verdict # "processing"

ReapersAgree(d) ==
    \A r \in Reapers : d \in reaper[r].failed =>
        /\ Decided(d)
        /\ ReaperAt(r, "persist") => reaper[r].verdict # "processing"

Synced(d) == DecisionStored(d) /\ WorkersAgree(d) /\ HooksAgree(d) /\ ReapersAgree(d)

SyncInv == \A d \in Docs : Synced(d)

(* What derive_document_status makes of a decision. *)
LEMMA DerivesDecided ==
    \A d : /\ Derive(d) \in {"ready", "failed"} <=> Decided(d)
           /\ Derive(d) = "processing" <=> ~Decided(d)
    BY DEF Derive, Decided, HasError

(* A step fails, or the external call is DONE, with a worker, a request *)
(* or a reaper that will recompute the document.                        *)
LEMMA OutcomesCome ==
    ASSUME TypeOK, [Next]_vars, NEW row \in Rows, NEW outcome \in {"error", "done"},
           status[row] # outcome, status'[row] = outcome,
           outcome = "done" => row[2] = ExternalCall
    PROVE  \/ \E w \in Workers : worker[w].row = row /\ StepFails(w) /\ Goto(w, "recompute")
           \/ \E h \in Hooks : Apply(h) /\ row[1] \in hook[h].docs
           \/ \E r \in Reapers : reaper'[r].pc = "recompute" /\ reaper'[r].failed = {row[1]}
<1> USE DEF TypeOK, StoreTypeOK, storeVars
<1>1. ASSUME NEW other, NEW new, SetStatus(other, new)
      PROVE  row = other /\ new = outcome
    BY <1>1 DEF SetStatus
<1>2. ASSUME NEW d, Upload(d)
      PROVE  FALSE
    BY <1>2 DEF Upload, InitialStatus
<1>3. ASSUME NEW w \in Workers, WorkerNext(w)
      PROVE  worker[w].row = row /\ StepFails(w) /\ Goto(w, "recompute")
    <2>1. CASE StepFails(w)
        BY <1>1, <2>1 DEF StepFails
    <2>2. CASE ClaimNext(w)
        BY <1>1, <2>2 DEF ClaimNext, ClaimAndPublish
    <2>3. CASE MarkRunning(w)
        BY <1>1, <2>3 DEF MarkRunning
    <2>4. CASE SaveJob(w) \/ SaveOutput(w)
        BY <1>1, <2>4 DEF SaveJob, SaveOutput, StepOf
    <2> QED
        BY <1>3, <2>1, <2>2, <2>3, <2>4
        DEF WorkerNext, WorkerStep, Deliver, CheckDocument, CallPartner, ReadReady,
            WorkerDerives, WorkerPersists, Acknowledge, WorkerCrashes, LoseConnection
<1>4. ASSUME NEW h \in Hooks, HookNext(h)
      PROVE  Apply(h) /\ row[1] \in hook[h].docs
    <2>1. Apply(h)
        BY <1>4
        DEF HookNext, HookStep, Receive, HookDerives, HookPersists, HookCrashes
    <2>2. PICK d \in hook[h].docs :
            SetStatus(<<d, ExternalCall>>, IF hook[h].ok THEN "done" ELSE "error")
        BY <2>1 DEF Apply
    <2>3. row = <<d, ExternalCall>>
        BY <1>1, <2>2
    <2> QED
        BY <2>1, <2>2, <2>3
<1>5. ASSUME NEW r \in Reapers, ReaperNext(r)
      PROVE  reaper'[r].pc = "recompute" /\ reaper'[r].failed = {row[1]}
    <2>1. Fail(r)
        BY <1>5
        DEF ReaperNext, Wake, ReaperStep, ScanInFlight, ScanCallbacks, Scan, EndIteration,
            Republish, LeaveRunning, ReaperDerives, ReaperPersists, ReaperCrashes
    <2>2. \E step \in reaper[r].batch :
            SetStatus(step.row, "error") /\ reaper'[r].failed = {step.row[1]}
                /\ reaper'[r].pc = "recompute"
        <3>1. ~UNCHANGED status
            OBVIOUS
        <3>2. reaper'[r].pc \notin {"idle", "batch"}
            BY <2>1 DEF Fail, ReaperTypeOK, ReaperSessions
        <3> QED
            BY <1>5, <3>1, <3>2, ReaperMoves
    <2> QED
        BY <1>1, <2>2
<1> QED
    BY <1>2, <1>3, <1>4, <1>5 DEF Next, Age, vars

(* A decision stays, whichever outcome of the call is stored last. *)
LEMMA DecisionsStay ==
    ASSUME TypeOK, DeliveryInv, \A row \in Rows : RowChanges(row), NEW d \in Docs, Decided(d)
    PROVE  Decided(d)'
<1>1. PICK s \in Steps :
        \/ status[<<d, s>>] = "error"
        \/ s = ExternalCall /\ status[<<d, s>>] = "done"
    BY DagAssumption DEF Decided, HasError
<1>2. PICK row \in Rows : row = <<d, s>> /\ row[2] = s
    BY RowParts
<1>3. ASSUME NEW w \in Workers, worker[w].row = row, HandlerWrites(w, row)
      PROVE  FALSE
    <2>1. Undecided(w)
        BY <1>3 DEF HandlerWrites, Undecided, At
    <2>2. status[row] \in InFlight
        BY <1>3, <2>1 DEF DeliveryInv, SessionsFresh, InFlight
    <2> QED
        BY <1>1, <1>2, <2>2 DEF InFlight
<1>4. \/ status'[row] = status[row]
      \/ s = ExternalCall /\ status'[row] \in {"done", "error"}
    BY <1>1, <1>2, <1>3 DEF RowChanges, Started, Sent
<1> QED
    BY <1>1, <1>2, <1>4 DEF Decided, HasError

(* Who writes the status of a document, and what. *)
LEMMA DocumentWrites ==
    ASSUME TypeOK, [Next]_vars, NEW d \in Docs, docStatus'[d] # docStatus[d]
    PROVE  \/ docStatus[d] = "absent" /\ docStatus'[d] = "processing"
           \/ \E w \in Workers : /\ WorkerPersists(w) /\ DocOf(w) = d
                                 /\ worker[w].verdict # worker[w].seen
                                 /\ docStatus'[d] = worker[w].verdict
           \/ \E h \in Hooks : /\ HookPersists(h) /\ d \in hook[h].docs
                               /\ docStatus'[d] = hook[h].verdict
           \/ \E r \in Reapers : /\ ReaperPersists(r) /\ d \in reaper[r].failed
                                 /\ docStatus'[d] = reaper[r].verdict
<1>1. ASSUME NEW e, NEW seen, NEW verdict, Persist(e, seen, verdict)
      PROVE  e = d /\ verdict # seen /\ docStatus'[d] = verdict
    BY <1>1 DEF Persist, TypeOK, StoreTypeOK
<1>2. ASSUME NEW e \in Docs, Upload(e)
      PROVE  docStatus[d] = "absent" /\ docStatus'[d] = "processing"
    BY <1>2 DEF Upload, TypeOK, StoreTypeOK
<1>3. ASSUME NEW w \in Workers, WorkerPersists(w)
      PROVE  /\ DocOf(w) = d /\ worker[w].verdict # worker[w].seen
             /\ docStatus'[d] = worker[w].verdict
    BY <1>1, <1>3 DEF WorkerPersists
<1>4. ASSUME NEW h \in Hooks, HookPersists(h)
      PROVE  d \in hook[h].docs /\ docStatus'[d] = hook[h].verdict
    BY <1>1, <1>4 DEF HookPersists
<1>5. ASSUME NEW r \in Reapers, ReaperPersists(r)
      PROVE  d \in reaper[r].failed /\ docStatus'[d] = reaper[r].verdict
    BY <1>1, <1>5 DEF ReaperPersists
<1> QED
    BY <1>2, <1>3, <1>4, <1>5
    DEF Next, Age, WorkerNext, WorkerStep, Deliver, CheckDocument, MarkRunning,
        SaveOutput, CallPartner, SaveJob, StepFails, ReadReady, ClaimNext,
        WorkerDerives, Acknowledge, WorkerCrashes, LoseConnection, HookNext, HookStep,
        Receive, Apply, HookDerives, HookCrashes, ReaperNext, Wake, ReaperStep,
        ScanInFlight, ScanCallbacks, Scan, EndIteration, Fail, Republish, LeaveRunning,
        ReaperDerives, ReaperCrashes, storeVars, vars

(* After the upload only verdicts are written, and only for decisions. *)
LEMMA OnlyVerdictsWritten ==
    ASSUME TypeOK, [Next]_vars, NEW d \in Docs, Synced(d), docStatus'[d] # docStatus[d]
    PROVE  \/ docStatus[d] = "absent" /\ docStatus'[d] = "processing"
           \/ Stored(d)' /\ Decided(d)
<1> USE DEF Synced, Stored, Verdicts, TypeOK
<1>1. ASSUME NEW w \in Workers, WorkerPersists(w), DocOf(w) = d,
             worker[w].verdict # worker[w].seen
      PROVE  worker[w].verdict \in {"ready", "failed"} /\ Decided(d)
    <2>1. At(w, "persist") /\ ~At(w, "idle") /\ worker[w].verdict \in Verdicts
        BY <1>1 DEF WorkerPersists, At, WorkerTypeOK, WorkerSessions
    <2> QED
        BY <1>1, <2>1 DEF WorkersAgree
<1>2. ASSUME NEW h \in Hooks, HookPersists(h), d \in hook[h].docs
      PROVE  hook[h].verdict \in {"ready", "failed"} /\ Decided(d)
    <2>1. HookAt(h, "persist") /\ hook[h].verdict \in Verdicts
        BY <1>2 DEF HookPersists, HookTypeOK, HookSessions
    <2> QED
        BY <1>2, <2>1 DEF HooksAgree
<1>3. ASSUME NEW r \in Reapers, ReaperPersists(r), d \in reaper[r].failed
      PROVE  reaper[r].verdict \in {"ready", "failed"} /\ Decided(d)
    <2>1. ReaperAt(r, "persist") /\ reaper[r].verdict \in Verdicts
        BY <1>3 DEF ReaperPersists, ReaperTypeOK, ReaperSessions
    <2> QED
        BY <1>3, <2>1 DEF ReapersAgree
<1> QED
    BY <1>1, <1>2, <1>3, DocumentWrites

(* A worker that derived PROCESSING had seen it: had the document been  *)
(* decided when it was loaded, so would it be now.                      *)
LEMMA WorkersStayAgreed ==
    ASSUME TypeOK, StartedInv, [Next]_vars, NoOverlap', NEW d \in Docs, Synced(d),
           Decided(d) => Decided(d)', Stored(d) => Stored(d)'
    PROVE  WorkersAgree(d)'
<1> DEFINE Agreed(w) ==
        /\ ~At(w, "check")' => worker'[w].seen = "processing" \/ Stored(d)'
        /\ At(w, "persist")' =>
              IF worker'[w].verdict = "processing"
              THEN worker'[w].seen = "processing" ELSE Decided(d)'
<1> SUFFICES ASSUME NEW w \in Workers, ~At(w, "idle")', DocOf(w)' = d
             PROVE  Agreed(w)
    BY DEF WorkersAgree
<1> USE DEF At
<1>1. CASE worker'[w] = worker[w]
    BY <1>1 DEF Synced, WorkersAgree, DocOf
<1>2. ASSUME ~At(w, "idle"), ~At(w, "check"), worker'[w].row = worker[w].row,
             worker'[w].seen = worker[w].seen, worker'[w].pc # "persist"
      PROVE  Agreed(w)
    BY <1>2 DEF Synced, WorkersAgree, DocOf
<1>3. CASE WorkerNext(w)
    <2>1. CASE Deliver(w)
        BY <1>1, <2>1, Delivers
    <2>2. CASE Finish(w)
        BY <2>2, Finishes DEF IdleWorker
    <2>3. CASE CheckDocument(w)
        <3>1. CASE /\ worker'[w].pc = "mark" /\ KeepsMessage(w)
                   /\ worker'[w].seen = docStatus[DocOf(w)]
                   /\ docStatus[DocOf(w)] # "failed"
            <4>1. DocOf(w) = d
                BY <3>1 DEF KeepsMessage, DocOf
            <4>2. docStatus[d] \in DocStatuses /\ docStatus[d] # "absent"
                BY <2>3, <4>1, HandlesStarted DEF CheckDocument, TypeOK, StoreTypeOK
            <4>3. docStatus[d] = "processing" \/ Stored(d)
                BY <4>2 DEF DocStatuses, Stored
            <4> QED
                BY <3>1, <4>1, <4>3
        <3> QED
            BY <2>2, <2>3, <3>1, Checks
    <2>4. CASE MarkRunning(w) \/ SaveOutput(w) \/ SaveJob(w) \/ WorkerPersists(w)
        BY <1>2, <2>4, Moves
        DEF MarkRunning, SaveOutput, SaveJob, WorkerPersists, KeepsMessage
    <2>5. CASE CallPartner(w)
        BY <1>2, <2>5, Calls DEF CallPartner, KeepsMessage
    <2>6. CASE ReadReady(w) \/ ClaimNext(w)
        BY <1>2, <2>6, Triggers DEF ReadReady, ClaimNext, KeepsMessage
    <2>7. CASE StepFails(w) /\ ~Finish(w)
        BY <1>2, <2>7, Moves DEF StepFails, KeepsMessage
    <2>8. CASE WorkerDerives(w)
        <3>1. /\ worker'[w].verdict = Derive(DocOf(w)) /\ worker'[w].seen = worker[w].seen
              /\ worker[w].pc = "recompute" /\ DocOf(w) = d
            BY <2>8, Derives DEF WorkerDerives, KeepsMessage, DocOf
        <3>2. worker[w].seen = "processing" \/ Stored(d)
            BY <3>1 DEF Synced, WorkersAgree
        <3>3. Derive(d) = "processing" => ~Stored(d)
            BY DerivesDecided DEF Synced, DecisionStored
        <3> QED
            BY <3>1, <3>2, <3>3, DerivesDecided
    <2>9. ~LoseConnection(w)
        BY DEF LoseConnection, NoOverlap, TypeOK, TransitionTypeOK
    <2> QED
        BY <1>3, <2>1, <2>2, <2>3, <2>4, <2>5, <2>6, <2>7, <2>8, <2>9
        DEF WorkerNext, WorkerStep, Acknowledge, WorkerCrashes
<1> QED
    BY <1>1, <1>3, OwnStep


(* Requests and reapers work on one document each, and recompute it     *)
(* after they have decided it.                                          *)
LEMMA HooksStayAgreed ==
    ASSUME TypeOK, ReadyInv, [Next]_vars, NEW d \in Docs, Synced(d),
           Decided(d) => Decided(d)'
    PROVE  HooksAgree(d)'
<1> SUFFICES ASSUME NEW h \in Hooks, d \in hook'[h].docs
             PROVE  /\ HookAt(h, "recompute")' \/ HookAt(h, "persist")' => Decided(d)'
                    /\ HookAt(h, "persist")' => hook'[h].verdict # "processing"
    BY DEF HooksAgree
<1> USE DEF HookAt
<1>1. CASE hook'[h] = hook[h]
    BY <1>1 DEF Synced, HooksAgree
<1>2. CASE hook'[h].pc = "recompute" /\ hook'[h].docs = hook[h].docs /\ Apply(h)
    <2>1. PICK e \in hook[h].docs :
            SetStatus(<<e, ExternalCall>>, IF hook[h].ok THEN "done" ELSE "error")
        BY <1>2 DEF Apply
    <2>2. e = d /\ <<d, ExternalCall>> \in Rows
        BY <1>2, <2>1, RowParts DEF ReadyInv, HooksBacked
    <2>3. status'[<<d, ExternalCall>>] \in {"done", "error"}
        BY <2>1, <2>2, UpdatesOne
    <2> QED
        BY <1>2, <2>3, DagAssumption DEF Decided, HasError
<1>3. CASE /\ hook'[h].pc = "persist" /\ hook'[h].docs = hook[h].docs
           /\ HookAt(h, "recompute")
           /\ \E e \in hook[h].docs : hook'[h].verdict = Derive(e)
    <2>1. Decided(d) /\ hook'[h].verdict = Derive(d)
        BY <1>3 DEF Synced, HooksAgree, ReadyInv, HooksBacked
    <2> QED
        BY <2>1, DerivesDecided
<1>4. CASE HookNext(h)
    BY <1>1, <1>2, <1>3, <1>4, HookMoves DEF IdleHook
<1>5. CASE ~HookNext(h)
    BY <1>1, <1>5, HookMoves DEF Next, vars
<1> QED
    BY <1>4, <1>5

(* So do reapers. *)
LEMMA ReapersStayAgreed ==
    ASSUME TypeOK, ReadyInv, [Next]_vars, NEW d \in Docs, Synced(d),
           Decided(d) => Decided(d)'
    PROVE  ReapersAgree(d)'
<1> SUFFICES ASSUME NEW r \in Reapers, d \in reaper'[r].failed
             PROVE  /\ Decided(d)'
                    /\ ReaperAt(r, "persist")' => reaper'[r].verdict # "processing"
    BY DEF ReapersAgree
<1> USE DEF ReaperAt
<1>1. CASE reaper'[r] = reaper[r]
    BY <1>1 DEF Synced, ReapersAgree
<1>2. ASSUME NEW step \in reaper[r].batch, SetStatus(step.row, "error"),
             reaper'[r].pc = "recompute", reaper'[r].failed = {step.row[1]}
      PROVE  Decided(d)'
    <2>1. step.row \in Rows /\ step.row = <<d, step.row[2]>> /\ step.row[2] \in Steps
        BY <1>2, RowParts DEF TypeOK, ReaperTypeOK, ReaperSessions, LoadedRows
    <2> QED
        BY <1>2, <2>1, UpdatesOne DEF Decided, HasError
<1>3. CASE /\ reaper'[r].pc = "persist" /\ reaper'[r].failed = reaper[r].failed
           /\ \E e \in reaper[r].failed : reaper'[r].verdict = Derive(e)
    <2>1. Decided(d) /\ reaper'[r].verdict = Derive(d)
        BY <1>3 DEF Synced, ReapersAgree, ReadyInv, ReapersBacked
    <2> QED
        BY <2>1, DerivesDecided
<1>4. CASE reaper'[r].pc = "batch" /\ reaper'[r].failed = reaper[r].failed
    BY <1>4 DEF Synced, ReapersAgree
<1>5. CASE ReaperNext(r)
    BY <1>2, <1>3, <1>4, <1>5, ReaperMoves
<1>6. CASE ~ReaperNext(r)
    BY <1>1, <1>6, ReaperMoves DEF Next, vars
<1> QED
    BY <1>5, <1>6

(* A verdict that is coming is stored, unless a process crashes. *)
LEMMA DecisionComes ==
    ASSUME TypeOK, StartedInv, ReadyInv, [Next]_vars, NoOverlap', crashes' = 0,
           NEW d \in Docs, Synced(d), Decided(d), Stored(d) => Stored(d)', DecisionComing(d)
    PROVE  Stored(d)' \/ DecisionComing(d)'
<1>1. ~Crash
    <2>1. crashes \in Nat
        BY DEF TypeOK, TransitionTypeOK
    <2> QED
        BY <2>1 DEF Crash
<1>2. Derive(d) # "processing"
    BY DerivesDecided
<1>3. ASSUME NEW e, NEW seen, NEW verdict \in Verdicts, Persist(e, seen, verdict), e = d,
             verdict # "processing", seen = "processing" \/ Stored(d)
      PROVE  Stored(d)'
    <2>1. CASE verdict # seen
        BY <1>3, <2>1 DEF Persist, Stored, Verdicts, TypeOK, StoreTypeOK
    <2>2. CASE verdict = seen
        BY <1>3, <2>2
    <2> QED
        BY <2>1, <2>2
<1>4. ASSUME NEW w \in Workers, DocOf(w) = d, WillDecide(worker[w])
      PROVE  Stored(d)' \/ DecisionComing(d)'
    <2>1. ~At(w, "idle") /\ ~At(w, "check") /\ worker[w].pc \in {"recompute", "persist"}
        BY <1>4 DEF WillDecide, At
    <2>2. CASE worker'[w] = worker[w]
        BY <1>4, <2>2 DEF DecisionComing, WillDecide, DocOf
    <2>3. CASE ClaimNext(w)
        <3>1. worker'[w].pc = "recompute" /\ worker'[w].row = worker[w].row
            BY <2>3, Triggers DEF ClaimNext, At, KeepsMessage
        <3> QED
            BY <1>4, <3>1 DEF DecisionComing, WillDecide, DocOf
    <2>4. CASE WorkerDerives(w)
        <3>1. /\ worker'[w].pc = "persist" /\ worker'[w].row = worker[w].row
              /\ worker'[w].verdict # "processing"
            BY <1>2, <1>4, <2>4, Derives DEF KeepsMessage
        <3> QED
            BY <1>4, <3>1 DEF DecisionComing, WillDecide, DocOf
    <2>5. CASE WorkerPersists(w)
        <3>1. /\ worker[w].verdict # "processing" /\ worker[w].verdict \in Verdicts
              /\ worker[w].seen = "processing" \/ Stored(d)
            BY <1>4, <2>1, <2>5
            DEF WorkerPersists, WillDecide, At, Synced, WorkersAgree, TypeOK, WorkerTypeOK,
                WorkerSessions
        <3> QED
            BY <1>3, <1>4, <2>5, <3>1 DEF WorkerPersists
    <2>6. ~LoseConnection(w)
        BY DEF LoseConnection, NoOverlap, TypeOK, TransitionTypeOK
    <2>7. CASE WorkerNext(w)
        BY <1>1, <2>1, <2>3, <2>4, <2>5, <2>6, <2>7
        DEF WorkerNext, WorkerStep, Deliver, CheckDocument, MarkRunning, SaveOutput,
            CallPartner, SaveJob, StepFails, ReadReady, Acknowledge, WorkerCrashes, At
    <2> QED
        BY <2>2, <2>7, OwnStep
<1>5. ASSUME NEW h \in Hooks, d \in hook[h].docs, WillDecide(hook[h])
      PROVE  Stored(d)' \/ DecisionComing(d)'
    <2>1. CASE hook'[h] = hook[h]
        BY <1>5, <2>1 DEF DecisionComing, WillDecide
    <2>2. CASE HookPersists(h)
        <3>1. hook[h].verdict \in Verdicts /\ hook[h].verdict # "processing"
            BY <1>5, <2>2 DEF HookPersists, HookAt, WillDecide, TypeOK, HookTypeOK, HookSessions
        <3>2. Persist(d, docStatus[d], hook[h].verdict)
            BY <1>5, <2>2 DEF HookPersists, ReadyInv, HooksBacked
        <3>3. docStatus'[d] = hook[h].verdict
            BY <3>2 DEF Persist, TypeOK, StoreTypeOK
        <3> QED
            BY <3>1, <3>3 DEF Stored, Verdicts
    <2>3. CASE HookDerives(h)
        <3>1. /\ hook'[h].pc = "persist" /\ hook'[h].docs = hook[h].docs
              /\ \E e \in hook[h].docs : hook'[h].verdict = Derive(e)
            BY <1>5, <2>3 DEF HookDerives, TypeOK, HookTypeOK, HookSessions
        <3> QED
            BY <1>2, <1>5, <3>1 DEF DecisionComing, WillDecide, ReadyInv, HooksBacked
    <2>4. CASE HookNext(h)
        BY <1>1, <1>5, <2>1, <2>2, <2>3, <2>4
        DEF HookNext, HookStep, Receive, Apply, HookCrashes, HookAt, WillDecide
    <2> QED
        BY <2>1, <2>4, HookMoves DEF Next, vars
<1>6. ASSUME NEW r \in Reapers, d \in reaper[r].failed, WillDecide(reaper[r])
      PROVE  Stored(d)' \/ DecisionComing(d)'
    <2>1. CASE reaper'[r] = reaper[r]
        BY <1>6, <2>1 DEF DecisionComing, WillDecide
    <2>2. CASE ReaperPersists(r)
        <3>1. reaper[r].verdict \in Verdicts /\ reaper[r].verdict # "processing"
            BY <1>6, <2>2
            DEF ReaperPersists, ReaperAt, WillDecide, TypeOK, ReaperTypeOK, ReaperSessions
        <3>2. Persist(d, docStatus[d], reaper[r].verdict)
            BY <1>6, <2>2 DEF ReaperPersists, ReadyInv, ReapersBacked
        <3>3. docStatus'[d] = reaper[r].verdict
            BY <3>2 DEF Persist, TypeOK, StoreTypeOK
        <3> QED
            BY <3>1, <3>3 DEF Stored, Verdicts
    <2>3. CASE ReaperDerives(r)
        <3>1. /\ reaper'[r].pc = "persist" /\ reaper'[r].failed = reaper[r].failed
              /\ \E e \in reaper[r].failed : reaper'[r].verdict = Derive(e)
            BY <1>6, <2>3 DEF ReaperDerives, TypeOK, ReaperTypeOK, ReaperSessions
        <3> QED
            BY <1>2, <1>6, <3>1 DEF DecisionComing, WillDecide, ReadyInv, ReapersBacked
    <2>4. CASE ReaperNext(r)
        BY <1>1, <1>6, <2>2, <2>3, <2>4
        DEF ReaperNext, Wake, ReaperStep, ScanInFlight, ScanCallbacks, EndIteration, Fail,
            Republish, LeaveRunning, ReaperCrashes, ReaperAt, WillDecide
    <2> QED
        BY <2>1, <2>4, ReaperMoves DEF Next, vars
<1> QED
    BY <1>4, <1>5, <1>6 DEF DecisionComing


(* A step that decides the document leaves a session that will store    *)
(* the verdict.                                                         *)
LEMMA DecisionBegins ==
    ASSUME TypeOK, [Next]_vars, NEW d \in Docs, ~Decided(d), Decided(d)'
    PROVE  DecisionComing(d)'
<1>1. PICK s \in Steps, outcome \in {"error", "done"} :
        /\ status'[<<d, s>>] = outcome /\ status[<<d, s>>] # outcome
        /\ outcome = "done" => s = ExternalCall
    BY DagAssumption DEF Decided, HasError
<1>2. PICK row \in Rows : row = <<d, s>> /\ row[1] = d /\ row[2] = s
    BY RowParts
<1>3. ASSUME NEW w \in Workers, worker[w].row = row, Goto(w, "recompute")
      PROVE  DecisionComing(d)'
    <2>1. worker'[w].pc = "recompute" /\ worker'[w].row = row
        BY <1>3, Moves DEF KeepsMessage
    <2> QED
        BY <1>2, <2>1 DEF DecisionComing, WillDecide, DocOf
<1>4. ASSUME NEW h \in Hooks, Apply(h), d \in hook[h].docs
      PROVE  DecisionComing(d)'
    <2>1. hook'[h].pc = "recompute" /\ hook'[h].docs = hook[h].docs
        BY <1>4 DEF Apply, TypeOK, HookTypeOK, HookSessions
    <2> QED
        BY <1>4, <2>1 DEF DecisionComing, WillDecide
<1>5. ASSUME NEW r \in Reapers, reaper'[r].pc = "recompute", reaper'[r].failed = {d}
      PROVE  DecisionComing(d)'
    BY <1>5 DEF DecisionComing, WillDecide
<1> QED
    BY <1>1, <1>2, <1>3, <1>4, <1>5, OutcomesCome

(* Every step keeps the two statuses in step. *)
LEMMA SyncKept ==
    ASSUME TypeOK, StartedInv, ReadyInv, DeliveryInv, SyncInv, [Next]_vars, NoOverlap',
           crashes' = 0
    PROVE  SyncInv'
<1> SUFFICES ASSUME NEW d \in Docs
             PROVE  Synced(d)'
    BY DEF SyncInv
<1>1. Synced(d)
    BY DEF SyncInv
<1>2. Decided(d) => Decided(d)'
    BY NextKeepsDelivery, DecisionsStay
<1>3. Stored(d) => Stored(d)'
    BY <1>1, OnlyVerdictsWritten DEF Stored
<1>4. Stored(d)' => Decided(d)'
    BY <1>1, <1>2, OnlyVerdictsWritten DEF Stored, Synced, DecisionStored
<1>5. Decided(d)' => Stored(d)' \/ DecisionComing(d)'
    BY <1>1, <1>3, DecisionComes, DecisionBegins DEF Synced, DecisionStored
<1>6. WorkersAgree(d)' /\ HooksAgree(d)' /\ ReapersAgree(d)'
    BY <1>1, <1>2, <1>3, WorkersStayAgreed, HooksStayAgreed, ReapersStayAgreed
<1> QED
    BY <1>4, <1>5, <1>6 DEF Synced, DecisionStored

(* With nobody working on it, a document has the status its steps       *)
(* derive to, for every constant, unless a process crashed: sessions    *)
(* that recompute it together do not lose a verdict. Where a completed  *)
(* report was stored beside another outcome of the call, the verdict    *)
(* may be that of the other one, but there is one.                      *)
THEOREM StatusFollowsSteps == Spec => []SettledInSync
<1>1. Init => SyncInv
    <2> SUFFICES ASSUME Init, NEW d \in Docs
                 PROVE  Synced(d)
        BY DEF SyncInv
    <2>1. DecisionStored(d)
        BY RowParts DEF Init, StoreInit, DecisionStored, Decided, HasError, Stored
    <2>2. WorkersAgree(d)
        BY DEF Init, WorkerInit, IdleWorker, WorkersAgree, At
    <2>3. HooksAgree(d) /\ ReapersAgree(d)
        BY DEF Init, HookInit, IdleHook, ReaperInit, IdleReaper, HooksAgree, ReapersAgree
    <2> QED
        BY <2>1, <2>2, <2>3 DEF Synced
<1>2. TypeOK /\ StartedInv /\ ReadyInv /\ (NoOverlap => DeliveryInv)
        /\ (NoOverlap /\ crashes = 0 => SyncInv) /\ [Next]_vars
        => (NoOverlap /\ crashes = 0 => SyncInv)'
    BY FaultsCounted, SyncKept
<1>3. TypeOK /\ ReadyInv /\ (NoOverlap /\ crashes = 0 => SyncInv) => SettledInSync
    <2> SUFFICES ASSUME TypeOK, ReadyInv, SyncInv, NEW d \in Docs, docStatus[d] # "absent",
                        ~Busy(d), docStatus[d] # Derive(d)
                 PROVE  /\ result[<<d, ExternalCall>>]
                        /\ {docStatus[d], Derive(d)} = {"ready", "failed"}
        BY DEF SettledInSync
    <2>1. ~DecisionComing(d)
        <3>1. \A w \in Workers : WillDecide(worker[w]) => worker[w].row # NoRow
            BY NoRowIsNoRow DEF WillDecide, TypeOK, WorkerTypeOK
        <3> QED
            BY <3>1 DEF Busy, DecisionComing
    <2>2. Stored(d) <=> Decided(d)
        BY <2>1 DEF SyncInv, Synced, DecisionStored
    <2>3. docStatus[d] \in {"processing", "ready", "failed"}
        BY DEF TypeOK, StoreTypeOK, DocStatuses
    <2>4. docStatus[d] \in {"ready", "failed"} /\ Derive(d) \in {"ready", "failed"}
        BY <2>2, <2>3, DerivesDecided DEF Stored
    <2>5. docStatus[d] = "ready" => result[<<d, ExternalCall>>]
        BY DEF ReadyInv, ReadyBacked, Backed
    <2>6. Derive(d) = "ready" => result[<<d, ExternalCall>>]
        BY DerivesReady DEF ReadyInv, DoneBacked, Backed
    <2> QED
        BY <2>4, <2>5, <2>6
<1> QED
    BY <1>1, <1>2, <1>3, DeliveryAlways, ReadyAlways, TypeCorrect, PTL DEF Spec

====
