------------------------ MODULE PipelineProofs ---------------------
(* Proofs about Pipeline for every graph, every number of documents,    *)
(* workers, requests and reapers, and every bound on faults.            *)
EXTENDS Pipeline, TLAPS

(* The initial status of a step is a status. *)
LEMMA InitTypeOK == Init => TypeOK
<1> SUFFICES ASSUME Init PROVE TypeOK
    OBVIOUS
<1>1. StoreTypeOK
    BY DEF Init, StoreInit, StoreTypeOK, StepStatuses, DocStatuses
<1>2. BrokerTypeOK /\ TransitionTypeOK
    BY BrokerAssumption, TransitionAssumption
    DEF Init, BrokerInit, TransitionInit, BrokerTypeOK, TransitionTypeOK
<1>3. PartnerTypeOK
    BY DEF Init, PartnerInit, PartnerTypeOK
<1>4. WorkerTypeOK
    BY BrokerAssumption
    DEF Init, WorkerInit, WorkerTypeOK, IdleWorker, WorkerSessions, StepStatuses,
        DocStatuses, Verdicts
<1>5. HookTypeOK /\ ReaperTypeOK
    BY DEF Init, HookInit, ReaperInit, StoreInit, HookTypeOK, ReaperTypeOK, IdleHook,
           IdleReaper, HookSessions, ReaperSessions, Verdicts
<1>6. backlogs \in 0..MaxBacklogs
    BY PipelineAssumption DEF Init
<1> QED
    BY <1>1, <1>2, <1>3, <1>4, <1>5, <1>6 DEF TypeOK

(* Publishing, taking and returning messages keep the queues' type. *)
LEMMA PublishTypeOK ==
    ASSUME NEW rows \in SUBSET Rows, BrokerTypeOK, Publish(rows)
    PROVE  BrokerTypeOK'
<1>1. PICK lost \in SUBSET rows :
        /\ queue' = [row \in Rows |->
              IF row \in rows \ lost THEN [queue[row] EXCEPT ![0] = @ + 1]
                                     ELSE queue[row]]
        /\ losses' = IF lost = {} THEN losses ELSE losses + 1
        /\ losses' <= MaxLosses
    BY DEF Publish
<1>2. queue' \in [Rows -> [0..MaxAttempts -> Nat]]
    BY <1>1, BrokerAssumption DEF BrokerTypeOK
<1>3. losses' \in 0..MaxLosses
    BY <1>1, BrokerAssumption DEF BrokerTypeOK
<1> QED
    BY <1>2, <1>3 DEF BrokerTypeOK

(* Taking a copy off a queue leaves a number of copies. *)
LEMMA TakeTypeOK ==
    ASSUME NEW row \in Rows, NEW n \in 0..MaxAttempts, BrokerTypeOK, Take(row, n)
    PROVE  queue' \in [Rows -> [0..MaxAttempts -> Nat]]
<1>1. queue[row] \in [0..MaxAttempts -> Nat] /\ queue[row][n] \in Nat
    BY DEF BrokerTypeOK
<1>2. [queue[row] EXCEPT ![n] = @ - 1] \in [0..MaxAttempts -> Nat]
    BY <1>1 DEF Take
<1> QED
    BY <1>2 DEF BrokerTypeOK, Take

(* A counter of a function of counters may be incremented. *)
LEMMA IncrementType ==
    ASSUME NEW S, NEW f \in [S -> Nat], NEW m \in S
    PROVE  [f EXCEPT ![m] = @ + 1] \in [S -> Nat]
    OBVIOUS

(* Returning a copy, below the delivery limit or past it. *)
LEMMA RequeueTypeOK ==
    ASSUME NEW row \in Rows, NEW n \in 0..MaxAttempts, BrokerTypeOK, Requeue(row, n)
    PROVE  queue' \in [Rows -> [0..MaxAttempts -> Nat]]
<1>1. CASE n < MaxAttempts
    <2>1. n + 1 \in 0..MaxAttempts
        BY <1>1, BrokerAssumption
    <2>2. [queue[row] EXCEPT ![n + 1] = @ + 1] \in [0..MaxAttempts -> Nat]
        BY <2>1, IncrementType DEF BrokerTypeOK
    <2> QED
        BY <1>1, <2>2 DEF BrokerTypeOK, Requeue
<1>2. CASE ~(n < MaxAttempts)
    BY <1>2 DEF BrokerTypeOK, Requeue
<1> QED
    BY <1>1, <1>2

(* What recompute_document_status derives is a document status. *)
LEMMA DeriveType == \A d : Derive(d) \in Verdicts
    BY DEF Derive, Verdicts

(* A row is a document and a step. *)
LEMMA RowParts ==
    /\ \A row \in Rows : row[1] \in Docs /\ row[2] \in Steps /\ row = <<row[1], row[2]>>
    /\ \A d \in Docs, s \in Steps : <<d, s>> \in Rows
    /\ \A d \in Docs : <<d, ExternalCall>> \in Rows
    BY DagAssumption DEF Rows

(* The UPDATE of a row's status keeps the type of the table. *)
LEMMA SetStatusTypeOK ==
    ASSUME StoreTypeOK, NEW row \in Rows, NEW new \in StepStatuses, SetStatus(row, new)
    PROVE  /\ status' \in [Rows -> StepStatuses]
           /\ stale' \subseteq Rows
    BY DEF SetStatus, StoreTypeOK

(* So does the UPDATE of a document. *)
LEMMA PersistTypeOK ==
    ASSUME StoreTypeOK, NEW d \in Docs, NEW seen, NEW verdict \in Verdicts,
           Persist(d, seen, verdict)
    PROVE  docStatus' \in [Docs -> DocStatuses]
    BY DEF Persist, StoreTypeOK, DocStatuses, Verdicts

(* A crash is counted. *)
LEMMA CrashTypeOK ==
    ASSUME TransitionTypeOK, Crash
    PROVE  TransitionTypeOK'
    BY TransitionAssumption DEF Crash, TransitionTypeOK

(* Winning or losing a claim keeps the types. *)
LEMMA ClaimAndPublishTypeOK ==
    ASSUME TypeOK, NEW row \in Rows, ClaimAndPublish(row),
           UNCHANGED <<attempts, result, jobId, docStatus, crashes, disconnects>>
    PROVE  StoreTypeOK' /\ BrokerTypeOK' /\ TransitionTypeOK'
<1> USE DEF TypeOK
<1>1. CASE /\ SetStatus(row, "queued")
           /\ claims' = [claims EXCEPT ![row] = @ + 1]
           /\ Publish({row})
    <2>1. StoreTypeOK'
        BY <1>1, SetStatusTypeOK DEF StoreTypeOK, StepStatuses
    <2>2. BrokerTypeOK'
        BY <1>1, PublishTypeOK
    <2>3. TransitionTypeOK'
        BY <1>1 DEF TransitionTypeOK
    <2> QED
        BY <2>1, <2>2, <2>3
<1>2. CASE UNCHANGED <<status, stale, claims, queue, losses>>
    BY <1>2 DEF StoreTypeOK, BrokerTypeOK, TransitionTypeOK
<1> QED
    BY <1>1, <1>2 DEF ClaimAndPublish

(* A worker's session may become any other session. *)
LEMMA SessionTypeOK ==
    ASSUME WorkerTypeOK, NEW w \in Workers, NEW session \in WorkerSessions,
           session.pc # "idle" => session.row \in Rows,
           worker' = [worker EXCEPT ![w] = session]
    PROVE  WorkerTypeOK'
    BY DEF WorkerTypeOK

(* What the steps of a handler write into its session keeps it one, and *)
(* leaves the row it handles alone.                                     *)
LEMMA SessionUpdates ==
    ASSUME NEW session \in WorkerSessions
    PROVE  /\ \A seen \in DocStatuses :
                 LET new == [session EXCEPT !.pc = "mark", !.seen = seen]
                 IN  new \in WorkerSessions /\ new.row = session.row
           /\ \A j \in Jobs :
                 LET new == [session EXCEPT !.pc = "called", !.job = j]
                 IN  new \in WorkerSessions /\ new.row = session.row
           /\ \A todo \in SUBSET Steps :
                 LET new == [session EXCEPT !.pc = "recompute", !.todo = todo]
                 IN  new \in WorkerSessions /\ new.row = session.row
           /\ \A todo \in SUBSET Steps :
                 LET new == [session EXCEPT !.todo = todo]
                 IN  new \in WorkerSessions /\ new.row = session.row
           /\ \A verdict \in Verdicts :
                 LET new == [session EXCEPT !.pc = "persist", !.verdict = verdict]
                 IN  new \in WorkerSessions /\ new.row = session.row
           /\ LET new == [session EXCEPT !.live = FALSE]
              IN  new \in WorkerSessions /\ new.row = session.row
<1>1. ASSUME NEW seen \in DocStatuses
      PROVE  LET new == [session EXCEPT !.pc = "mark", !.seen = seen]
             IN  new \in WorkerSessions /\ new.row = session.row
    BY DEF WorkerSessions
<1>2. ASSUME NEW j \in Jobs
      PROVE  LET new == [session EXCEPT !.pc = "called", !.job = j]
             IN  new \in WorkerSessions /\ new.row = session.row
    BY DEF WorkerSessions
<1>3. ASSUME NEW todo \in SUBSET Steps
      PROVE  LET new == [session EXCEPT !.pc = "recompute", !.todo = todo]
             IN  new \in WorkerSessions /\ new.row = session.row
    BY DEF WorkerSessions
<1>4. ASSUME NEW todo \in SUBSET Steps
      PROVE  LET new == [session EXCEPT !.todo = todo]
             IN  new \in WorkerSessions /\ new.row = session.row
    BY DEF WorkerSessions
<1>5. ASSUME NEW verdict \in Verdicts
      PROVE  LET new == [session EXCEPT !.pc = "persist", !.verdict = verdict]
             IN  new \in WorkerSessions /\ new.row = session.row
    BY DEF WorkerSessions
<1>6. LET new == [session EXCEPT !.live = FALSE]
      IN  new \in WorkerSessions /\ new.row = session.row
    BY DEF WorkerSessions
<1> QED
    BY <1>1, <1>2, <1>3, <1>4, <1>5, <1>6

(* The worker's bookkeeping: where it is, and that it starts afresh. *)
LEMMA WorkerMoves ==
    ASSUME TypeOK, NEW w \in Workers
    PROVE  /\ \A pc \in {"check", "mark", "run", "called", "trigger", "recompute",
                         "persist", "ack"} :
                ~At(w, "idle") /\ Goto(w, pc) => WorkerTypeOK'
           /\ Finish(w) => WorkerTypeOK'
           /\ ~At(w, "idle") =>
                /\ worker[w].row \in Rows /\ DocOf(w) \in Docs /\ StepOf(w) \in Steps
                /\ worker[w].row = <<DocOf(w), StepOf(w)>>
                /\ worker[w].count \in 0..MaxAttempts
<1> USE DEF TypeOK, WorkerTypeOK
<1>1. IdleWorker \in WorkerSessions
    BY BrokerAssumption
    DEF IdleWorker, WorkerSessions, StepStatuses, DocStatuses, Verdicts
<1>2. ASSUME NEW pc \in {"check", "mark", "run", "called", "trigger", "recompute",
                         "persist", "ack"},
             ~At(w, "idle"), Goto(w, pc)
      PROVE  WorkerTypeOK'
    <2> DEFINE session == [worker[w] EXCEPT !.pc = pc]
    <2>1. session \in WorkerSessions /\ session.row \in Rows
        BY <1>2 DEF At, WorkerSessions
    <2>2. worker' = [worker EXCEPT ![w] = session]
        BY <1>2 DEF Goto
    <2> QED
        BY <2>1, <2>2, SessionTypeOK
<1>3. ASSUME Finish(w)
      PROVE  WorkerTypeOK'
    BY <1>1, <1>3 DEF Finish, IdleWorker
<1>4. ASSUME ~At(w, "idle")
      PROVE  /\ worker[w].row \in Rows /\ worker[w].count \in 0..MaxAttempts
             /\ DocOf(w) \in Docs /\ StepOf(w) \in Steps
             /\ worker[w].row = <<DocOf(w), StepOf(w)>>
    BY <1>4, RowParts DEF At, WorkerSessions, DocOf, StepOf
<1> QED
    BY <1>2, <1>3, <1>4

(* A message given back goes to its queue, or the broker had it already. *)
LEMMA GiveBackTypeOK ==
    ASSUME TypeOK, NEW w \in Workers, ~At(w, "idle"), GiveBack(w)
    PROVE  queue' \in [Rows -> [0..MaxAttempts -> Nat]]
    BY WorkerMoves, RequeueTypeOK DEF GiveBack, TypeOK, BrokerTypeOK

(* No step of a worker leaves the types. *)
LEMMA WorkerTypes ==
    ASSUME TypeOK, NEW w \in Workers, WorkerNext(w), UNCHANGED <<hook, reaper, backlogs>>
    PROVE  TypeOK'
<1>a. worker[w] \in WorkerSessions
    BY DEF TypeOK, WorkerTypeOK
<1>b. ~At(w, "idle") => worker[w].row \in Rows
    BY DEF TypeOK, WorkerTypeOK, At
<1> USE DEF TypeOK
<1> DEFINE Types == /\ StoreTypeOK /\ BrokerTypeOK /\ TransitionTypeOK
                    /\ PartnerTypeOK /\ WorkerTypeOK
<1> SUFFICES Types' /\ UNCHANGED locks
    BY DEF HookTypeOK, ReaperTypeOK
<1> USE DEF StoreTypeOK, BrokerTypeOK, TransitionTypeOK, PartnerTypeOK,
            storeVars, brokerVars, transitionVars, partnerVars
<1>1. CASE Deliver(w)
    <2>1. PICK row \in Rows, n \in 0..MaxAttempts :
            /\ Take(row, n)
            /\ IF status[row] \in TerminalForRun
               THEN UNCHANGED worker
               ELSE worker' = [worker EXCEPT ![w] = [IdleWorker EXCEPT
                        !.pc = "check", !.row = row, !.count = n, !.live = TRUE,
                        !.status = status[row], !.attempts = attempts[row],
                        !.inputs = \A s \in Inputs[row[2]] : result[row[1], s]]]
        BY <1>1 DEF Deliver
    <2>2. BrokerTypeOK'
        BY <1>1, <2>1, TakeTypeOK DEF Deliver
    <2> DEFINE session == [IdleWorker EXCEPT
              !.pc = "check", !.row = row, !.count = n, !.live = TRUE,
              !.status = status[row], !.attempts = attempts[row],
              !.inputs = \A s \in Inputs[row[2]] : result[row[1], s]]
    <2>3. session \in WorkerSessions /\ session.row \in Rows
        BY DEF IdleWorker, WorkerSessions, DocStatuses, Verdicts
    <2>4. worker' = worker \/ worker' = [worker EXCEPT ![w] = session]
        BY <2>1
    <2>5. WorkerTypeOK'
        BY <2>3, <2>4, SessionTypeOK DEF WorkerTypeOK
    <2> QED
        BY <1>1, <2>2, <2>5 DEF Deliver
<1>2. CASE CheckDocument(w)
    <2>1. CASE Finish(w)
        BY <1>2, <2>1, WorkerMoves DEF CheckDocument
    <2>2. CASE worker' = [worker EXCEPT ![w] =
                            [@ EXCEPT !.pc = "mark", !.seen = docStatus[DocOf(w)]]]
        <3> DEFINE session == [worker[w] EXCEPT !.pc = "mark", !.seen = docStatus[DocOf(w)]]
        <3>1. docStatus[DocOf(w)] \in DocStatuses /\ worker[w].row \in Rows
            BY <1>2, WorkerMoves DEF CheckDocument, At
        <3>2. session \in WorkerSessions /\ session.row \in Rows
            BY ONLY <1>a, <3>1, SessionUpdates
        <3>3. worker' = [worker EXCEPT ![w] = session]
            BY <2>2
        <3>4. WorkerTypeOK'
            BY <3>2, <3>3, SessionTypeOK
        <3> QED
            BY <1>2, <3>4 DEF CheckDocument
    <2> QED
        BY <1>2, <2>1, <2>2 DEF CheckDocument
<1>3. CASE MarkRunning(w)
    <2>1. worker[w].row \in Rows /\ WorkerTypeOK'
        BY <1>3, WorkerMoves DEF MarkRunning, At
    <2> QED
        BY <1>3, <2>1, SetStatusTypeOK DEF MarkRunning, StepStatuses
<1>4. CASE SaveOutput(w)
    <2>1. worker[w].row \in Rows /\ WorkerTypeOK'
        BY <1>4, WorkerMoves DEF SaveOutput, At
    <2> QED
        BY <1>4, <2>1, SetStatusTypeOK DEF SaveOutput, StepStatuses
<1>5. CASE CallPartner(w)
    <2>1. PICK j \in Jobs :
            /\ StartJob(DocOf(w), j)
            /\ worker' = [worker EXCEPT ![w] = [@ EXCEPT !.pc = "called", !.job = j]]
        BY <1>5 DEF CallPartner
    <2> DEFINE session == [worker[w] EXCEPT !.pc = "called", !.job = j]
    <2>2. DocOf(w) \in Docs /\ worker[w].row \in Rows
        BY <1>5, WorkerMoves DEF CallPartner, At
    <2>3. PartnerTypeOK'
        BY <1>5, <2>1, <2>2 DEF CallPartner, StartJob
    <2>4. session \in WorkerSessions /\ session.row \in Rows
        BY ONLY <1>a, <2>2, SessionUpdates, j \in Jobs
    <2>5. WorkerTypeOK'
        BY <2>1, <2>4, SessionTypeOK
    <2> QED
        BY <1>5, <2>3, <2>5 DEF CallPartner
<1>6. CASE SaveJob(w)
    <2>1. /\ worker[w].row \in Rows /\ WorkerTypeOK'
          /\ DocOf(w) \in Docs /\ worker[w].job \in Jobs \cup {NoJob}
        BY <1>6, WorkerMoves DEF SaveJob, At, WorkerTypeOK, WorkerSessions
    <2> QED
        BY <1>6, <2>1, SetStatusTypeOK DEF SaveJob, StepStatuses
<1>7. CASE StepFails(w)
    <2>1. worker[w].row \in Rows /\ worker[w].attempts + 1 \in Nat
        BY <1>7, WorkerMoves DEF StepFails, At, WorkerTypeOK, WorkerSessions
    <2>2. /\ status' \in [Rows -> StepStatuses] /\ stale' \subseteq Rows
          /\ attempts' \in [Rows -> Nat]
        BY <1>7, <2>1, SetStatusTypeOK DEF StepFails, StepStatuses
    <2>3. WorkerTypeOK' /\ queue' \in [Rows -> [0..MaxAttempts -> Nat]]
        BY <1>7, WorkerMoves, GiveBackTypeOK DEF StepFails, At
    <2> QED
        BY <1>7, <2>2, <2>3 DEF StepFails
<1>8. CASE ReadReady(w)
    <2> DEFINE session == [worker[w] EXCEPT !.pc = "recompute", !.todo = Ready(DocOf(w))]
    <2>a. Ready(DocOf(w)) \in SUBSET Steps
        BY DEF Ready, ReadySuccessors
    <2>b. worker[w].row \in Rows
        BY <1>b, <1>8 DEF ReadReady, At
    <2>1. session \in WorkerSessions /\ session.row \in Rows
        BY ONLY <1>a, <2>a, <2>b, SessionUpdates
    <2>2. WorkerTypeOK'
        BY <1>8, <2>1, SessionTypeOK DEF ReadReady
    <2> QED
        BY <1>8, <2>2 DEF ReadReady
<1>9. CASE ClaimNext(w)
    <2>1. PICK s \in worker[w].todo :
            /\ ClaimAndPublish(<<DocOf(w), s>>)
            /\ worker' = [worker EXCEPT ![w].todo = @ \ {s}]
        BY <1>9 DEF ClaimNext
    <2>2. s \in Steps
        BY DEF WorkerTypeOK, WorkerSessions
    <2>3. <<DocOf(w), s>> \in Rows
        BY <1>9, <2>2, WorkerMoves, RowParts DEF ClaimNext, At
    <2>4. StoreTypeOK' /\ BrokerTypeOK' /\ TransitionTypeOK'
        BY <1>9, <2>1, <2>3, ClaimAndPublishTypeOK DEF ClaimNext
    <2> DEFINE session == [worker[w] EXCEPT !.todo = @ \ {s}]
    <2>a. worker[w].todo \ {s} \in SUBSET Steps
        BY ONLY <1>a DEF WorkerSessions
    <2>b. worker[w].row \in Rows
        BY <1>b, <1>9 DEF ClaimNext, At
    <2>5. session \in WorkerSessions /\ session.row \in Rows
        BY ONLY <1>a, <2>a, <2>b, SessionUpdates
    <2>6. WorkerTypeOK'
        BY <2>1, <2>5, SessionTypeOK
    <2> QED
        BY <1>9, <2>4, <2>6 DEF ClaimNext
<1>10. CASE WorkerDerives(w)
    <2> DEFINE session == [worker[w] EXCEPT !.pc = "persist", !.verdict = Derive(DocOf(w))]
    <2>a. Derive(DocOf(w)) \in Verdicts
        BY DeriveType
    <2>b. worker[w].row \in Rows
        BY <1>b, <1>10 DEF WorkerDerives, At
    <2>1. session \in WorkerSessions /\ session.row \in Rows
        BY ONLY <1>a, <2>a, <2>b, SessionUpdates
    <2>2. WorkerTypeOK'
        BY <1>10, <2>1, SessionTypeOK DEF WorkerDerives
    <2> QED
        BY <1>10, <2>2 DEF WorkerDerives
<1>11. CASE WorkerPersists(w)
    <2>1. WorkerTypeOK' /\ DocOf(w) \in Docs /\ worker[w].verdict \in Verdicts
        BY <1>11, WorkerMoves DEF WorkerPersists, At, WorkerTypeOK, WorkerSessions
    <2> QED
        BY <1>11, <2>1, PersistTypeOK DEF WorkerPersists
<1>12. CASE Acknowledge(w)
    BY <1>12, WorkerMoves DEF Acknowledge
<1>13. CASE WorkerCrashes(w)
    BY <1>13, WorkerMoves, GiveBackTypeOK, CrashTypeOK DEF WorkerCrashes
<1>14. CASE LoseConnection(w)
    <2> DEFINE session == [worker[w] EXCEPT !.live = FALSE]
    <2>b. worker[w].row \in Rows
        BY <1>b, <1>14 DEF LoseConnection
    <2>1. session \in WorkerSessions /\ session.row \in Rows
        BY ONLY <1>a, <2>b, SessionUpdates
    <2>2. disconnects' \in 0..MaxDisconnects
        BY <1>14, TransitionAssumption DEF LoseConnection
    <2>3. WorkerTypeOK'
        BY <1>14, <2>1, SessionTypeOK DEF LoseConnection
    <2> QED
        BY <1>14, <2>2, <2>3, GiveBackTypeOK DEF LoseConnection
<1> QED
    BY <1>1, <1>2, <1>3, <1>4, <1>5, <1>6, <1>7, <1>8, <1>9, <1>10, <1>11, <1>12, <1>13,
       <1>14 DEF WorkerNext, WorkerStep

(* Nor does an upload, or the clock. *)
LEMMA UploadTypes ==
    ASSUME TypeOK, NEW d \in Docs, Upload(d),
           UNCHANGED <<partnerVars, worker, hook, reaper, backlogs>>
    PROVE  TypeOK'
<1> USE DEF TypeOK
<1>1. {d} \X EntryNodes \in SUBSET Rows
    BY DEF Rows, EntryNodes
<1>2. BrokerTypeOK'
    BY <1>1, PublishTypeOK DEF Upload
<1>3. \A s : InitialStatus(s) \in StepStatuses
    BY DEF InitialStatus, StepStatuses
<1>4. StoreTypeOK'
    BY <1>3 DEF Upload, StoreTypeOK, DocStatuses
<1>5. TransitionTypeOK' /\ PartnerTypeOK' /\ WorkerTypeOK' /\ HookTypeOK' /\ ReaperTypeOK'
    BY DEF Upload, transitionVars, partnerVars, TransitionTypeOK, PartnerTypeOK,
           WorkerTypeOK, HookTypeOK, ReaperTypeOK
<1> QED
    BY <1>2, <1>4, <1>5

(* The clock makes a row of the table stale, nothing else. *)
LEMMA AgeTypes ==
    ASSUME TypeOK, NEW row \in Rows, Age(row),
           UNCHANGED <<brokerVars, transitionVars, partnerVars, worker, hook, reaper,
                       backlogs>>
    PROVE  TypeOK'
    BY DEF TypeOK, Age, brokerVars, transitionVars, partnerVars, StoreTypeOK,
           BrokerTypeOK, TransitionTypeOK, PartnerTypeOK, WorkerTypeOK, HookTypeOK,
           ReaperTypeOK

(* No step of a request leaves the types. *)
LEMMA HookTypes ==
    ASSUME TypeOK, NEW h \in Hooks, HookNext(h), UNCHANGED <<worker, reaper, backlogs>>
    PROVE  TypeOK'
<1> USE DEF TypeOK
<1> DEFINE Types == /\ StoreTypeOK /\ BrokerTypeOK /\ TransitionTypeOK
                    /\ PartnerTypeOK /\ HookTypeOK
<1> SUFFICES Types' /\ UNCHANGED locks
    BY DEF WorkerTypeOK, ReaperTypeOK
<1> USE DEF StoreTypeOK, BrokerTypeOK, TransitionTypeOK, PartnerTypeOK,
            storeVars, brokerVars, transitionVars, partnerVars
<1>1. IdleHook \in HookSessions
    BY DEF IdleHook, HookSessions, Verdicts
<1>2. hook[h] \in HookSessions
    BY DEF HookTypeOK
<1>3. CASE Receive(h)
    <2>1. completed' \subseteq Jobs
        BY <1>3 DEF Receive
    <2> DEFINE found(j) == {d \in DocsOfJob(j) : ~AlreadyTerminal(<<d, ExternalCall>>)}
               session(j, ok) == [IdleHook EXCEPT !.pc = "apply", !.docs = found(j),
                                                  !.ok = ok]
    <2>2. \A j : found(j) \in SUBSET Docs
        BY DEF DocsOfJob
    <2>3. \A j \in Jobs, ok \in BOOLEAN : session(j, ok) \in HookSessions
        BY <2>2 DEF IdleHook, HookSessions, Verdicts
    <2>4. PICK j \in Jobs, ok \in BOOLEAN :
            hook' = hook \/ hook' = [hook EXCEPT ![h] = session(j, ok)]
        BY <1>3 DEF Receive
    <2>5. CASE hook' = [hook EXCEPT ![h] = session(j, ok)]
        <3>1. session(j, ok) \in HookSessions
            BY <2>3
        <3> HIDE DEF session
        <3> QED
            BY <1>3, <2>1, <2>5, <3>1 DEF Receive, HookTypeOK
    <2> QED
        BY <1>3, <2>1, <2>4, <2>5 DEF Receive, HookTypeOK
<1>4. CASE Apply(h)
    <2>1. PICK d \in hook[h].docs :
            /\ SetStatus(<<d, ExternalCall>>, IF hook[h].ok THEN "done" ELSE "error")
            /\ result' = IF hook[h].ok
                         THEN [result EXCEPT ![<<d, ExternalCall>>] = TRUE] ELSE result
        BY <1>4 DEF Apply
    <2>2. <<d, ExternalCall>> \in Rows
        BY <1>2, RowParts DEF HookSessions
    <2>3. StoreTypeOK'
        BY <1>4, <2>1, <2>2, SetStatusTypeOK DEF Apply, StepStatuses
    <2>4. [hook[h] EXCEPT !.pc = "recompute"] \in HookSessions
        BY <1>2 DEF HookSessions
    <2> QED
        BY <1>4, <2>3, <2>4 DEF Apply, HookTypeOK
<1>5. CASE HookDerives(h)
    <2>1. \A v \in Verdicts :
            [hook[h] EXCEPT !.pc = "persist", !.verdict = v] \in HookSessions
        BY <1>2 DEF HookSessions
    <2>2. PICK d \in hook[h].docs :
            hook' = [hook EXCEPT ![h] = [@ EXCEPT !.pc = "persist", !.verdict = Derive(d)]]
        BY <1>5 DEF HookDerives
    <2>3. HookTypeOK'
        BY <2>1, <2>2, DeriveType DEF HookTypeOK
    <2> QED
        BY <1>5, <2>3 DEF HookDerives
<1>6. CASE HookPersists(h)
    <2>1. hook[h].docs \subseteq Docs /\ hook[h].verdict \in Verdicts
        BY <1>2 DEF HookSessions
    <2>2. docStatus' \in [Docs -> DocStatuses]
        BY <1>6, <2>1, PersistTypeOK DEF HookPersists
    <2> QED
        BY <1>1, <1>6, <2>2 DEF HookPersists, HookTypeOK
<1>7. CASE HookCrashes(h)
    BY <1>1, <1>7, CrashTypeOK DEF HookCrashes, HookTypeOK
<1> QED
    BY <1>3, <1>4, <1>5, <1>6, <1>7 DEF HookNext, HookStep

(* No step of a reaper leaves the types; an iteration may begin in a    *)
(* backlog.                                                             *)
LEMMA ReaperTypes ==
    ASSUME TypeOK, NEW r \in Reapers, ReaperNext(r), UNCHANGED <<worker, hook>>
    PROVE  TypeOK'
<1> USE DEF TypeOK
<1> DEFINE Types == /\ StoreTypeOK /\ BrokerTypeOK /\ TransitionTypeOK
                    /\ PartnerTypeOK /\ ReaperTypeOK
<1>1. backlogs' \in 0..MaxBacklogs
    BY PipelineAssumption DEF ReaperNext, Wake, Backlog
<1> SUFFICES Types'
    BY <1>1 DEF WorkerTypeOK, HookTypeOK
<1> USE DEF StoreTypeOK, BrokerTypeOK, TransitionTypeOK, PartnerTypeOK,
            storeVars, brokerVars, transitionVars, partnerVars
<1>2. IdleReaper \in ReaperSessions
    BY DEF IdleReaper, ReaperSessions, Verdicts
<1>3. reaper[r] \in ReaperSessions /\ locks \subseteq Reapers \X Rows
    BY DEF ReaperTypeOK
<1>4. \A session \in ReaperSessions :
        /\ reaper' = [reaper EXCEPT ![r] = session]
        /\ locks' \subseteq Reapers \X Rows
        => ReaperTypeOK'
    BY DEF ReaperTypeOK
<1>5. ASSUME NEW part \in {1, 2},
             NEW wanted \in SUBSET (InFlight \cup {"awaiting_callback"}),
             Scan(r, part, wanted)
      PROVE  Types'
    <2> DEFINE rows == LockableStale(wanted)
               session == [IdleReaper EXCEPT !.pc = "batch", !.part = part,
                              !.batch = {Loaded(row) : row \in rows}]
    <2>1. rows \subseteq Rows /\ \A row \in rows : status[row] \in wanted
        BY DEF LockableStale
    <2>2. {Loaded(row) : row \in rows} \in SUBSET LoadedRows
        <3>1. ASSUME NEW row \in rows PROVE Loaded(row) \in LoadedRows
            BY <2>1 DEF Loaded, LoadedRows
        <3> QED
            BY <3>1
    <2>3. \A batch \in SUBSET LoadedRows :
            [IdleReaper EXCEPT !.pc = "batch", !.part = part, !.batch = batch]
                \in ReaperSessions
        BY DEF IdleReaper, ReaperSessions, Verdicts
    <2>4. locks' \subseteq Reapers \X Rows
        BY <1>3, <1>5, <2>1 DEF Scan
    <2>5. \/ reaper' = [reaper EXCEPT ![r] = IdleReaper]
          \/ reaper' = [reaper EXCEPT ![r] = session]
        BY <1>5 DEF Scan
    <2>6. ReaperTypeOK'
        BY <1>2, <1>4, <2>2, <2>3, <2>4, <2>5
    <2> QED
        BY <1>5, <2>6 DEF Scan
<1>6. CASE Wake(r)
    BY <1>5, <1>6 DEF Wake, ScanInFlight, InFlight
<1>7. CASE ScanCallbacks(r)
    BY <1>5, <1>7 DEF ScanCallbacks, InFlight
<1>8. CASE EndIteration(r)
    BY <1>2, <1>3, <1>8 DEF EndIteration, ReaperTypeOK
<1>9. CASE Fail(r)
    <2>1. PICK step \in reaper[r].batch :
            /\ SetStatus(step.row, "error")
            /\ reaper' = [reaper EXCEPT ![r] =
                  [@ EXCEPT !.pc = "recompute", !.failed = {step.row[1]},
                            !.batch = reaper[r].batch \ {step}]]
        BY <1>9 DEF Fail
    <2> DEFINE session == [reaper[r] EXCEPT !.pc = "recompute", !.failed = {step.row[1]},
                                            !.batch = reaper[r].batch \ {step}]
    <2>2. step.row \in Rows
        BY <1>3 DEF ReaperSessions, LoadedRows
    <2>3. session \in ReaperSessions
        BY <1>3, <2>2, RowParts DEF ReaperSessions
    <2>4. reaper' = [reaper EXCEPT ![r] = session]
        BY <2>1
    <2>5. ReaperTypeOK'
        BY <1>3, <1>4, <1>9, <2>3, <2>4 DEF Fail
    <2>6. StoreTypeOK'
        BY <1>9, <2>1, <2>2, SetStatusTypeOK DEF Fail, StepStatuses
    <2> QED
        BY <1>9, <2>5, <2>6 DEF Fail
<1>10. ASSUME NEW step \in reaper[r].batch,
              reaper' = [reaper EXCEPT ![r].batch = @ \ {step}], UNCHANGED locks
       PROVE  ReaperTypeOK' /\ step.row \in Rows
    <2> DEFINE session == [reaper[r] EXCEPT !.batch = @ \ {step}]
    <2>1. session \in ReaperSessions /\ step.row \in Rows
        BY <1>3 DEF ReaperSessions, LoadedRows
    <2>2. reaper' = [reaper EXCEPT ![r] = session]
        BY <1>10
    <2> QED
        BY <1>3, <1>4, <1>10, <2>1, <2>2
<1>11. CASE Republish(r)
    BY <1>10, <1>11, PublishTypeOK DEF Republish
<1>12. CASE LeaveRunning(r)
    BY <1>10, <1>12 DEF LeaveRunning
<1>13. CASE ReaperDerives(r)
    <2>1. \A v \in Verdicts :
            [reaper[r] EXCEPT !.pc = "persist", !.verdict = v] \in ReaperSessions
        BY <1>3 DEF ReaperSessions
    <2>2. PICK d \in reaper[r].failed :
            reaper' = [reaper EXCEPT ![r] =
                [@ EXCEPT !.pc = "persist", !.verdict = Derive(d)]]
        BY <1>13 DEF ReaperDerives
    <2>3. ReaperTypeOK'
        BY <1>3, <1>4, <1>13, <2>1, <2>2, DeriveType DEF ReaperDerives
    <2> QED
        BY <1>13, <2>3 DEF ReaperDerives
<1>14. CASE ReaperPersists(r)
    <2>1. reaper[r].failed \subseteq Docs /\ reaper[r].verdict \in Verdicts
        BY <1>3 DEF ReaperSessions
    <2>2. docStatus' \in [Docs -> DocStatuses]
        BY <1>14, <2>1, PersistTypeOK DEF ReaperPersists
    <2>3. [reaper[r] EXCEPT !.pc = "batch", !.failed = {}] \in ReaperSessions
        BY <1>3 DEF ReaperSessions
    <2> QED
        BY <1>14, <2>2, <2>3 DEF ReaperPersists, ReaperTypeOK
<1>15. CASE ReaperCrashes(r)
    <2>1. ReaperTypeOK'
        BY <1>2, <1>3, <1>15 DEF ReaperCrashes, ReaperTypeOK
    <2> QED
        BY <1>15, <2>1, CrashTypeOK DEF ReaperCrashes
<1> QED
    BY <1>6, <1>7, <1>8, <1>9, <1>11, <1>12, <1>13, <1>14, <1>15 DEF ReaperNext, ReaperStep

(* Every variable keeps its type, for every graph and every bound. *)
THEOREM TypeCorrect == Spec => []TypeOK
<1>1. TypeOK /\ [Next]_vars => TypeOK'
    <2> SUFFICES ASSUME TypeOK, [Next]_vars PROVE TypeOK'
        OBVIOUS
    <2>1. CASE Next
        BY <2>1, UploadTypes, AgeTypes, WorkerTypes, HookTypes, ReaperTypes DEF Next
    <2>2. CASE UNCHANGED vars
        BY <2>2
        DEF vars, storeVars, brokerVars, transitionVars, partnerVars, TypeOK, StoreTypeOK,
            BrokerTypeOK, TransitionTypeOK, PartnerTypeOK, WorkerTypeOK, HookTypeOK,
            ReaperTypeOK
    <2> QED
        BY <2>1, <2>2
<1> QED
    BY <1>1, InitTypeOK, PTL DEF Spec

----
(* What the steps of a worker do to its session. *)

(* The message and the row as they were loaded. *)
KeepsMessage(w) ==
    /\ worker'[w].row = worker[w].row /\ worker'[w].count = worker[w].count
    /\ worker'[w].live = worker[w].live /\ worker'[w].status = worker[w].status
    /\ worker'[w].attempts = worker[w].attempts

(* No worker touches the session of another. *)
LEMMA OtherSessions ==
    ASSUME TypeOK, NEW w \in Workers, WorkerNext(w)
    PROVE  \A v \in Workers \ {w} : worker'[v] = worker[v]
    BY DEF WorkerNext, WorkerStep, Deliver, CheckDocument, MarkRunning, SaveOutput,
           CallPartner, SaveJob, StepFails, ReadReady, ClaimNext, WorkerDerives,
           WorkerPersists, Acknowledge, WorkerCrashes, LoseConnection, Finish, Goto,
           TypeOK, WorkerTypeOK

(* A finished session is a fresh one. *)
LEMMA Finishes ==
    ASSUME TypeOK, NEW w \in Workers, Finish(w)
    PROVE  worker'[w] = IdleWorker
    BY DEF Finish, TypeOK, WorkerTypeOK

(* A step that only moves the worker on. *)
LEMMA Moves ==
    ASSUME TypeOK, NEW w \in Workers, NEW pc, Goto(w, pc)
    PROVE  /\ worker'[w].pc = pc /\ KeepsMessage(w)
           /\ worker'[w].todo = worker[w].todo /\ worker'[w].seen = worker[w].seen
           /\ worker'[w].verdict = worker[w].verdict
<1>1. worker'[w] = [worker[w] EXCEPT !.pc = pc]
    BY DEF Goto, TypeOK, WorkerTypeOK
<1> QED
    BY <1>1 DEF KeepsMessage, TypeOK, WorkerTypeOK, WorkerSessions

(* The delivery loads the row it is for, into a fresh session. *)
LEMMA Delivers ==
    ASSUME TypeOK, NEW w \in Workers, Deliver(w)
    PROVE  /\ At(w, "idle")
           /\ \E row \in Rows, n \in 0..MaxAttempts :
                /\ Take(row, n)
                /\ \/ status[row] \in TerminalForRun /\ UNCHANGED worker
                   \/ /\ status[row] \notin TerminalForRun
                      /\ worker'[w].pc = "check" /\ worker'[w].row = row
                      /\ worker'[w].count = n /\ worker'[w].live
                      /\ worker'[w].status = status[row]
                      /\ worker'[w].attempts = attempts[row]
                      /\ worker'[w].todo = {}
<1>1. PICK row \in Rows, n \in 0..MaxAttempts :
        /\ Take(row, n)
        /\ IF status[row] \in TerminalForRun
           THEN UNCHANGED worker
           ELSE worker' = [worker EXCEPT ![w] = [IdleWorker EXCEPT
                    !.pc = "check", !.row = row, !.count = n, !.live = TRUE,
                    !.status = status[row], !.attempts = attempts[row],
                    !.inputs = \A s \in Inputs[row[2]] : result[row[1], s]]]
    BY DEF Deliver
<1>2. ASSUME status[row] \notin TerminalForRun
      PROVE  worker'[w] = [IdleWorker EXCEPT
                    !.pc = "check", !.row = row, !.count = n, !.live = TRUE,
                    !.status = status[row], !.attempts = attempts[row],
                    !.inputs = \A s \in Inputs[row[2]] : result[row[1], s]]
    BY <1>1, <1>2 DEF TypeOK, WorkerTypeOK
<1>3. ASSUME status[row] \notin TerminalForRun
      PROVE  /\ worker'[w].pc = "check" /\ worker'[w].row = row
             /\ worker'[w].count = n /\ worker'[w].live = TRUE
             /\ worker'[w].status = status[row]
             /\ worker'[w].attempts = attempts[row]
             /\ worker'[w].todo = {}
    BY <1>2, <1>3 DEF IdleWorker
<1> QED
    BY <1>1, <1>3 DEF Deliver

(* The document is seen as it is then, and is not FAILED. *)
LEMMA Checks ==
    ASSUME TypeOK, NEW w \in Workers, CheckDocument(w)
    PROVE  /\ At(w, "check")
           /\ \/ Finish(w)
              \/ /\ worker'[w].pc = "mark" /\ KeepsMessage(w)
                 /\ worker'[w].todo = worker[w].todo
                 /\ worker'[w].seen = docStatus[DocOf(w)]
                 /\ docStatus[DocOf(w)] # "failed"
<1>1. \/ Finish(w)
      \/ /\ worker'[w] = [worker[w] EXCEPT !.pc = "mark", !.seen = docStatus[DocOf(w)]]
         /\ docStatus[DocOf(w)] # "failed"
    BY DEF CheckDocument, TypeOK, WorkerTypeOK
<1> QED
    BY <1>1 DEF CheckDocument, KeepsMessage, TypeOK, WorkerTypeOK, WorkerSessions

(* The partner is called for the document at hand. *)
LEMMA Calls ==
    ASSUME TypeOK, NEW w \in Workers, CallPartner(w)
    PROVE  /\ worker'[w].pc = "called" /\ KeepsMessage(w)
           /\ worker'[w].todo = worker[w].todo /\ worker'[w].seen = worker[w].seen
           /\ \E j \in Jobs : StartJob(DocOf(w), j)
<1>1. PICK j \in Jobs :
        /\ StartJob(DocOf(w), j)
        /\ worker'[w] = [worker[w] EXCEPT !.pc = "called", !.job = j]
    BY DEF CallPartner, TypeOK, WorkerTypeOK
<1> QED
    BY <1>1 DEF KeepsMessage, TypeOK, WorkerTypeOK, WorkerSessions

(* trigger_successors: what is ready, then one claim after the other. *)
LEMMA Triggers ==
    ASSUME TypeOK, NEW w \in Workers
    PROVE  /\ ReadReady(w) =>
                /\ worker'[w].pc = "recompute" /\ KeepsMessage(w)
                /\ worker'[w].todo = Ready(DocOf(w)) /\ worker'[w].seen = worker[w].seen
           /\ ClaimNext(w) =>
                /\ worker'[w].pc = worker[w].pc /\ KeepsMessage(w)
                /\ worker'[w].seen = worker[w].seen
                /\ \E s \in worker[w].todo :
                      /\ ClaimAndPublish(<<DocOf(w), s>>)
                      /\ worker'[w].todo = worker[w].todo \ {s}
<1>1. ASSUME ReadReady(w)
      PROVE  /\ worker'[w].pc = "recompute" /\ KeepsMessage(w)
             /\ worker'[w].todo = Ready(DocOf(w)) /\ worker'[w].seen = worker[w].seen
    <2>1. worker'[w] = [worker[w] EXCEPT !.pc = "recompute", !.todo = Ready(DocOf(w))]
        BY <1>1 DEF ReadReady, TypeOK, WorkerTypeOK
    <2> QED
        BY <2>1 DEF KeepsMessage, TypeOK, WorkerTypeOK, WorkerSessions
<1>2. ASSUME ClaimNext(w)
      PROVE  /\ worker'[w].pc = worker[w].pc /\ KeepsMessage(w)
             /\ worker'[w].seen = worker[w].seen
             /\ \E s \in worker[w].todo :
                   /\ ClaimAndPublish(<<DocOf(w), s>>)
                   /\ worker'[w].todo = worker[w].todo \ {s}
    <2>1. PICK s \in worker[w].todo :
            /\ ClaimAndPublish(<<DocOf(w), s>>)
            /\ worker' = [worker EXCEPT ![w].todo = @ \ {s}]
        BY <1>2 DEF ClaimNext
    <2>2. worker'[w] = [worker[w] EXCEPT !.todo = worker[w].todo \ {s}]
        BY <2>1 DEF TypeOK, WorkerTypeOK
    <2> QED
        BY <2>1, <2>2 DEF KeepsMessage, TypeOK, WorkerTypeOK, WorkerSessions
<1> QED
    BY <1>1, <1>2

(* recompute_document_status, when every claim has been tried. *)
LEMMA Derives ==
    ASSUME TypeOK, NEW w \in Workers, WorkerDerives(w)
    PROVE  /\ worker'[w].pc = "persist" /\ KeepsMessage(w)
           /\ worker'[w].todo = {} /\ worker'[w].seen = worker[w].seen
           /\ worker'[w].verdict = Derive(DocOf(w))
<1>1. /\ worker'[w] = [worker[w] EXCEPT !.pc = "persist", !.verdict = Derive(DocOf(w))]
      /\ worker[w].todo = {}
    BY DEF WorkerDerives, TypeOK, WorkerTypeOK
<1> QED
    BY <1>1 DEF KeepsMessage, TypeOK, WorkerTypeOK, WorkerSessions

(* A closed connection changes nothing but whose the message is. *)
LEMMA Disconnects ==
    ASSUME TypeOK, NEW w \in Workers, LoseConnection(w)
    PROVE  /\ worker'[w].pc = worker[w].pc /\ worker'[w].row = worker[w].row
           /\ worker'[w].todo = worker[w].todo
<1>1. worker'[w] = [worker[w] EXCEPT !.live = FALSE]
    BY DEF LoseConnection, TypeOK, WorkerTypeOK
<1> QED
    BY <1>1 DEF TypeOK, WorkerTypeOK, WorkerSessions

(* An idle worker has no row. *)
LEMMA NoRowIsNoRow == NoRow \notin Rows
    BY DEF NoRow, Rows

(* Faults are counted, never forgotten. *)
LEMMA FaultsCounted ==
    ASSUME TypeOK, [Next]_vars
    PROVE  /\ crashes' \in {crashes, crashes + 1}
           /\ disconnects' \in {disconnects, disconnects + 1}
           /\ backlogs' \in {backlogs, backlogs + 1}
           /\ NoOverlap' => NoOverlap
           /\ crashes' = 0 => crashes = 0
<1>1. /\ crashes' \in {crashes, crashes + 1}
      /\ disconnects' \in {disconnects, disconnects + 1}
      /\ backlogs' \in {backlogs, backlogs + 1}
    BY DEF Next, Upload, Age, WorkerNext, WorkerStep, Deliver, CheckDocument, MarkRunning,
           SaveOutput, CallPartner, SaveJob, StepFails, ReadReady, ClaimNext,
           WorkerDerives, WorkerPersists, Acknowledge, WorkerCrashes, LoseConnection,
           HookNext, HookStep, Receive, Apply, HookDerives, HookPersists, HookCrashes,
           ReaperNext, Wake, Backlog, ReaperStep, ScanInFlight, ScanCallbacks, Scan,
           EndIteration, Fail, Republish, LeaveRunning, ReaperDerives, ReaperPersists,
           ReaperCrashes, Crash, transitionVars, brokerVars, vars
<1>2. crashes \in Nat /\ disconnects \in Nat /\ backlogs \in Nat
    BY DEF TypeOK, TransitionTypeOK
<1> QED
    BY <1>1, <1>2 DEF NoOverlap

----
(* What the steps of a reaper and of a request do to their sessions. *)

(* The documents a reaper recomputes, and what it is about to write. *)
LEMMA ReaperMoves ==
    ASSUME TypeOK, NEW r \in Reapers, ReaperNext(r)
    PROVE  /\ \A q \in Reapers \ {r} : reaper'[q] = reaper[q]
           /\ \/ reaper'[r].pc \in {"idle", "batch"} /\ reaper'[r].failed = {}
              \/ /\ reaper'[r].pc = "recompute" /\ Fail(r)
                 /\ \E step \in reaper[r].batch :
                       /\ MustFail(step) /\ SetStatus(step.row, "error")
                       /\ reaper'[r].failed = {step.row[1]}
              \/ /\ reaper'[r].pc = "persist" /\ ReaperAt(r, "recompute") /\ UNCHANGED status
                 /\ reaper'[r].failed = reaper[r].failed
                 /\ \E d \in reaper[r].failed : reaper'[r].verdict = Derive(d)
              \/ /\ reaper'[r].pc = "batch" /\ ReaperAt(r, "batch") /\ UNCHANGED status
                 /\ reaper'[r].failed = reaper[r].failed
<1>0. reaper[r] \in ReaperSessions
    BY DEF TypeOK, ReaperTypeOK
<1>1. \A q \in Reapers \ {r} : reaper'[q] = reaper[q]
    BY DEF ReaperNext, Wake, ReaperStep, ScanInFlight, ScanCallbacks, Scan, EndIteration,
           Fail, Republish, LeaveRunning, ReaperDerives, ReaperPersists, ReaperCrashes,
           TypeOK, ReaperTypeOK
<1>2. \A session : reaper' = [reaper EXCEPT ![r] = session] => reaper'[r] = session
    BY DEF TypeOK, ReaperTypeOK
<1>3. reaper'[r] = IdleReaper =>
        reaper'[r].pc \in {"idle", "batch"} /\ reaper'[r].failed = {}
    BY DEF IdleReaper
<1>4. ASSUME NEW part, NEW wanted, Scan(r, part, wanted)
      PROVE  reaper'[r].pc \in {"idle", "batch"} /\ reaper'[r].failed = {}
    <2> DEFINE batch == {Loaded(row) : row \in LockableStale(wanted)}
    <2>1. \/ reaper'[r] = IdleReaper
          \/ reaper'[r] = [IdleReaper EXCEPT !.pc = "batch", !.part = part, !.batch = batch]
        BY <1>2, <1>4 DEF Scan
    <2> HIDE DEF batch
    <2> QED
        BY <1>3, <2>1 DEF IdleReaper
<1>5. CASE Wake(r) \/ ScanCallbacks(r)
    BY <1>1, <1>4, <1>5 DEF Wake, ScanInFlight, ScanCallbacks
<1>6. CASE EndIteration(r) \/ ReaperCrashes(r)
    BY <1>1, <1>2, <1>3, <1>6 DEF EndIteration, ReaperCrashes
<1>7. CASE Fail(r)
    <2>1. PICK step \in reaper[r].batch :
            /\ MustFail(step) /\ SetStatus(step.row, "error")
            /\ reaper' = [reaper EXCEPT ![r] =
                  [reaper[r] EXCEPT !.pc = "recompute", !.failed = {step.row[1]},
                                    !.batch = reaper[r].batch \ {step}]]
        BY <1>7 DEF Fail
    <2> DEFINE batch == reaper[r].batch \ {step}
               failed == {step.row[1]}
    <2>2. reaper'[r] = [reaper[r] EXCEPT !.pc = "recompute", !.failed = failed,
                                         !.batch = batch]
        BY <1>2, <2>1
    <2>3. reaper'[r].pc = "recompute" /\ reaper'[r].failed = failed
        <3> HIDE DEF batch, failed
        <3> QED
            BY <1>0, <2>2 DEF ReaperSessions
    <2> QED
        BY <1>1, <1>7, <2>1, <2>3
<1>8. CASE Republish(r) \/ LeaveRunning(r)
    <2>1. PICK step \in reaper[r].batch :
            reaper' = [reaper EXCEPT ![r].batch = @ \ {step}]
        BY <1>8 DEF Republish, LeaveRunning
    <2> DEFINE batch == reaper[r].batch \ {step}
    <2>2. reaper'[r] = [reaper[r] EXCEPT !.batch = batch]
        BY <2>1 DEF TypeOK, ReaperTypeOK
    <2>3. reaper'[r].pc = reaper[r].pc /\ reaper'[r].failed = reaper[r].failed
        <3> HIDE DEF batch
        <3> QED
            BY <1>0, <2>2 DEF ReaperSessions
    <2> QED
        BY <1>1, <1>8, <2>3 DEF Republish, LeaveRunning, ReaperAt, storeVars
<1>9. CASE ReaperDerives(r)
    <2>1. PICK d \in reaper[r].failed :
            reaper'[r] = [reaper[r] EXCEPT !.pc = "persist", !.verdict = Derive(d)]
        BY <1>2, <1>9 DEF ReaperDerives
    <2>2. /\ reaper'[r].pc = "persist" /\ reaper'[r].failed = reaper[r].failed
          /\ reaper'[r].verdict = Derive(d)
        BY <1>0, <2>1 DEF ReaperSessions
    <2> QED
        BY <1>1, <1>9, <2>2 DEF ReaperDerives, storeVars
<1>10. CASE ReaperPersists(r)
    <2>1. reaper'[r] = [reaper[r] EXCEPT !.pc = "batch", !.failed = {}]
        BY <1>2, <1>10 DEF ReaperPersists
    <2> QED
        BY <1>0, <1>1, <2>1 DEF ReaperSessions
<1> QED
    BY <1>5, <1>6, <1>7, <1>8, <1>9, <1>10 DEF ReaperNext, ReaperStep

(* The documents of a request, and what it is about to write. *)
LEMMA HookMoves ==
    ASSUME TypeOK, NEW h \in Hooks, HookNext(h)
    PROVE  /\ \A g \in Hooks \ {h} : hook'[g] = hook[g]
           /\ \/ hook'[h] = hook[h] /\ Receive(h)
              \/ hook'[h] = IdleHook
              \/ /\ hook'[h].pc = "apply" /\ Receive(h)
                 /\ \E j \in Jobs : hook'[h].docs \subseteq DocsOfJob(j)
                 /\ \A d \in hook'[h].docs : ~AlreadyTerminal(<<d, ExternalCall>>)
              \/ /\ hook'[h].pc = "recompute" /\ hook'[h].docs = hook[h].docs
                 /\ Apply(h)
              \/ /\ hook'[h].pc = "persist" /\ hook'[h].docs = hook[h].docs
                 /\ HookAt(h, "recompute") /\ UNCHANGED status
                 /\ \E d \in hook[h].docs : hook'[h].verdict = Derive(d)
<1>0. hook[h] \in HookSessions
    BY DEF TypeOK, HookTypeOK
<1>1. \A g \in Hooks \ {h} : hook'[g] = hook[g]
    BY DEF HookNext, HookStep, Receive, Apply, HookDerives, HookPersists, HookCrashes,
           TypeOK, HookTypeOK
<1>2. \A session : hook' = [hook EXCEPT ![h] = session] => hook'[h] = session
    BY DEF TypeOK, HookTypeOK
<1>3. CASE Receive(h)
    <2>1. PICK j \in Jobs, ok \in BOOLEAN :
            \/ UNCHANGED hook
            \/ hook' = [hook EXCEPT ![h] = [IdleHook EXCEPT
                  !.pc = "apply",
                  !.docs = {e \in DocsOfJob(j) : ~AlreadyTerminal(<<e, ExternalCall>>)},
                  !.ok = ok]]
        BY <1>3 DEF Receive
    <2> DEFINE found == {e \in DocsOfJob(j) : ~AlreadyTerminal(<<e, ExternalCall>>)}
    <2>2. \/ hook'[h] = hook[h]
          \/ hook'[h] = [IdleHook EXCEPT !.pc = "apply", !.docs = found, !.ok = ok]
        BY <1>2, <2>1
    <2>3. \/ hook'[h] = hook[h]
          \/ hook'[h].pc = "apply" /\ hook'[h].docs = found
        <3> HIDE DEF found
        <3> QED
            BY <2>2 DEF IdleHook
    <2> QED
        BY <1>1, <1>3, <2>3
<1>4. CASE HookPersists(h) \/ HookCrashes(h)
    BY <1>1, <1>2, <1>4 DEF HookPersists, HookCrashes
<1>5. CASE Apply(h)
    <2>1. hook'[h] = [hook[h] EXCEPT !.pc = "recompute"]
        BY <1>5 DEF Apply, TypeOK, HookTypeOK
    <2> QED
        BY <1>0, <1>1, <1>5, <2>1 DEF HookSessions
<1>6. CASE HookDerives(h)
    <2>1. PICK d \in hook[h].docs :
            hook'[h] = [hook[h] EXCEPT !.pc = "persist", !.verdict = Derive(d)]
        BY <1>2, <1>6 DEF HookDerives
    <2>2. /\ hook'[h].pc = "persist" /\ hook'[h].docs = hook[h].docs
          /\ hook'[h].verdict = Derive(d)
        BY <1>0, <2>1 DEF HookSessions
    <2> QED
        BY <1>1, <1>6, <2>2 DEF HookDerives, storeVars
<1> QED
    BY <1>3, <1>4, <1>5, <1>6 DEF HookNext, HookStep

====
