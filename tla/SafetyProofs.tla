------------------------- MODULE SafetyProofs ----------------------
(* Safety of Pipeline, for every graph, every number of documents,      *)
(* workers, requests and reapers, and every bound on faults: crashes,   *)
(* closed connections and backlogs included.                            *)
EXTENDS PipelineProofs

(* A step left PENDING, which no operation undoes: whatever remembers a *)
(* row (a message, a session, a result, a job id) came after that.      *)
Started(row) == status[row] # "pending"

RowsStarted ==
    \A row \in Rows :
        /\ Started(row) => docStatus[row[1]] # "absent"
        /\ Queued(row) \/ result[row] \/ claims[row] > 0 => Started(row)

WorkersStarted == \A w \in Workers : ~At(w, "idle") => Started(worker[w].row)

CallersStarted == \A w \in Workers : At(w, "called") => StepOf(w) = ExternalCall

HooksStarted ==
    /\ \A d \in Docs : jobId[d] # NoJob => Started(<<d, ExternalCall>>)
    /\ \A h \in Hooks : \A d \in hook[h].docs : Started(<<d, ExternalCall>>)

ReapersStarted ==
    \A r \in Reapers : \A step \in reaper[r].batch : Started(step.row)

StartedInv ==
    RowsStarted /\ WorkersStarted /\ CallersStarted /\ HooksStarted /\ ReapersStarted

(* What no step takes back. *)
Forward ==
    /\ \A row \in Rows : (Started(row) => Started(row)') /\ (result[row] => result[row]')
    /\ \A d \in Docs : docStatus[d] # "absent" => docStatus'[d] # "absent"

(* An UPDATE of a row's status starts that row only. *)
LEMMA SetStatusStarts ==
    ASSUME TypeOK, NEW row \in Rows, NEW new \in StepStatuses \ {"pending"},
           SetStatus(row, new)
    PROVE  \A other \in Rows : Started(other)' <=> Started(other) \/ other = row
    BY DEF SetStatus, Started, TypeOK, StoreTypeOK

(* Messages appear only where they were published or given back. *)
LEMMA PublishQueues ==
    ASSUME TypeOK, NEW rows \in SUBSET Rows, Publish(rows)
    PROVE  \A row \in Rows : Queued(row)' => Queued(row) \/ row \in rows
    BY DEF Publish, Queued

(* The broker hands out what is queued, and adds nothing. *)
LEMMA TakeQueues ==
    ASSUME TypeOK, NEW row \in Rows, NEW n \in 0..MaxAttempts, Take(row, n)
    PROVE  /\ Queued(row)
           /\ \A other \in Rows : Queued(other)' => Queued(other)
<1>1. Queued(row)
    BY DEF Take, Queued
<1>2. ASSUME NEW other \in Rows, Queued(other)'
      PROVE  Queued(other)
    <2>1. CASE other = row
        BY <1>1, <2>1
    <2>2. CASE other # row
        BY <1>2, <2>2 DEF Take, Queued, TypeOK, BrokerTypeOK
    <2> QED
        BY <2>1, <2>2
<1> QED
    BY <1>1, <1>2

(* A worker gives back the message of the row it handles, if any. *)
LEMMA GiveBackQueues ==
    ASSUME TypeOK, NEW w \in Workers, ~At(w, "idle"), GiveBack(w)
    PROVE  \A row \in Rows : Queued(row)' => Queued(row) \/ row = worker[w].row
<1> SUFFICES ASSUME NEW row \in Rows, row # worker[w].row
             PROVE  queue'[row] = queue[row]
    BY DEF Queued
<1>1. worker[w].row \in Rows
    BY WorkerMoves
<1> QED
    BY <1>1 DEF GiveBack, Requeue, TypeOK, BrokerTypeOK

(* Winning a claim starts the row before its message is published. *)
LEMMA ClaimStarts ==
    ASSUME TypeOK, NEW row \in Rows, ClaimAndPublish(row)
    PROVE  \/ /\ ~Started(row)
              /\ \A other \in Rows :
                    /\ Started(other)' <=> Started(other) \/ other = row
                    /\ Queued(other)' => Queued(other) \/ other = row
                    /\ claims'[other] = IF other = row THEN claims[row] + 1
                                                       ELSE claims[other]
           \/ UNCHANGED <<status, claims, queue>>
<1>1. CASE /\ Claimable(row)
           /\ SetStatus(row, "queued")
           /\ claims' = [claims EXCEPT ![row] = @ + 1]
           /\ Publish({row})
    <2>1. \A other \in Rows : Started(other)' <=> Started(other) \/ other = row
        BY <1>1, SetStatusStarts DEF StepStatuses
    <2>2. \A other \in Rows : Queued(other)' => Queued(other) \/ other = row
        BY <1>1, PublishQueues
    <2>3. \A other \in Rows :
            claims'[other] = IF other = row THEN claims[row] + 1 ELSE claims[other]
        BY <1>1 DEF TypeOK, TransitionTypeOK
    <2> QED
        BY <1>1, <2>1, <2>2, <2>3 DEF Claimable, Started
<1> QED
    BY <1>1 DEF ClaimAndPublish

(* Upload starts the entry steps of a document nothing remembers yet. *)
LEMMA UploadStarts ==
    ASSUME TypeOK, StartedInv, NEW d \in Docs, Upload(d)
    PROVE  /\ Forward
           /\ \A row \in Rows :
                /\ Started(row)' <=>
                        Started(row) \/ (row[1] = d /\ row[2] \in EntryNodes)
                /\ Queued(row)' =>
                        Queued(row) \/ (row[1] = d /\ row[2] \in EntryNodes)
<1>1. \A row \in Rows : row[1] = d => ~Started(row)
    BY DEF Upload, StartedInv, RowsStarted
<1>2. \A row \in Rows : Started(row)' <=>
            Started(row) \/ (row[1] = d /\ row[2] \in EntryNodes)
    BY <1>1 DEF Upload, Started, InitialStatus
<1>3. {d} \X EntryNodes \in SUBSET Rows
    BY DEF Rows, EntryNodes
<1>4. \A row \in Rows : Queued(row)' =>
            Queued(row) \/ (row[1] = d /\ row[2] \in EntryNodes)
    BY <1>3, PublishQueues DEF Upload
<1>5. Forward
    BY <1>2 DEF Forward, Upload, TypeOK, StoreTypeOK
<1> QED
    BY <1>2, <1>4, <1>5

(* The rows a step may add to what is remembered: those that have been  *)
(* started, of documents that have been uploaded.                       *)
RowsGrow ==
    \A row \in Rows :
        /\ Started(row)' => Started(row) \/ docStatus'[row[1]] # "absent"
        /\ Queued(row)' => Queued(row) \/ Started(row)'
        /\ result'[row] => result[row] \/ Started(row)'
        /\ claims'[row] > 0 => claims[row] > 0 \/ Started(row)'

WorkersGrow ==
    \A w \in Workers : ~At(w, "idle")' =>
        \/ ~At(w, "idle") /\ worker'[w].row = worker[w].row
        \/ Started(worker[w].row)'

JobsGrow ==
    \A d \in Docs : jobId'[d] # NoJob => jobId[d] # NoJob \/ Started(<<d, ExternalCall>>)'

(* A step of a worker, or an upload, that adds only such rows keeps   *)
(* the invariant.                                                       *)
LEMMA WorkersRemember ==
    ASSUME TypeOK, StartedInv, Forward, RowsGrow, WorkersGrow, JobsGrow,
           CallersStarted', UNCHANGED <<hook, reaper>>
    PROVE  StartedInv'
<1>1. RowsStarted'
    BY RowParts DEF StartedInv, RowsStarted, Forward, RowsGrow
<1>2. WorkersStarted'
    <2> SUFFICES ASSUME NEW w \in Workers, ~At(w, "idle")'
                 PROVE  Started(worker[w].row)'
        BY DEF WorkersStarted
    <2>1. CASE ~At(w, "idle") /\ worker'[w].row = worker[w].row
        <3>1. worker[w].row \in Rows /\ Started(worker[w].row)
            BY <2>1, WorkerMoves DEF StartedInv, WorkersStarted
        <3> QED
            BY <2>1, <3>1 DEF Forward, Started
    <2> QED
        BY <2>1 DEF WorkersGrow
<1>3. HooksStarted'
    BY RowParts
    DEF StartedInv, HooksStarted, JobsGrow, Forward, TypeOK, HookTypeOK, HookSessions
<1>4. ReapersStarted'
    BY DEF StartedInv, ReapersStarted, Forward, TypeOK, ReaperTypeOK, ReaperSessions,
           LoadedRows
<1> QED
    BY <1>1, <1>2, <1>3, <1>4 DEF StartedInv

(* A worker that is not idle handles a started row of an uploaded       *)
(* document, and keeps to it until it is idle again.                    *)
LEMMA HandlesStarted ==
    ASSUME TypeOK, StartedInv, NEW w \in Workers, ~At(w, "idle")
    PROVE  /\ worker[w].row \in Rows /\ Started(worker[w].row)
           /\ docStatus[DocOf(w)] # "absent" /\ DocOf(w) \in Docs
<1>1. worker[w].row \in Rows /\ DocOf(w) \in Docs
    BY WorkerMoves
<1>2. Started(worker[w].row)
    BY DEF StartedInv, WorkersStarted
<1> QED
    BY <1>1, <1>2 DEF StartedInv, RowsStarted, DocOf

(* After the delivery a session keeps its row and what it has loaded. *)
LEMMA KeepsRow ==
    ASSUME TypeOK, NEW w \in Workers, WorkerNext(w), ~Deliver(w)
    PROVE  /\ ~At(w, "idle")
           /\ \A v \in Workers : ~At(v, "idle")' =>
                /\ ~At(v, "idle")
                /\ worker'[v].row = worker[v].row
                /\ worker'[v].inputs = worker[v].inputs
<1> USE DEF At, TypeOK, WorkerTypeOK, IdleWorker
<1>1. ~At(w, "idle")
    BY DEF WorkerNext, WorkerStep, CheckDocument, MarkRunning, SaveOutput, CallPartner,
           SaveJob, StepFails, ReadReady, ClaimNext, WorkerDerives, WorkerPersists,
           Acknowledge, WorkerCrashes, LoseConnection
<1>2. CASE Finish(w)
    BY <1>1, <1>2 DEF Finish
<1>3. CASE \E pc : Goto(w, pc)
    BY <1>1, <1>3 DEF Goto
<1>4. CASE \E session : /\ worker' = [worker EXCEPT ![w] = session]
                        /\ session.row = worker[w].row
                        /\ session.inputs = worker[w].inputs
    <2>1. PICK session : /\ worker' = [worker EXCEPT ![w] = session]
                         /\ session.row = worker[w].row
                         /\ session.inputs = worker[w].inputs
        BY <1>4
    <2>2. \A v \in Workers : worker'[v] = IF v = w THEN session ELSE worker[v]
        BY <2>1
    <2> QED
        BY <1>1, <2>1, <2>2
<1>5. CASE CheckDocument(w)
    <2> DEFINE session == [worker[w] EXCEPT !.pc = "mark", !.seen = docStatus[DocOf(w)]]
    <2>1. session.row = worker[w].row /\ session.inputs = worker[w].inputs
        BY DEF WorkerSessions
    <2>2. Finish(w) \/ worker' = [worker EXCEPT ![w] = session]
        BY <1>5 DEF CheckDocument
    <2> HIDE DEF session
    <2> QED
        BY <1>2, <1>4, <2>1, <2>2
<1>6. CASE CallPartner(w)
    BY <1>4, <1>6 DEF CallPartner
<1>7. CASE ReadReady(w)
    BY <1>4, <1>7 DEF ReadReady
<1>8. CASE ClaimNext(w)
    BY <1>4, <1>8 DEF ClaimNext
<1>9. CASE WorkerDerives(w)
    BY <1>4, <1>9 DEF WorkerDerives
<1>10. CASE LoseConnection(w)
    BY <1>4, <1>10 DEF LoseConnection
<1> QED
    BY <1>2, <1>3, <1>5, <1>6, <1>7, <1>8, <1>9, <1>10
    DEF WorkerNext, WorkerStep, MarkRunning, SaveOutput, SaveJob, StepFails,
        WorkerPersists, Acknowledge, WorkerCrashes

(* A worker's steps start rows of the document it handles, and remember *)
(* only what they started.                                              *)
LEMMA WorkerStarts ==
    ASSUME TypeOK, StartedInv, NEW w \in Workers, WorkerNext(w)
    PROVE  Forward /\ RowsGrow /\ WorkersGrow /\ JobsGrow
<1> USE DEF storeVars, brokerVars, transitionVars, partnerVars
<1>1. CASE Deliver(w)
    <2>1. PICK row \in Rows, n \in 0..MaxAttempts :
            /\ Take(row, n)
            /\ worker' = worker \/ \E s : s.row = row /\ worker' = [worker EXCEPT ![w] = s]
        BY <1>1 DEF Deliver, IdleWorker
    <2>2. Started(row) /\ \A other \in Rows : Queued(other)' => Queued(other)
        BY <2>1, TakeQueues DEF StartedInv, RowsStarted
    <2>3. WorkersGrow
        BY <1>1, <2>1, <2>2 DEF Deliver, WorkersGrow, Started, At, TypeOK, WorkerTypeOK
    <2> QED
        BY <1>1, <2>2, <2>3 DEF Deliver, Forward, RowsGrow, JobsGrow, Started
<1> SUFFICES ASSUME ~Deliver(w)
             PROVE  Forward /\ RowsGrow /\ WorkersGrow /\ JobsGrow
    BY <1>1
<1>2. /\ worker[w].row \in Rows /\ Started(worker[w].row)
      /\ docStatus[DocOf(w)] # "absent" /\ DocOf(w) \in Docs
      /\ ~At(w, "idle")
      /\ <<DocOf(w), StepOf(w)>> = worker[w].row
    BY KeepsRow, HandlesStarted, WorkerMoves
<1>3. WorkersGrow
    BY KeepsRow DEF WorkersGrow
<1>4. ASSUME UNCHANGED queue \/ GiveBack(w)
      PROVE  \A row \in Rows : Queued(row)' => Queued(row) \/ row = worker[w].row
    BY <1>2, <1>4, GiveBackQueues DEF Queued
<1>5. ASSUME UNCHANGED <<status, result, jobId, docStatus, claims>>,
             UNCHANGED queue \/ GiveBack(w)
      PROVE  Forward /\ RowsGrow /\ JobsGrow
    BY <1>2, <1>4, <1>5 DEF Forward, RowsGrow, JobsGrow, Started
<1>6. ASSUME NEW new \in StepStatuses \ {"pending"}, SetStatus(worker[w].row, new),
             UNCHANGED <<docStatus, claims>>,
             UNCHANGED queue \/ GiveBack(w),
             UNCHANGED result \/ result' = [result EXCEPT ![worker[w].row] = TRUE],
             \/ UNCHANGED jobId
             \/ StepOf(w) = ExternalCall /\ \E j : jobId' = [jobId EXCEPT ![DocOf(w)] = j]
      PROVE  Forward /\ RowsGrow /\ JobsGrow
    <2>1. \A row \in Rows : Started(row)' <=> Started(row)
        BY <1>2, <1>6, SetStatusStarts
    <2>2. \A row \in Rows : /\ result[row] => result'[row]
                            /\ result'[row] => result[row] \/ row = worker[w].row
        BY <1>6 DEF TypeOK, StoreTypeOK
    <2>3. \A d \in Docs : jobId'[d] # NoJob =>
                jobId[d] # NoJob \/ <<d, ExternalCall>> = worker[w].row
        BY <1>2, <1>6 DEF TypeOK, StoreTypeOK
    <2>4. JobsGrow
        BY <1>2, <2>1, <2>3 DEF JobsGrow
    <2>5. \A row \in Rows : Queued(row)' => Queued(row) \/ Started(row)'
        BY <1>2, <1>4, <1>6, <2>1
    <2> QED
        BY <1>2, <1>6, <2>1, <2>2, <2>4, <2>5 DEF Forward, RowsGrow
<1>7. CASE CheckDocument(w)
    BY <1>3, <1>5, <1>7 DEF CheckDocument
<1>8. CASE MarkRunning(w)
    BY <1>3, <1>5, <1>6, <1>8 DEF MarkRunning, StepStatuses
<1>9. CASE SaveOutput(w)
    BY <1>3, <1>6, <1>9 DEF SaveOutput, StepStatuses
<1>10. CASE CallPartner(w)
    BY <1>3, <1>5, <1>10 DEF CallPartner
<1>11. CASE SaveJob(w)
    <2>1. StepOf(w) = ExternalCall
        BY <1>11 DEF SaveJob, StartedInv, CallersStarted
    <2> QED
        BY <1>3, <1>6, <1>11, <2>1 DEF SaveJob, StepStatuses
<1>12. CASE StepFails(w)
    BY <1>3, <1>6, <1>12 DEF StepFails, StepStatuses
<1>13. CASE ReadReady(w)
    BY <1>3, <1>5, <1>13 DEF ReadReady
<1>14. CASE ClaimNext(w)
    <2>1. PICK s \in Steps : ClaimAndPublish(<<DocOf(w), s>>)
        BY <1>14 DEF ClaimNext, TypeOK, WorkerTypeOK, WorkerSessions
    <2> DEFINE row == <<DocOf(w), s>>
    <2>2. row \in Rows /\ row[1] = DocOf(w)
        BY <1>2, RowParts
    <2>3. UNCHANGED <<result, jobId, docStatus>>
        BY <1>14 DEF ClaimNext
    <2> HIDE DEF row
    <2>4. CASE UNCHANGED <<status, claims, queue>>
        BY <1>3, <1>5, <2>3, <2>4
    <2>5. CASE \A other \in Rows :
                    /\ Started(other)' <=> Started(other) \/ other = row
                    /\ Queued(other)' => Queued(other) \/ other = row
                    /\ claims'[other] = IF other = row THEN claims[row] + 1
                                                       ELSE claims[other]
        BY <1>2, <1>3, <2>2, <2>3, <2>5 DEF Forward, RowsGrow, JobsGrow
    <2> QED
        BY <2>1, <2>2, <2>4, <2>5, ClaimStarts DEF row
<1>15. CASE WorkerDerives(w)
    BY <1>3, <1>5, <1>15 DEF WorkerDerives
<1>16. CASE WorkerPersists(w)
    <2>1. worker[w].verdict # "absent"
        BY DEF TypeOK, WorkerTypeOK, WorkerSessions, Verdicts
    <2> QED
        BY <1>3, <1>16, <2>1
        DEF WorkerPersists, Persist, Forward, RowsGrow, JobsGrow, Started, Queued, TypeOK,
            StoreTypeOK
<1>17. CASE Acknowledge(w)
    BY <1>3, <1>5, <1>17 DEF Acknowledge
<1>18. CASE WorkerCrashes(w)
    BY <1>3, <1>5, <1>18 DEF WorkerCrashes, Crash
<1>19. CASE LoseConnection(w)
    BY <1>3, <1>5, <1>19 DEF LoseConnection
<1> QED
    BY <1>7, <1>8, <1>9, <1>10, <1>11, <1>12, <1>13, <1>14, <1>15, <1>16, <1>17, <1>18,
       <1>19 DEF WorkerNext, WorkerStep

(* Only external_call reaches the partner. *)
LEMMA CallersStay ==
    ASSUME TypeOK, CallersStarted, NEW w \in Workers, WorkerNext(w)
    PROVE  CallersStarted'
<1> USE DEF CallersStarted, At, StepOf, TypeOK, WorkerTypeOK, IdleWorker
<1>1. \A v \in Workers \ {w} : worker'[v] = worker[v]
    BY DEF WorkerNext, WorkerStep, Deliver, CheckDocument, MarkRunning, SaveOutput,
           CallPartner, SaveJob, StepFails, ReadReady, ClaimNext, WorkerDerives,
           WorkerPersists, Acknowledge, WorkerCrashes, LoseConnection, Finish, Goto
<1> SUFFICES ASSUME At(w, "called")' PROVE StepOf(w)' = ExternalCall
    BY <1>1
<1>2. CASE CallPartner(w)
    <2>1. PICK j : worker' = [worker EXCEPT ![w] = [@ EXCEPT !.pc = "called", !.job = j]]
        BY <1>2 DEF CallPartner
    <2>2. worker'[w] = [worker[w] EXCEPT !.pc = "called", !.job = j]
        BY <2>1
    <2>3. worker'[w].row = worker[w].row
        BY <2>2 DEF WorkerSessions
    <2> QED
        BY <1>2, <2>3 DEF CallPartner
<1>3. CASE LoseConnection(w)
    BY <1>3 DEF LoseConnection
<1>4. CASE Deliver(w)
    <2>1. worker'[w] = worker[w] \/ worker'[w].pc = "check"
        BY <1>4 DEF Deliver
    <2> QED
        BY <1>4, <2>1 DEF Deliver
<1>5. CASE ClaimNext(w)
    BY <1>5 DEF ClaimNext
<1>6. CASE ReadReady(w)
    <2>1. worker'[w].pc = "recompute"
        BY <1>6 DEF ReadReady, WorkerSessions
    <2> QED
        BY <2>1
<1>7. CASE WorkerDerives(w)
    <2>1. worker'[w].pc = "persist"
        BY <1>7 DEF WorkerDerives, WorkerSessions
    <2> QED
        BY <2>1
<1>8. CASE CheckDocument(w)
    <2>1. Finish(w) \/ worker'[w].pc = "mark"
        BY <1>8 DEF CheckDocument, WorkerSessions
    <2> QED
        BY <2>1 DEF Finish
<1>9. CASE Finish(w)
    BY <1>9 DEF Finish
<1>10. CASE \E pc : pc # "called" /\ Goto(w, pc)
    BY <1>10 DEF Goto
<1> QED
    BY <1>2, <1>3, <1>4, <1>5, <1>6, <1>7, <1>8, <1>9, <1>10
    DEF WorkerNext, WorkerStep, MarkRunning, SaveOutput, SaveJob, StepFails,
        WorkerPersists, Acknowledge, WorkerCrashes

(* Rows, and what the other processes remember, when a request acts.    *)
LEMMA HookStarts ==
    ASSUME TypeOK, StartedInv, NEW h \in Hooks, HookNext(h),
           UNCHANGED <<worker, reaper>>
    PROVE  Forward /\ StartedInv' /\ \A row \in Rows : Started(row)' => Started(row)
<1> USE DEF storeVars, brokerVars, transitionVars, partnerVars
<1>1. /\ hook[h].docs \subseteq Docs /\ hook[h].verdict # "absent"
      /\ \A d \in hook[h].docs : /\ <<d, ExternalCall>> \in Rows
                                 /\ Started(<<d, ExternalCall>>)
    BY RowParts DEF TypeOK, HookTypeOK, HookSessions, Verdicts, StartedInv, HooksStarted
<1>2. /\ Forward
      /\ \A row \in Rows : /\ Started(row)' <=> Started(row)
                           /\ result'[row] => result[row] \/ Started(row)
    <2>1. CASE Receive(h) \/ HookDerives(h) \/ HookCrashes(h)
        BY <2>1 DEF Receive, HookDerives, HookCrashes, Forward, Started
    <2>2. CASE Apply(h)
        <3>1. PICK d \in hook[h].docs :
                /\ SetStatus(<<d, ExternalCall>>, IF hook[h].ok THEN "done" ELSE "error")
                /\ result' = IF hook[h].ok
                             THEN [result EXCEPT ![<<d, ExternalCall>>] = TRUE] ELSE result
            BY <2>2 DEF Apply
        <3>2. \A row \in Rows : Started(row)' <=> Started(row)
            BY <1>1, <3>1, SetStatusStarts DEF StepStatuses
        <3>3. \A row \in Rows : /\ result[row] => result'[row]
                                /\ result'[row] => result[row] \/ row = <<d, ExternalCall>>
            BY <3>1 DEF TypeOK, StoreTypeOK
        <3> QED
            BY <1>1, <2>2, <3>2, <3>3 DEF Apply, Forward
    <2>3. CASE HookPersists(h)
        BY <1>1, <2>3 DEF HookPersists, Persist, Forward, Started, TypeOK, StoreTypeOK
    <2> QED
        BY <2>1, <2>2, <2>3 DEF HookNext, HookStep
<1>3. UNCHANGED <<queue, claims, jobId>>
    BY DEF HookNext, HookStep, Receive, Apply, HookDerives, HookPersists, HookCrashes, Crash
<1>4. RowsStarted'
    BY <1>2, <1>3, RowParts DEF StartedInv, RowsStarted, Forward, Queued
<1>5. WorkersStarted' /\ CallersStarted'
    BY <1>2, WorkerMoves DEF StartedInv, WorkersStarted, CallersStarted, At, StepOf
<1>6. ReapersStarted'
    BY <1>2 DEF StartedInv, ReapersStarted, TypeOK, ReaperTypeOK, ReaperSessions, LoadedRows
<1>7. HooksStarted'
    <2>1. \A d \in Docs : jobId'[d] # NoJob => Started(<<d, ExternalCall>>)'
        BY <1>2, <1>3, RowParts DEF StartedInv, HooksStarted
    <2>2. \A g \in Hooks : \A d \in hook'[g].docs :
                d \in hook[g].docs \/ (d \in Docs /\ jobId[d] # NoJob)
        <3>1. CASE \E s : hook' = [hook EXCEPT ![h] = s] /\ \A d \in s.docs :
                    d \in hook[h].docs \/ (d \in Docs /\ jobId[d] # NoJob)
            <4>1. PICK s : hook' = [hook EXCEPT ![h] = s] /\ \A d \in s.docs :
                    d \in hook[h].docs \/ (d \in Docs /\ jobId[d] # NoJob)
                BY <3>1
            <4>2. \A g \in Hooks : hook'[g] = IF g = h THEN s ELSE hook[g]
                BY <4>1 DEF TypeOK, HookTypeOK
            <4> QED
                BY <4>1, <4>2
        <3>2. CASE UNCHANGED hook
            BY <3>2
        <3>3. CASE Receive(h) /\ ~UNCHANGED hook
            <4>1. PICK j \in Jobs, ok \in BOOLEAN : hook' = [hook EXCEPT ![h] = [IdleHook EXCEPT
                    !.pc = "apply",
                    !.docs = {d \in DocsOfJob(j) : ~AlreadyTerminal(<<d, ExternalCall>>)},
                    !.ok = ok]]
                BY <3>3 DEF Receive
            <4>2. \A d \in DocsOfJob(j) : d \in Docs /\ jobId[d] # NoJob
                BY StoreAssumption DEF DocsOfJob
            <4> DEFINE s == [IdleHook EXCEPT !.pc = "apply",
                    !.docs = {d \in DocsOfJob(j) : ~AlreadyTerminal(<<d, ExternalCall>>)},
                    !.ok = ok]
            <4>3. \A d \in s.docs : d \in DocsOfJob(j)
                BY DEF IdleHook
            <4>4. hook' = [hook EXCEPT ![h] = s]
                BY <4>1
            <4> HIDE DEF s
            <4> QED
                BY <3>1, <4>2, <4>3, <4>4
        <3>4. CASE Apply(h)
            BY <3>1, <3>4 DEF Apply, TypeOK, HookTypeOK, HookSessions
        <3>5. CASE HookDerives(h)
            BY <3>1, <3>5 DEF HookDerives, TypeOK, HookTypeOK, HookSessions
        <3>6. CASE HookPersists(h) \/ HookCrashes(h)
            BY <3>1, <3>6 DEF HookPersists, HookCrashes, IdleHook
        <3> QED
            BY <3>2, <3>3, <3>4, <3>5, <3>6 DEF HookNext, HookStep
    <2> QED
        BY <1>2, <1>3, <2>1, <2>2, RowParts
        DEF StartedInv, HooksStarted, TypeOK, HookTypeOK, HookSessions
<1> QED
    BY <1>2, <1>4, <1>5, <1>6, <1>7 DEF StartedInv

(* The same for a reaper, which loads rows that are in flight only.     *)
LEMMA ReaperStarts ==
    ASSUME TypeOK, StartedInv, NEW r \in Reapers, ReaperNext(r), UNCHANGED <<worker, hook>>
    PROVE  Forward /\ StartedInv' /\ \A row \in Rows : Started(row)' => Started(row)
<1> USE DEF storeVars, brokerVars, transitionVars, partnerVars
<1>1. /\ reaper[r].failed \subseteq Docs /\ reaper[r].verdict # "absent"
      /\ \A step \in reaper[r].batch : step.row \in Rows /\ Started(step.row)
    BY DEF TypeOK, ReaperTypeOK, ReaperSessions, LoadedRows, Verdicts, StartedInv,
           ReapersStarted
<1>2. /\ Forward
      /\ \A row \in Rows : /\ Started(row)' <=> Started(row)
                           /\ Queued(row)' => Queued(row) \/ Started(row)
    <2>1. CASE Fail(r)
        <3>1. PICK step \in reaper[r].batch : SetStatus(step.row, "error")
            BY <2>1 DEF Fail
        <3>2. \A row \in Rows : Started(row)' <=> Started(row)
            BY <1>1, <3>1, SetStatusStarts DEF StepStatuses
        <3> QED
            BY <2>1, <3>2 DEF Fail, Forward, Queued
    <2>2. CASE Republish(r)
        <3>1. PICK step \in reaper[r].batch : Publish({step.row})
            BY <2>2 DEF Republish
        <3>2. \A row \in Rows : Queued(row)' => Queued(row) \/ row = step.row
            BY <1>1, <3>1, PublishQueues
        <3> QED
            BY <1>1, <2>2, <3>2 DEF Republish, Forward, Started
    <2>3. CASE ReaperPersists(r)
        BY <1>1, <2>3
        DEF ReaperPersists, Persist, Forward, Started, Queued, TypeOK, StoreTypeOK
    <2>4. CASE UNCHANGED <<status, result, docStatus, queue>>
        BY <2>4 DEF Forward, Started, Queued
    <2> QED
        BY <2>1, <2>2, <2>3, <2>4
        DEF ReaperNext, Wake, ReaperStep, ScanInFlight, ScanCallbacks, Scan, EndIteration,
            LeaveRunning, ReaperDerives, ReaperCrashes
<1>3. UNCHANGED <<result, claims, jobId>>
    BY DEF ReaperNext, Wake, ReaperStep, ScanInFlight, ScanCallbacks, Scan, EndIteration,
           Fail, Republish, LeaveRunning, ReaperDerives, ReaperPersists, ReaperCrashes, Crash
<1>4. RowsStarted'
    BY <1>2, <1>3, RowParts DEF StartedInv, RowsStarted, Forward
<1>5. WorkersStarted' /\ CallersStarted'
    BY <1>2, WorkerMoves DEF StartedInv, WorkersStarted, CallersStarted, At, StepOf
<1>6. HooksStarted'
    BY <1>2, <1>3, RowParts
    DEF StartedInv, HooksStarted, TypeOK, HookTypeOK, HookSessions
<1>7. \A q \in Reapers : \A step \in reaper'[q].batch :
            step \in reaper[q].batch \/ (step.row \in Rows /\ Started(step.row))
    <2>1. CASE \E s : reaper' = [reaper EXCEPT ![r] = s] /\ \A step \in s.batch :
            step \in reaper[r].batch \/ (step.row \in Rows /\ Started(step.row))
        <3>1. PICK s : reaper' = [reaper EXCEPT ![r] = s] /\ \A step \in s.batch :
                step \in reaper[r].batch \/ (step.row \in Rows /\ Started(step.row))
            BY <2>1
        <3>2. \A q \in Reapers : reaper'[q] = IF q = r THEN s ELSE reaper[q]
            BY <3>1 DEF TypeOK, ReaperTypeOK
        <3> QED
            BY <3>1, <3>2
    <2>2. IdleReaper.batch = {}
        BY DEF IdleReaper
    <2>3. ASSUME NEW part \in {1, 2},
                 NEW wanted \in SUBSET (InFlight \cup {"awaiting_callback"}),
                 Scan(r, part, wanted)
          PROVE  \E s : reaper' = [reaper EXCEPT ![r] = s] /\ \A step \in s.batch :
                    step \in reaper[r].batch \/ (step.row \in Rows /\ Started(step.row))
        <3> DEFINE rows == LockableStale(wanted)
                   s == [IdleReaper EXCEPT !.pc = "batch", !.part = part,
                            !.batch = {Loaded(row) : row \in rows}]
        <3>1. \A row \in rows : row \in Rows /\ Started(row)
            BY DEF LockableStale, TypeOK, StoreTypeOK, Started, InFlight
        <3>2. \A step \in s.batch : step.row \in Rows /\ Started(step.row)
            BY <3>1 DEF IdleReaper, Loaded
        <3>3. \/ reaper' = [reaper EXCEPT ![r] = IdleReaper]
              \/ reaper' = [reaper EXCEPT ![r] = s]
            BY <2>3 DEF Scan
        <3> HIDE DEF s
        <3> QED
            BY <2>2, <3>2, <3>3
    <2>4. CASE Wake(r)
        BY <2>1, <2>3, <2>4 DEF Wake, ScanInFlight, InFlight
    <2>5. CASE ScanCallbacks(r)
        BY <2>1, <2>3, <2>5 DEF ScanCallbacks, InFlight
    <2>6. CASE EndIteration(r) \/ ReaperCrashes(r)
        BY <2>1, <2>2, <2>6 DEF EndIteration, ReaperCrashes
    <2>7. \A q \in Reapers : reaper[q] \in ReaperSessions
        BY DEF TypeOK, ReaperTypeOK
    <2>8. CASE Fail(r)
        <3>1. PICK step \in reaper[r].batch :
                reaper' = [reaper EXCEPT ![r] =
                    [@ EXCEPT !.pc = "recompute", !.failed = {step.row[1]},
                              !.batch = reaper[r].batch \ {step}]]
            BY <2>8 DEF Fail
        <3>2. reaper'[r] = [reaper[r] EXCEPT !.pc = "recompute", !.failed = {step.row[1]},
                                             !.batch = reaper[r].batch \ {step}]
            BY <3>1 DEF TypeOK, ReaperTypeOK
        <3>3. reaper'[r].batch \subseteq reaper[r].batch
            BY <2>7, <3>2 DEF ReaperSessions
        <3> QED
            BY <2>8, <3>3 DEF Fail, TypeOK, ReaperTypeOK
    <2>9. CASE Republish(r) \/ LeaveRunning(r)
        <3>1. PICK step \in reaper[r].batch :
                reaper' = [reaper EXCEPT ![r].batch = @ \ {step}]
            BY <2>9 DEF Republish, LeaveRunning
        <3>2. reaper'[r] = [reaper[r] EXCEPT !.batch = @ \ {step}]
            BY <3>1 DEF TypeOK, ReaperTypeOK
        <3>3. reaper'[r].batch \subseteq reaper[r].batch
            BY <2>7, <3>2 DEF ReaperSessions
        <3> QED
            BY <2>9, <3>3 DEF Republish, LeaveRunning, TypeOK, ReaperTypeOK
    <2>10. CASE ReaperDerives(r) \/ ReaperPersists(r)
        <3>1. reaper'[r].batch = reaper[r].batch
            BY <2>7, <2>10
            DEF ReaperDerives, ReaperPersists, TypeOK, ReaperTypeOK, ReaperSessions
        <3> QED
            BY <2>10, <3>1 DEF ReaperDerives, ReaperPersists, TypeOK, ReaperTypeOK
    <2> QED
        BY <2>4, <2>5, <2>6, <2>8, <2>9, <2>10 DEF ReaperNext, ReaperStep
<1>8. ReapersStarted'
    BY <1>2, <1>7 DEF StartedInv, ReapersStarted, TypeOK, ReaperTypeOK, ReaperSessions,
                      LoadedRows
<1> QED
    BY <1>2, <1>4, <1>5, <1>6, <1>8 DEF StartedInv

(* What an upload or the clock does to them. *)
LEMMA UploadKeepsStarted ==
    ASSUME TypeOK, StartedInv, NEW d \in Docs, Upload(d),
           UNCHANGED <<partnerVars, worker, hook, reaper, backlogs>>
    PROVE  Forward /\ StartedInv'
<1>1. RowsGrow
    BY UploadStarts DEF Upload, RowsGrow, transitionVars, TypeOK, StoreTypeOK
<1>2. WorkersGrow /\ JobsGrow
    BY DEF Upload, WorkersGrow, JobsGrow, At
<1>3. CallersStarted'
    BY DEF StartedInv, CallersStarted, At, StepOf
<1> QED
    BY <1>1, <1>2, <1>3, UploadStarts, WorkersRemember

(* The clock starts no row. *)
LEMMA AgeKeepsStarted ==
    ASSUME TypeOK, StartedInv, NEW row \in Rows, Age(row),
           UNCHANGED <<brokerVars, transitionVars, partnerVars, worker, hook, reaper,
                       backlogs>>
    PROVE  Forward /\ StartedInv'
    BY DEF Age, brokerVars, transitionVars, Forward, StartedInv, RowsStarted,
           WorkersStarted, CallersStarted, HooksStarted, ReapersStarted, Started, Queued,
           At, StepOf

(* No step takes back a start, a result or an upload, and whatever      *)
(* remembers a row came after its start.                                *)
LEMMA NextKeepsStarted ==
    ASSUME TypeOK, StartedInv, [Next]_vars
    PROVE  Forward /\ StartedInv'
<1>1. ASSUME NEW w \in Workers, WorkerNext(w), UNCHANGED <<hook, reaper, backlogs>>
      PROVE  Forward /\ StartedInv'
    BY <1>1, WorkerStarts, CallersStay, WorkersRemember DEF StartedInv
<1>2. CASE Next
    BY <1>1, <1>2, UploadKeepsStarted, AgeKeepsStarted, HookStarts, ReaperStarts DEF Next
<1>3. CASE UNCHANGED vars
    BY <1>3
    DEF vars, storeVars, brokerVars, transitionVars, Forward, StartedInv, RowsStarted,
        WorkersStarted, CallersStarted, HooksStarted, ReapersStarted, Started, Queued, At,
        StepOf
<1> QED
    BY <1>2, <1>3

(* Nothing is remembered at the beginning. *)
LEMMA InitStarted == Init => StartedInv
    BY DEF Init, StoreInit, BrokerInit, TransitionInit, WorkerInit, HookInit, ReaperInit,
           IdleWorker, IdleHook, IdleReaper, StartedInv, RowsStarted, WorkersStarted,
           CallersStarted, HooksStarted, ReapersStarted, Started, Queued, At, Rows

(* Fan-in, not twice: a claim wins a PENDING row only, and starts it.   *)
LEMMA ClaimsOnce ==
    ASSUME TypeOK, StartedInv, FanInOnce, [Next]_vars
    PROVE  FanInOnce'
<1> USE DEF FanInOnce, TypeOK, TransitionTypeOK
<1>1. UNCHANGED claims \/ \E w \in Workers : ClaimNext(w)
    BY DEF Next, Upload, Age, WorkerNext, WorkerStep, Deliver, CheckDocument, MarkRunning,
           SaveOutput, CallPartner, SaveJob, StepFails, ReadReady, WorkerDerives,
           WorkerPersists, Acknowledge, WorkerCrashes, LoseConnection, HookNext, HookStep,
           Receive, Apply, HookDerives, HookPersists, HookCrashes, ReaperNext, Wake,
           ReaperStep, ScanInFlight, ScanCallbacks, Scan, EndIteration, Fail, Republish,
           LeaveRunning, ReaperDerives, ReaperPersists, ReaperCrashes, Crash,
           transitionVars, vars
<1>2. ASSUME NEW w \in Workers, ClaimNext(w)
      PROVE  FanInOnce'
    <2>1. PICK s \in Steps : ClaimAndPublish(<<DocOf(w), s>>)
        BY <1>2 DEF ClaimNext, WorkerTypeOK, WorkerSessions
    <2> DEFINE row == <<DocOf(w), s>>
    <2>2. row \in Rows
        BY <1>2, RowParts, WorkerMoves DEF ClaimNext, At
    <2> HIDE DEF row
    <2>3. ~Started(row) => claims[row] = 0
        BY <2>2 DEF StartedInv, RowsStarted
    <2>4. ClaimAndPublish(row)
        BY <2>1 DEF row
    <2> QED
        BY <2>2, <2>3, <2>4, ClaimStarts
<1> QED
    BY <1>1, <1>2

(* Fan-in, not twice, for any number of workers that see a step become *)
(* ready at once: claim_pending_step is won once per row.              *)
THEOREM ClaimedOnce == Spec => []FanInOnce
<1>1. Init => FanInOnce
    BY DEF Init, TransitionInit, FanInOnce
<1>2. TypeOK /\ StartedInv /\ [Next]_vars => StartedInv'
    BY NextKeepsStarted
<1>3. TypeOK /\ StartedInv /\ FanInOnce /\ [Next]_vars => FanInOnce'
    BY ClaimsOnce
<1> QED
    BY <1>1, <1>2, <1>3, InitStarted, TypeCorrect, PTL DEF Spec

----
(* Fan-in, not zero times. *)

(* The external call ends the graph: no step waits for its outcome,     *)
(* which the webhook applies without triggering anything.               *)
CallIsLast == \A s \in Steps : ExternalCall \notin Predecessors[s]

(* A row becomes DONE by a worker that saves its output, or, for the    *)
(* external call, by a report.                                          *)
LEMMA BecomesDone ==
    ASSUME TypeOK, [Next]_vars, NEW row \in Rows, status'[row] = "done",
           status[row] # "done"
    PROVE  \/ \E w \in Workers : SaveOutput(w) /\ worker[w].row = row
           \/ \E h \in Hooks, d \in Docs :
                result' = [result EXCEPT ![<<d, ExternalCall>>] = TRUE]
                /\ row = <<d, ExternalCall>>
<1> USE DEF SetStatus, TypeOK, StoreTypeOK, storeVars
<1>1. ASSUME NEW other, NEW new \in StepStatuses, SetStatus(other, new)
      PROVE  row = other /\ new = "done"
    BY <1>1
<1>2. ASSUME NEW d, Upload(d)
      PROVE  FALSE
    BY <1>2 DEF Upload, InitialStatus
<1>3. ASSUME NEW w \in Workers, WorkerNext(w)
      PROVE  SaveOutput(w) /\ worker[w].row = row
    <2>1. CASE SaveOutput(w)
        BY <1>1, <2>1 DEF SaveOutput, StepStatuses
    <2>2. CASE ClaimNext(w)
        BY <1>1, <2>2 DEF ClaimNext, ClaimAndPublish, StepStatuses
    <2>3. CASE MarkRunning(w) \/ SaveJob(w) \/ StepFails(w)
        BY <1>1, <2>3 DEF MarkRunning, SaveJob, StepFails, StepStatuses
    <2> QED
        BY <1>3, <2>1, <2>2, <2>3
        DEF WorkerNext, WorkerStep, Deliver, CheckDocument, CallPartner, ReadReady,
            WorkerDerives, WorkerPersists, Acknowledge, WorkerCrashes, LoseConnection
<1>4. ASSUME NEW h \in Hooks, HookNext(h)
      PROVE  \E d \in Docs : /\ result' = [result EXCEPT ![<<d, ExternalCall>>] = TRUE]
                             /\ row = <<d, ExternalCall>>
    <2>1. CASE Apply(h)
        <3>1. PICK d \in hook[h].docs :
                /\ SetStatus(<<d, ExternalCall>>, IF hook[h].ok THEN "done" ELSE "error")
                /\ result' = IF hook[h].ok
                             THEN [result EXCEPT ![<<d, ExternalCall>>] = TRUE] ELSE result
            BY <2>1 DEF Apply
        <3>2. row = <<d, ExternalCall>> /\ hook[h].ok /\ d \in Docs
            BY <3>1 DEF HookTypeOK, HookSessions
        <3> QED
            BY <3>1, <3>2
    <2> QED
        BY <1>4, <2>1
        DEF HookNext, HookStep, Receive, HookDerives, HookPersists, HookCrashes
<1>5. ASSUME NEW r \in Reapers, ReaperNext(r)
      PROVE  FALSE
    <2>1. UNCHANGED status \/ \E other : SetStatus(other, "error")
        BY <1>5
        DEF ReaperNext, Wake, ReaperStep, ScanInFlight, ScanCallbacks, Scan, EndIteration,
            Fail, Republish, LeaveRunning, ReaperDerives, ReaperPersists, ReaperCrashes
    <2> QED
        BY <1>1, <2>1 DEF StepStatuses
<1> QED
    BY <1>2, <1>3, <1>4, <1>5 DEF Next, Age, vars

(* Steps to claim are held only by the loop that claims them. *)
TodoHeld == \A w \in Workers : ~At(w, "recompute") => worker[w].todo = {}

(* The loop ends when nothing is left to claim. *)
LEMMA TodoStaysHeld ==
    ASSUME TypeOK, TodoHeld, [Next]_vars
    PROVE  TodoHeld'
<1> USE DEF TodoHeld, At
<1> SUFFICES ASSUME NEW w \in Workers, WorkerNext(w), worker'[w].pc # "recompute"
             PROVE  worker'[w].todo = {}
    BY OtherSessions DEF Next, vars
<1>1. CASE Deliver(w)
    BY <1>1, Delivers
<1>2. CASE Finish(w)
    BY <1>2, Finishes DEF IdleWorker
<1>3. CASE CheckDocument(w)
    BY <1>2, <1>3, Checks
<1>4. CASE MarkRunning(w) \/ SaveOutput(w) \/ SaveJob(w) \/ WorkerPersists(w)
    BY <1>4, Moves DEF MarkRunning, SaveOutput, SaveJob, WorkerPersists
<1>5. CASE CallPartner(w)
    BY <1>5, Calls DEF CallPartner
<1>6. CASE ReadReady(w) \/ ClaimNext(w)
    BY <1>6, Triggers DEF ClaimNext
<1>7. CASE WorkerDerives(w)
    BY <1>7, Derives
<1>8. CASE LoseConnection(w)
    BY <1>8, Disconnects
<1>9. CASE StepFails(w) /\ ~Finish(w)
    BY <1>9, Moves DEF StepFails
<1> QED
    BY <1>1, <1>2, <1>3, <1>4, <1>5, <1>6, <1>7, <1>8, <1>9
    DEF WorkerNext, WorkerStep, Acknowledge, WorkerCrashes

(* A worker that will claim a step does so, unless it crashes or the    *)
(* step is claimed.                                                     *)
LEMMA ClaimsAhead ==
    ASSUME TypeOK, TodoHeld, NEW w \in Workers, WorkerNext(w), crashes' = 0,
           NEW d \in Docs, NEW s \in Steps, WillClaim(w, <<d, s>>),
           status[<<d, s>>] = "pending", Predecessors[s] \subseteq Done(d),
           status'[<<d, s>>] = "pending"
    PROVE  WillClaim(w, <<d, s>>)'
<1> USE DEF WillClaim, At, TodoHeld
<1>1. worker[w].pc \in {"trigger", "recompute"}
    OBVIOUS
<1>2. worker[w].row \in Rows /\ DocOf(w) = d
    BY <1>1, WorkerMoves
<1>3. KeepsMessage(w) => worker'[w].row # NoRow /\ DocOf(w)' = d
    BY <1>2 DEF KeepsMessage, DocOf
<1>4. CASE ReadReady(w)
    <2>1. s \in Ready(d)
        BY DEF Ready, ReadySuccessors, Done
    <2> QED
        BY <1>2, <1>3, <1>4, <2>1, Triggers
<1>5. CASE ClaimNext(w)
    <2>1. PICK t \in worker[w].todo :
            /\ ClaimAndPublish(<<d, t>>)
            /\ worker'[w].todo = worker[w].todo \ {t}
        BY <1>2, <1>5, Triggers
    <2>2. t # s
        BY <2>1, RowParts
        DEF ClaimAndPublish, Claimable, SetStatus, TypeOK, StoreTypeOK
    <2> QED
        BY <1>3, <1>5, <2>1, <2>2, Triggers DEF ClaimNext
<1>6. CASE LoseConnection(w)
    BY <1>2, <1>6, Disconnects DEF DocOf
<1>7. ~Crash
    <2>1. crashes \in Nat
        BY DEF TypeOK, TransitionTypeOK
    <2> QED
        BY <2>1 DEF Crash
<1> QED
    BY <1>1, <1>4, <1>5, <1>6, <1>7
    DEF WorkerNext, WorkerStep, Deliver, CheckDocument, MarkRunning, SaveOutput,
        CallPartner, SaveJob, StepFails, WorkerDerives, WorkerPersists, Acknowledge,
        WorkerCrashes

(* The worker that finishes the last predecessor claims the step.      *)
LEMMA FanInKept ==
    ASSUME CallIsLast, TypeOK, StartedInv, TodoHeld, FanInNotLost, [Next]_vars
    PROVE  FanInNotLost'
<1> SUFFICES ASSUME crashes' = 0, NEW d \in Docs, NEW s \in Steps \ EntryNodes,
                    status'[<<d, s>>] = "pending", Predecessors[s] \subseteq Done(d)'
             PROVE  \E w \in Workers : WillClaim(w, <<d, s>>)'
    BY DEF FanInNotLost
<1>1. crashes = 0 /\ <<d, s>> \in Rows /\ status[<<d, s>>] = "pending"
    BY FaultsCounted, RowParts, NextKeepsStarted DEF Forward, Started
<1>2. CASE Predecessors[s] \subseteq Done(d)
    <2>1. PICK w \in Workers : WillClaim(w, <<d, s>>)
        BY <1>1, <1>2 DEF FanInNotLost
    <2>2. CASE worker'[w] = worker[w]
        BY <2>1, <2>2 DEF WillClaim, At, DocOf
    <2>3. CASE WorkerNext(w)
        BY <1>1, <1>2, <2>1, <2>3, ClaimsAhead
    <2> QED
        BY <2>2, <2>3, OtherSessions DEF Next, vars
<1>3. CASE ~(Predecessors[s] \subseteq Done(d))
    <2>1. PICK p \in Predecessors[s] : p \notin Done(d)
        BY <1>3
    <2>2. p \in Steps /\ status'[<<d, p>>] = "done" /\ status[<<d, p>>] # "done"
        BY <2>1, DagAssumption DEF Done
    <2>3. PICK w \in Workers : SaveOutput(w) /\ worker[w].row = <<d, p>>
        BY <2>1, <2>2, RowParts, BecomesDone DEF CallIsLast
    <2>4. worker'[w].pc = "trigger" /\ worker'[w].row = <<d, p>>
        BY <2>3, Moves DEF SaveOutput, KeepsMessage
    <2>5. worker'[w].row # NoRow
        BY <2>2, <2>4, RowParts, NoRowIsNoRow
    <2>6. DocOf(w)' = d /\ At(w, "trigger")'
        BY <2>4 DEF DocOf, At
    <2> QED
        BY <2>5, <2>6 DEF WillClaim
<1> QED
    BY <1>2, <1>3

(* Fan-in, not zero times, for every graph that ends with the external  *)
(* call: whichever worker finishes the last predecessor, some worker    *)
(* goes on to claim the step, unless a process crashed.                 *)
THEOREM ClaimedInTheEnd ==
    ASSUME CallIsLast
    PROVE  Spec => []FanInNotLost
<1>1. Init => StartedInv /\ TodoHeld /\ FanInNotLost
    <2> SUFFICES ASSUME Init PROVE TodoHeld /\ FanInNotLost
        BY InitStarted
    <2>1. TodoHeld
        BY DEF Init, WorkerInit, IdleWorker, TodoHeld
    <2>2. \A d \in Docs : Done(d) = {}
        BY RowParts DEF Init, StoreInit, Done
    <2> QED
        BY <2>1, <2>2 DEF FanInNotLost, EntryNodes
<1>2. TypeOK /\ StartedInv /\ TodoHeld /\ FanInNotLost /\ [Next]_vars
        => (StartedInv /\ TodoHeld /\ FanInNotLost)'
    BY NextKeepsStarted, TodoStaysHeld, FanInKept
<1> QED
    BY <1>1, <1>2, TypeCorrect, PTL DEF Spec

----
(* The order of the graph. *)

ResultsFirst ==
    \A d \in Docs, s \in Steps :
        Started(<<d, s>>) => \A p \in Predecessors[s] : result[<<d, p>>]

DoneHasResult == \A row \in Rows : status[row] = "done" => result[row]

TodoReady ==
    \A w \in Workers : ~At(w, "idle") =>
        \A s \in worker[w].todo : \A p \in Predecessors[s] : result[<<DocOf(w), p>>]

OrderInv == ResultsFirst /\ DoneHasResult /\ TodoReady

(* Of the steps of a worker, a claim alone starts a row. *)
LEMMA OnlyClaimsStart ==
    ASSUME TypeOK, StartedInv, NEW w \in Workers, WorkerNext(w), ~ClaimNext(w)
    PROVE  \A row \in Rows : Started(row)' => Started(row)
<1> USE DEF storeVars
<1>1. CASE UNCHANGED status
    BY <1>1 DEF Started
<1>2. CASE \E new \in StepStatuses \ {"pending"} : SetStatus(worker[w].row, new)
    <2>1. UNCHANGED status \/ ~At(w, "idle")
        BY KeepsRow DEF Deliver
    <2> QED
        BY <1>1, <1>2, <2>1, HandlesStarted, SetStatusStarts
<1> QED
    BY <1>1, <1>2
    DEF WorkerNext, WorkerStep, Deliver, CheckDocument, MarkRunning, SaveOutput,
        CallPartner, SaveJob, StepFails, ReadReady, WorkerDerives, WorkerPersists,
        Acknowledge, WorkerCrashes, LoseConnection, StepStatuses

(* A step that starts has the results of its predecessors.              *)
LEMMA StartsInOrder ==
    ASSUME TypeOK, StartedInv, OrderInv, [Next]_vars
    PROVE  ResultsFirst'
<1>1. Forward
    BY NextKeepsStarted
<1> SUFFICES ASSUME NEW d \in Docs, NEW s \in Steps, Started(<<d, s>>)',
                    NEW p \in Predecessors[s]
             PROVE  result'[<<d, p>>]
    BY DEF ResultsFirst
<1>2. /\ <<d, s>> \in Rows /\ <<d, p>> \in Rows
      /\ result[<<d, p>>] => result'[<<d, p>>]
    BY <1>1, DagAssumption, RowParts DEF Forward
<1>3. CASE Started(<<d, s>>)
    BY <1>2, <1>3 DEF OrderInv, ResultsFirst
<1> SUFFICES ASSUME ~Started(<<d, s>>) PROVE result[<<d, p>>]
    BY <1>2, <1>3
<1>4. ASSUME NEW e \in Docs, Upload(e)
      PROVE  FALSE
    <2>1. s \in EntryNodes
        BY <1>2, <1>4, UploadStarts
    <2> QED
        BY <2>1 DEF EntryNodes
<1>5. ASSUME NEW w \in Workers, WorkerNext(w)
      PROVE  result[<<d, p>>]
    <2>1. ClaimNext(w)
        BY <1>2, <1>5, OnlyClaimsStart
    <2>2. PICK t \in worker[w].todo : ClaimAndPublish(<<DocOf(w), t>>)
        BY <2>1 DEF ClaimNext
    <2>3. <<DocOf(w), t>> \in Rows /\ ~At(w, "idle")
        BY <2>1, RowParts, WorkerMoves
        DEF ClaimNext, At, TypeOK, WorkerTypeOK, WorkerSessions
    <2>4. <<d, s>> = <<DocOf(w), t>>
        BY <1>2, <2>2, <2>3, ClaimStarts DEF Started
    <2> QED
        BY <2>3, <2>4 DEF OrderInv, TodoReady
<1>6. CASE UNCHANGED status
    BY <1>6 DEF Started
<1> QED
    BY <1>2, <1>4, <1>5, <1>6, HookStarts, ReaperStarts DEF Next, Age, vars, storeVars

(* A step is DONE only with its result. *)
LEMMA DoneComesWithResult ==
    ASSUME TypeOK, StartedInv, OrderInv, [Next]_vars
    PROVE  DoneHasResult'
<1> SUFFICES ASSUME NEW row \in Rows, status'[row] = "done", status[row] # "done"
             PROVE  result'[row]
    BY NextKeepsStarted DEF OrderInv, DoneHasResult, Forward
<1>1. CASE \E w \in Workers : SaveOutput(w) /\ worker[w].row = row
    BY <1>1 DEF SaveOutput, TypeOK, StoreTypeOK
<1>2. CASE \E h \in Hooks, d \in Docs :
                result' = [result EXCEPT ![<<d, ExternalCall>>] = TRUE]
                /\ row = <<d, ExternalCall>>
    BY <1>2 DEF TypeOK, StoreTypeOK
<1> QED
    BY <1>1, <1>2, BecomesDone

(* trigger_successors goes through steps whose predecessors have their  *)
(* results, and only through those.                                     *)
LEMMA TodoStaysReady ==
    ASSUME TypeOK, StartedInv, OrderInv, [Next]_vars
    PROVE  TodoReady'
<1>1. Forward
    BY NextKeepsStarted
<1> SUFFICES ASSUME NEW w \in Workers, ~At(w, "idle")',
                    NEW s \in worker'[w].todo, NEW p \in Predecessors[s]
             PROVE  result'[<<DocOf(w)', p>>]
    BY DEF TodoReady
<1>2. CASE /\ ~At(w, "idle") /\ worker'[w].row = worker[w].row
           /\ s \in worker[w].todo
    <2>1. s \in Steps /\ DocOf(w) \in Docs /\ DocOf(w)' = DocOf(w)
        BY <1>2, WorkerMoves DEF TypeOK, WorkerTypeOK, WorkerSessions, DocOf
    <2>2. <<DocOf(w), p>> \in Rows
        BY <2>1, DagAssumption, RowParts
    <2>3. result[<<DocOf(w), p>>]
        BY <1>2, <2>1 DEF OrderInv, TodoReady
    <2> QED
        BY <1>1, <2>1, <2>2, <2>3 DEF Forward
<1>3. ASSUME worker'[w] = worker[w]
      PROVE  result'[<<DocOf(w)', p>>]
    BY <1>2, <1>3 DEF At
<1>4. ASSUME WorkerNext(w)
      PROVE  result'[<<DocOf(w)', p>>]
    <2>1. CASE Deliver(w)
        <3>1. worker'[w] = worker[w] \/ worker'[w].todo = {}
            BY <2>1 DEF Deliver, IdleWorker, TypeOK, WorkerTypeOK
        <3> QED
            BY <1>3, <3>1
    <2>2. CASE ReadReady(w)
        <3> DEFINE session == [worker[w] EXCEPT !.pc = "recompute", !.todo = Ready(DocOf(w))]
        <3>1. worker'[w] = session
            BY <2>2 DEF ReadReady, TypeOK, WorkerTypeOK
        <3>2. session.row = worker[w].row /\ session.todo = Ready(DocOf(w))
            BY DEF TypeOK, WorkerTypeOK, WorkerSessions
        <3>3. s \in Ready(DocOf(w)) /\ DocOf(w)' = DocOf(w) /\ DocOf(w) \in Docs
            BY <2>2, <3>1, <3>2, WorkerMoves DEF ReadReady, At, DocOf
        <3>4. s \in Steps /\ p \in Done(DocOf(w))
            BY <3>3 DEF Ready, ReadySuccessors
        <3>5. result[<<DocOf(w), p>>] /\ <<DocOf(w), p>> \in Rows
            BY <3>3, <3>4, RowParts DEF Done, OrderInv, DoneHasResult
        <3> QED
            BY <1>1, <3>3, <3>5 DEF Forward
    <2>3. CASE ~Deliver(w) /\ ~ReadReady(w)
        <3>1. ~At(w, "idle") /\ worker'[w].row = worker[w].row
            BY <1>4, <2>3, KeepsRow
        <3>2. worker[w] \in WorkerSessions
            BY DEF TypeOK, WorkerTypeOK
        <3>3. CASE \E pc \in {"run", "trigger", "recompute", "ack"} : Goto(w, pc)
            <4>1. PICK pc \in {"run", "trigger", "recompute", "ack"} :
                    worker'[w] = [worker[w] EXCEPT !.pc = pc]
                BY <3>3 DEF Goto, TypeOK, WorkerTypeOK
            <4>2. worker'[w].todo = worker[w].todo
                BY <3>2, <4>1 DEF WorkerSessions
            <4> QED
                BY <1>2, <3>1, <4>2
        <3>4. CASE Finish(w)
            BY <3>4 DEF Finish, IdleWorker, TypeOK, WorkerTypeOK, At
        <3>5. CASE CheckDocument(w)
            <4>1. \/ Finish(w)
                  \/ worker'[w] = [worker[w] EXCEPT !.pc = "mark",
                                                    !.seen = docStatus[DocOf(w)]]
                BY <3>5 DEF CheckDocument, TypeOK, WorkerTypeOK
            <4> QED
                BY <1>2, <3>1, <3>2, <3>4, <4>1 DEF WorkerSessions
        <3>6. CASE CallPartner(w)
            <4>1. PICK j : worker'[w] = [worker[w] EXCEPT !.pc = "called", !.job = j]
                BY <3>6 DEF CallPartner, TypeOK, WorkerTypeOK
            <4> QED
                BY <1>2, <3>1, <3>2, <4>1 DEF WorkerSessions
        <3>7. CASE ClaimNext(w)
            <4>1. PICK t : worker'[w] = [worker[w] EXCEPT !.todo = @ \ {t}]
                BY <3>7 DEF ClaimNext, TypeOK, WorkerTypeOK
            <4> QED
                BY <1>2, <3>1, <3>2, <4>1 DEF WorkerSessions
        <3>8. CASE WorkerDerives(w)
            <4>1. worker'[w] = [worker[w] EXCEPT !.pc = "persist",
                                                 !.verdict = Derive(DocOf(w))]
                BY <3>8 DEF WorkerDerives, TypeOK, WorkerTypeOK
            <4> QED
                BY <1>2, <3>1, <3>2, <4>1 DEF WorkerSessions
        <3>9. CASE LoseConnection(w)
            <4>1. worker'[w] = [worker[w] EXCEPT !.live = FALSE]
                BY <3>9 DEF LoseConnection, TypeOK, WorkerTypeOK
            <4> QED
                BY <1>2, <3>1, <3>2, <4>1 DEF WorkerSessions
        <3> QED
            BY <1>4, <2>3, <3>3, <3>4, <3>5, <3>6, <3>7, <3>8, <3>9
            DEF WorkerNext, WorkerStep, MarkRunning, SaveOutput, SaveJob, StepFails,
                WorkerPersists, Acknowledge, WorkerCrashes
    <2> QED
        BY <2>1, <2>2, <2>3
<1>5. ASSUME NEW v \in Workers \ {w}, WorkerNext(v)
      PROVE  worker'[w] = worker[w]
    BY <1>5
    DEF WorkerNext, WorkerStep, Deliver, CheckDocument, MarkRunning, SaveOutput,
        CallPartner, SaveJob, StepFails, ReadReady, ClaimNext, WorkerDerives,
        WorkerPersists, Acknowledge, WorkerCrashes, LoseConnection, Finish, Goto,
        TypeOK, WorkerTypeOK
<1> QED
    BY <1>3, <1>4, <1>5 DEF Next, vars

(* A started step has the results of its predecessors; these had        *)
(* started too, so theirs have: all that a handler reads.               *)
LEMMA ResultsOfInputs ==
    ASSUME StartedInv, OrderInv, NEW d \in Docs, NEW s \in Steps, Started(<<d, s>>)
    PROVE  \A t \in Inputs[s] : result[<<d, t>>]
<1>1. \A p \in Predecessors[s] : p \in Steps /\ result[<<d, p>>]
    BY DagAssumption DEF OrderInv, ResultsFirst
<1>2. \A p \in Predecessors[s] : Started(<<d, p>>)
    BY <1>1, RowParts DEF StartedInv, RowsStarted
<1>3. \A p \in Predecessors[s] : \A q \in Predecessors[p] : result[<<d, q>>]
    BY <1>1, <1>2 DEF OrderInv, ResultsFirst
<1> QED
    BY <1>1, <1>3, WorkerAssumption

(* The input gate: on delivery the step has started.                    *)
LEMMA InputsStayReady ==
    ASSUME TypeOK, StartedInv, OrderInv, InputsReady, [Next]_vars
    PROVE  InputsReady'
<1> SUFFICES ASSUME NEW w \in Workers, ~At(w, "idle")', worker'[w] # worker[w]
             PROVE  worker'[w].inputs
    BY DEF InputsReady, At
<1>1. ASSUME NEW v \in Workers, WorkerNext(v), ~Deliver(v)
      PROVE  worker'[w].inputs
    BY <1>1, KeepsRow DEF InputsReady
<1>2. ASSUME NEW v \in Workers, Deliver(v)
      PROVE  worker'[w].inputs
    <2>1. PICK row \in Rows, n \in 0..MaxAttempts :
            /\ Take(row, n)
            /\ worker' = [worker EXCEPT ![v] = [IdleWorker EXCEPT
                    !.pc = "check", !.row = row, !.count = n, !.live = TRUE,
                    !.status = status[row], !.attempts = attempts[row],
                    !.inputs = \A s \in Inputs[row[2]] : result[row[1], s]]]
        BY <1>2 DEF Deliver
    <2>2. worker'[w] = [IdleWorker EXCEPT
                    !.pc = "check", !.row = row, !.count = n, !.live = TRUE,
                    !.status = status[row], !.attempts = attempts[row],
                    !.inputs = \A s \in Inputs[row[2]] : result[row[1], s]]
        BY <2>1 DEF TypeOK, WorkerTypeOK
    <2>3. Started(row) /\ row[1] \in Docs /\ row[2] \in Steps /\ row = <<row[1], row[2]>>
        BY <2>1, TakeQueues, RowParts DEF StartedInv, RowsStarted
    <2>4. \A s \in Inputs[row[2]] : result[row[1], s]
        BY <2>3, ResultsOfInputs
    <2> QED
        BY <2>2, <2>4 DEF IdleWorker
<1> QED
    BY <1>1, <1>2 DEF Next, vars

(* The order of the graph holds from the start, and so does the gate. *)
LEMMA OrderAlways == Spec => [](StartedInv /\ OrderInv /\ InputsReady)
<1> DEFINE IInv == StartedInv /\ OrderInv /\ InputsReady
<1>1. Init => IInv
    <2>1. Init => OrderInv /\ InputsReady
        BY DEF Init, StoreInit, WorkerInit, IdleWorker, OrderInv, ResultsFirst,
               DoneHasResult, TodoReady, InputsReady, Started, At, Rows
    <2> QED
        BY <2>1, InitStarted
<1>2. TypeOK /\ IInv /\ [Next]_vars => IInv'
    BY NextKeepsStarted, StartsInOrder, DoneComesWithResult, TodoStaysReady,
       InputsStayReady DEF OrderInv
<1> QED
    BY <1>1, <1>2, TypeCorrect, PTL DEF Spec

(* The input gate, for every graph that passes _validate and every     *)
(* number of overlapping deliveries: a handler finds every result it   *)
(* reads. On top of the types the proof needs what StartedInv and      *)
(* OrderInv say of messages, sessions and claims.                      *)
THEOREM InputsComeFirst == Spec => []InputsReady
    BY OrderAlways, PTL

====
