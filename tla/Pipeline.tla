-------------------------- MODULE Pipeline -------------------------
(* The whole backend: API, workers and reapers around one database, one *)
(* broker and the partner.                                              *)
EXTENDS Worker, Webhook, Reaper, Documents

CONSTANT MaxBacklogs    \* bound: backlogs that happen

(* Ordinarily a message reaches a worker, and its step is RUNNING,      *)
(* before its row is overdue. A backlog is the exception: a reaper      *)
(* finds a QUEUED row overdue whose message is still under way.         *)
VARIABLE backlogs

ASSUME PipelineAssumption == MaxBacklogs \in Nat

vars == <<storeVars, brokerVars, transitionVars, partnerVars, worker, hook, reaper,
          backlogs>>

Init ==
    /\ StoreInit /\ BrokerInit /\ TransitionInit /\ PartnerInit
    /\ WorkerInit /\ HookInit /\ ReaperInit
    /\ backlogs = 0

(* The message of a row is queued, or with a worker. *)
Outstanding(row) ==
    Queued(row) \/ \E w \in Workers : worker[w].live /\ worker[w].row = row

(* No QUEUED row is overdue while its message is outstanding. *)
Timely == \A row \in stale : status[row] = "queued" => ~Outstanding(row)

Backlog ==
    /\ backlogs < MaxBacklogs
    /\ backlogs' = backlogs + 1

(* A reaper's iteration begins. *)
Wake(r) ==
    /\ ScanInFlight(r)
    /\ IF Timely THEN UNCHANGED backlogs ELSE Backlog

WorkerNext(w) ==
    WorkerStep(w) \/ WorkerCrashes(w) \/ LoseConnection(w)

HookNext(h) == Receive(h) \/ HookStep(h) \/ HookCrashes(h)

ReaperNext(r) ==
    \/ Wake(r)
    \/ (ReaperStep(r) \/ ReaperCrashes(r)) /\ UNCHANGED backlogs

Next ==
    \/ /\ \E d \in Docs : Upload(d)
       /\ UNCHANGED <<partnerVars, worker, hook, reaper, backlogs>>
    \/ /\ \E row \in Rows : Age(row)
       /\ UNCHANGED <<brokerVars, transitionVars, partnerVars, worker, hook, reaper,
                      backlogs>>
    \/ /\ \E w \in Workers : WorkerNext(w)
       /\ UNCHANGED <<hook, reaper, backlogs>>
    \/ /\ \E h \in Hooks : HookNext(h)
       /\ UNCHANGED <<worker, reaper, backlogs>>
    \/ /\ \E r \in Reapers : ReaperNext(r)
       /\ UNCHANGED <<worker, hook>>

Spec == Init /\ [][Next]_vars

----
(* Properties. *)

(* Every variable keeps its type. *)
TypeOK ==
    /\ StoreTypeOK /\ BrokerTypeOK /\ TransitionTypeOK /\ PartnerTypeOK
    /\ WorkerTypeOK /\ HookTypeOK /\ ReaperTypeOK
    /\ backlogs \in 0..MaxBacklogs

(* No message was handled, or queued, more than once at a time. *)
NoOverlap == backlogs = 0 /\ disconnects = 0

(* The input gate: a worker that handles a step has loaded the result   *)
(* of every step whose result it reads, however deliveries overlap.     *)
InputsReady == \A w \in Workers : ~At(w, "idle") => worker[w].inputs

(* Fan-in, not twice: however many workers see a step become ready, one *)
(* claim is won and one message is published by them.                   *)
FanInOnce == \A row \in Rows : claims[row] <= 1

(* A worker is about to look for, or to claim, row. *)
WillClaim(w, row) ==
    /\ worker[w].row # NoRow
    /\ DocOf(w) = row[1]
    /\ \/ At(w, "trigger")
       \/ row[2] \in worker[w].todo

(* Fan-in, not zero times: unless a process crashed, a step whose       *)
(* predecessors are all DONE is claimed already or is about to be.      *)
FanInNotLost ==
    crashes = 0 =>
        \A d \in Docs, s \in Steps \ EntryNodes :
            status[d, s] = "pending" /\ Predecessors[s] \subseteq Done(d) =>
                \E w \in Workers : WillClaim(w, <<d, s>>)

(* The ready gate: a document is READY only if the partner has reported *)
(* completed, under its signature, a job that was started for it.       *)
ReadyIsVerified ==
    \A d \in Docs : docStatus[d] = "ready" => Issued(d) \cap completed # {}

(* Without overlap a row has at most one delivery: one copy of its      *)
(* message, or one worker, whatever was lost, returned or republished.  *)
SingleDelivery ==
    NoOverlap =>
        \A row \in Rows :
            /\ \A m, n \in 0..MaxAttempts :
                  queue[row][m] > 0 /\ queue[row][n] > 0 => m = n /\ queue[row][n] = 1
            /\ \A v, w \in Workers :
                  worker[v].row = row /\ worker[w].row = row => v = w
            /\ \A w \in Workers : worker[w].row = row => ~Queued(row)

(* The document that is shown READY has all its extracted data, as the  *)
(* ready gate promises: what the detail route returns has the results   *)
(* of the external call and of every step the call was made from,       *)
(* however often steps were retried or redelivered.                     *)
ReadyIsComplete ==
    \A d \in Docs :
        docStatus[d] = "ready" =>
            Inputs[ExternalCall] \cup {ExternalCall} \subseteq ExtractedData(d)

(* The attempts counter of the row and the delivery count of its        *)
(* message agree: without overlap a message is returned only for a      *)
(* counted failure or a crash, and a row out of attempts has failed. So *)
(* the counter decides, and the broker's limit is the backstop that     *)
(* only crashes reach.                                                  *)
RetryBudget ==
    NoOverlap =>
        \A row \in Rows :
            /\ attempts[row] >= MaxAttempts => status[row] = "error"
            /\ \A n \in 0..MaxAttempts :
                  queue[row][n] > 0 => n <= attempts[row] + crashes
            /\ \A w \in Workers :
                  worker[w].row = row => worker[w].count <= attempts[row] + crashes

(* Without overlap the partner gets a second job for a document only    *)
(* for a crash. The one that matters is between reaching the partner    *)
(* and saving the job id; the bound counts every crash of any process.  *)
CallsBounded ==
    NoOverlap => \A d \in Docs : Cardinality(Issued(d)) <= 1 + crashes

(* Without overlap, the partner is not called again for a document once *)
(* a job id is saved, whatever is redelivered after a crash.            *)
NoCallAfterSave ==
    [][\A d \in Docs : NoOverlap /\ jobId[d] # NoJob => Issued(d)' = Issued(d)]_vars

(* Somebody still has to bring d's stored status up to date. *)
Busy(d) ==
    \/ \E w \in Workers : worker[w].row # NoRow /\ DocOf(w) = d
    \/ \E h \in Hooks : d \in hook[h].docs
    \/ \E r \in Reapers : d \in reaper[r].failed

(* The stored document status is the one its steps derive to, as soon   *)
(* as nobody works on the document, unless a process crashed: sessions  *)
(* that recompute it at the same time do not undo each other's verdict. *)
(* Only the two outcomes a call can have, if a completed report has     *)
(* been stored beside a timeout or a second report, may be recorded the *)
(* wrong way round; but then too the document has been decided.         *)
SettledInSync ==
    NoOverlap /\ crashes = 0 =>
        \A d \in Docs :
            docStatus[d] # "absent" /\ ~Busy(d) =>
                \/ docStatus[d] = Derive(d)
                \/ result[d, ExternalCall] /\ {docStatus[d], Derive(d)} = {"ready", "failed"}

(* Without overlap the steps follow the abstract state machine: the     *)
(* rows of pipeline_step are its state, and messages, sessions, locks,  *)
(* clocks and the partner are hidden.                                   *)
Lifecycle == INSTANCE StepMachine WITH
                Predecessors <- Predecessors, Docs <- Docs, state <- status
StepsFollowLifecycle == Lifecycle!Spec

----
(* Liveness. Each process runs on, the clock moves, and an iteration of *)
(* the reaper is followed by another (main's while True). A write that  *)
(* waits for a row lock is served when the lock is free, before a later *)
(* SKIP LOCKED scan can take it again, as PostgreSQL's lock queue does: *)
(* hence strong fairness for the writes. Nothing is assumed of the      *)
(* partner, of new requests, crashes or losses.                         *)
WorkerRuns(w) == WorkerStep(w) /\ UNCHANGED <<hook, reaper, backlogs>>
HookRuns(h) == HookStep(h) /\ UNCHANGED <<worker, reaper, backlogs>>
ReaperRuns(r) ==
    /\ Wake(r) \/ (ReaperStep(r) /\ UNCHANGED backlogs)
    /\ UNCHANGED <<worker, hook>>
ClockRuns(row) ==
    /\ Age(row)
    /\ UNCHANGED <<brokerVars, transitionVars, partnerVars, worker, hook, reaper, backlogs>>

WorkerWrites(w) ==
    /\ MarkRunning(w) \/ SaveOutput(w) \/ SaveJob(w) \/ StepFails(w)
    /\ UNCHANGED <<hook, reaper, backlogs>>
HookWrites(h) == Apply(h) /\ UNCHANGED <<worker, reaper, backlogs>>
ReaperWrites(r) == Fail(r) /\ UNCHANGED <<worker, hook, backlogs>>

Fairness ==
    /\ \A w \in Workers : WF_vars(WorkerRuns(w)) /\ SF_vars(WorkerWrites(w))
    /\ \A h \in Hooks : WF_vars(HookRuns(h)) /\ SF_vars(HookWrites(h))
    /\ \A r \in Reapers : WF_vars(ReaperRuns(r)) /\ SF_vars(ReaperWrites(r))
    /\ \A row \in Rows : WF_vars(ClockRuns(row))

FairSpec == Spec /\ Fairness

Processing(d) == docStatus[d] = "processing"

(* An uploaded document is READY or FAILED in the end, whatever steps   *)
(* fail, messages are lost and callbacks never come.                    *)
DocumentSettles == \A d \in Docs : Processing(d) ~> ~Processing(d)

(* The same, unless a process crashed. *)
SettlesUnlessCrash ==
    \A d \in Docs : Processing(d) ~> (~Processing(d) \/ crashes > 0)

(* Even after a crash, a step that was queued is decided in the end, as *)
(* long as its document is processing: redelivery and the reaper get    *)
(* every step in flight out of its status.                              *)
StartedStepsEnd ==
    \A row \in Rows :
        (status[row] \in InFlight \cup {"awaiting_callback"} /\ Processing(row[1]))
            ~> (status[row] \in {"done", "error"} \/ ~Processing(row[1]))

----
(* What the documentation says and the code does not keep. *)

(* dive D: the reaper never causes a second external_call side effect.  *)
NoSecondCall == crashes = 0 => \A d \in Docs : Cardinality(Issued(d)) <= 1

(* dive H: a webhook after the timeout is a no-op, the outcome final.   *)
OutcomeIsFinal ==
    [][\A d \in Docs : status[d, ExternalCall] = "error"
                            => status'[d, ExternalCall] = "error"]_vars

(* dive F: running a computed step a second time does no harm.          *)
RedeliveryHarmless ==
    [][\A row \in Rows : status[row] = "done" /\ row[2] # ExternalCall
                            => status'[row] # "error"]_vars

====
