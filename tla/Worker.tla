--------------------------- MODULE Worker --------------------------
(* The worker processes: the consumer callback of app/worker/main.py    *)
(* and StepHandler.handle of app/pipeline/handlers.py. A worker handles *)
(* one message at a time, in a session of its own whose loaded rows are *)
(* never refreshed.                                                     *)
EXTENDS Transition, Partner

CONSTANTS
    Workers,
    Inputs          \* Inputs[s]: the steps whose results s reads

VARIABLE worker

(* Every handler reads results of predecessors, or of their own         *)
(* predecessors (external_call reads the text of ocr).                  *)
ASSUME WorkerAssumption ==
    \A s \in Steps :
        Inputs[s] \subseteq
            Predecessors[s] \cup UNION {Predecessors[p] : p \in Predecessors[s]}

(* transform_input of the four handlers: the results each one reads. *)
HandlerInputs ==
    [ocr |-> {}, metadata |-> {"ocr"}, chunking |-> {"ocr"},
     external_call |-> {"ocr", "metadata", "chunking"}]

NoRow == <<>>

IdleWorker ==
    [pc |-> "idle", row |-> NoRow, count |-> 0, live |-> FALSE,
     status |-> "pending", attempts |-> 0, inputs |-> FALSE,
     seen |-> "absent", todo |-> {}, job |-> NoJob, verdict |-> "processing"]

WorkerSessions ==
    [pc : {"idle", "check", "mark", "run", "called", "trigger", "recompute",
           "persist", "ack"},
     row : Rows \cup {NoRow}, count : 0..MaxAttempts, live : BOOLEAN,
     status : StepStatuses, attempts : Nat, inputs : BOOLEAN, seen : DocStatuses,
     todo : SUBSET Steps, job : Jobs \cup {NoJob}, verdict : Verdicts]

WorkerTypeOK ==
    /\ worker \in [Workers -> WorkerSessions]
    /\ \A w \in Workers : worker[w].pc # "idle" => worker[w].row \in Rows

WorkerInit == worker = [w \in Workers |-> IdleWorker]

(* Mutants: a step already sent to the partner, or done, is run again. *)
TerminalUnlessSent == {"done", "error"}
TerminalUnlessDone == {"awaiting_callback", "error"}

(* _TERMINAL_FOR_RUN *)
TerminalForRun == {"done", "awaiting_callback", "error"}

DocOf(w) == worker[w].row[1]
StepOf(w) == worker[w].row[2]

At(w, pc) == worker[w].pc = pc
Goto(w, pc) == worker' = [worker EXCEPT ![w].pc = pc]
Finish(w) == worker' = [worker EXCEPT ![w] = IdleWorker]

(* A delivery: the document's rows are loaded, and a step with nothing  *)
(* left to do is acknowledged at once. live says whether the broker     *)
(* still waits for this worker's acknowledgement.                       *)
Deliver(w) ==
    /\ At(w, "idle")
    /\ \E row \in Rows, n \in 0..MaxAttempts :
        /\ Take(row, n)
        /\ IF status[row] \in TerminalForRun
           THEN UNCHANGED worker
           ELSE worker' = [worker EXCEPT ![w] = [IdleWorker EXCEPT
                    !.pc = "check", !.row = row, !.count = n, !.live = TRUE,
                    !.status = status[row], !.attempts = attempts[row],
                    !.inputs = \A s \in Inputs[row[2]] : result[row[1], s]]]
    /\ UNCHANGED <<storeVars, losses, transitionVars, partnerVars>>

(* The document is read once and stays in the session's identity map. *)
CheckDocument(w) ==
    /\ At(w, "check")
    /\ IF docStatus[DocOf(w)] = "failed"
       THEN Finish(w)
       ELSE worker' = [worker EXCEPT ![w] =
                    [@ EXCEPT !.pc = "mark", !.seen = docStatus[DocOf(w)]]]
    /\ UNCHANGED <<storeVars, brokerVars, transitionVars, partnerVars>>

(* A row loaded as RUNNING is not dirty, so nothing is written. *)
MarkRunning(w) ==
    /\ At(w, "mark")
    /\ IF worker[w].status = "running"
       THEN UNCHANGED <<status, stale>>
       ELSE /\ Writable(w, worker[w].row)
            /\ SetStatus(worker[w].row, "running")
    /\ Goto(w, "run")
    /\ UNCHANGED <<attempts, result, jobId, docStatus, locks, brokerVars,
                   transitionVars, partnerVars>>

(* A computed step succeeds: execute and save_output. *)
SaveOutput(w) ==
    /\ At(w, "run") /\ StepOf(w) # ExternalCall
    /\ worker[w].inputs
    /\ Writable(w, worker[w].row)
    /\ SetStatus(worker[w].row, "done")
    /\ result' = [result EXCEPT ![worker[w].row] = TRUE]
    /\ Goto(w, "trigger")
    /\ UNCHANGED <<attempts, jobId, docStatus, locks, brokerVars,
                   transitionVars, partnerVars>>

(* external_call reaches the partner; its id is not saved yet. *)
CallPartner(w) ==
    /\ At(w, "run") /\ StepOf(w) = ExternalCall
    /\ worker[w].inputs
    /\ \E j \in Jobs :
        /\ StartJob(DocOf(w), j)
        /\ worker' = [worker EXCEPT ![w] = [@ EXCEPT !.pc = "called", !.job = j]]
    /\ UNCHANGED <<storeVars, brokerVars, transitionVars, completed>>

(* save_output of external_call: the outcome is left to the webhook. *)
SaveJob(w) ==
    /\ At(w, "called")
    /\ Writable(w, worker[w].row)
    /\ SetStatus(worker[w].row, "awaiting_callback")
    /\ jobId' = [jobId EXCEPT ![DocOf(w)] = worker[w].job]
    /\ Goto(w, "ack")
    /\ UNCHANGED <<attempts, result, docStatus, locks, brokerVars,
                   transitionVars, partnerVars>>

(* A returned message, unless the broker has taken it back already. *)
GiveBack(w) ==
    IF worker[w].live THEN Requeue(worker[w].row, worker[w].count)
                      ELSE UNCHANGED queue

(* Mutant: one attempt too many. *)
ExhaustedLate(n) == n > MaxAttempts

Exhausted(n) == n >= MaxAttempts

(* The step raises, from a missing input or of itself: _on_failure, on  *)
(* the attempts loaded with the row.                                    *)
StepFails(w) ==
    /\ At(w, "run")
    /\ Writable(w, worker[w].row)
    /\ LET n == worker[w].attempts + 1 IN
        /\ attempts' = [attempts EXCEPT ![worker[w].row] = n]
        /\ IF Exhausted(n)
           THEN /\ SetStatus(worker[w].row, "error")
                /\ Goto(w, "recompute")
                /\ UNCHANGED queue
           ELSE /\ SetStatus(worker[w].row, "queued")
                /\ GiveBack(w)
                /\ Finish(w)
    /\ UNCHANGED <<result, jobId, docStatus, locks, losses, transitionVars,
                   partnerVars>>

(* trigger_successors reads which steps are ready. *)
ReadReady(w) ==
    /\ At(w, "trigger")
    /\ worker' = [worker EXCEPT ![w] =
                    [@ EXCEPT !.pc = "recompute", !.todo = Ready(DocOf(w))]]
    /\ UNCHANGED <<storeVars, brokerVars, transitionVars, partnerVars>>

(* Mutant: the loop ends at the first ready step. *)
ClaimFirst(w) ==
    /\ At(w, "recompute")
    /\ \E s \in worker[w].todo :
        /\ ClaimAndPublish(<<DocOf(w), s>>)
        /\ worker' = [worker EXCEPT ![w].todo = {}]
    /\ UNCHANGED <<attempts, result, jobId, docStatus, locks, crashes,
                   disconnects, partnerVars>>

(* One turn of its loop; the order of the steps does not matter. *)
ClaimNext(w) ==
    /\ At(w, "recompute")
    /\ \E s \in worker[w].todo :
        /\ ClaimAndPublish(<<DocOf(w), s>>)
        /\ worker' = [worker EXCEPT ![w].todo = @ \ {s}]
    /\ UNCHANGED <<attempts, result, jobId, docStatus, locks, crashes,
                   disconnects, partnerVars>>

WorkerDerives(w) ==
    /\ At(w, "recompute") /\ worker[w].todo = {}
    /\ worker' = [worker EXCEPT ![w] =
                    [@ EXCEPT !.pc = "persist", !.verdict = Derive(DocOf(w))]]
    /\ UNCHANGED <<storeVars, brokerVars, transitionVars, partnerVars>>

(* The document compared with is the one CheckDocument loaded. *)
WorkerPersists(w) ==
    /\ At(w, "persist")
    /\ Persist(DocOf(w), worker[w].seen, worker[w].verdict)
    /\ Goto(w, "ack")
    /\ UNCHANGED <<status, attempts, result, jobId, stale, locks, brokerVars,
                   transitionVars, partnerVars>>

(* Commit first, acknowledge then. *)
Acknowledge(w) ==
    /\ At(w, "ack")
    /\ Finish(w)
    /\ UNCHANGED <<storeVars, brokerVars, transitionVars, partnerVars>>

(* Mutant: messages are acknowledged on delivery. *)
CrashAfterEarlyAck(w) ==
    /\ ~At(w, "idle")
    /\ Crash
    /\ Finish(w)
    /\ UNCHANGED <<storeVars, brokerVars, partnerVars>>

(* The process dies, or the handler raises and the callback nacks: the  *)
(* session is rolled back and the message returns to its queue.         *)
WorkerCrashes(w) ==
    /\ ~At(w, "idle")
    /\ Crash
    /\ GiveBack(w)
    /\ Finish(w)
    /\ UNCHANGED <<storeVars, losses, partnerVars>>

(* The broker closes the connection of a worker that is busy: the       *)
(* message goes back while the handler runs on.                         *)
LoseConnection(w) ==
    /\ ~At(w, "idle") /\ worker[w].live
    /\ disconnects < MaxDisconnects
    /\ disconnects' = disconnects + 1
    /\ GiveBack(w)
    /\ worker' = [worker EXCEPT ![w].live = FALSE]
    /\ UNCHANGED <<storeVars, losses, claims, crashes, partnerVars>>

WorkerStep(w) ==
    \/ Deliver(w) \/ CheckDocument(w) \/ MarkRunning(w)
    \/ SaveOutput(w) \/ CallPartner(w) \/ SaveJob(w) \/ StepFails(w)
    \/ ReadReady(w) \/ ClaimNext(w) \/ WorkerDerives(w) \/ WorkerPersists(w)
    \/ Acknowledge(w)

====
