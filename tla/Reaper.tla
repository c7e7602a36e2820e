--------------------------- MODULE Reaper --------------------------
(* The stale-task reaper, app/worker/reaper.py. One iteration is a      *)
(* session: a batch of overdue QUEUED and RUNNING rows, then a batch of *)
(* overdue AWAITING_CALLBACK rows.                                      *)
EXTENDS Transition, Partner

CONSTANT Reapers

VARIABLE reaper

IdleReaper ==
    [pc |-> "idle", part |-> 1, batch |-> {}, failed |-> {}, verdict |-> "processing"]

(* A row as the session loaded it. *)
Loaded(row) ==
    [row |-> row, status |-> status[row], exhausted |-> attempts[row] >= MaxAttempts]

LoadedRows ==
    [row : Rows, status : InFlight \cup {"awaiting_callback"}, exhausted : BOOLEAN]

ReaperSessions ==
    [pc : {"idle", "batch", "recompute", "persist"}, part : {1, 2},
     batch : SUBSET LoadedRows, failed : SUBSET Docs, verdict : Verdicts]

ReaperTypeOK ==
    /\ reaper \in [Reapers -> ReaperSessions]
    /\ locks \subseteq Reapers \X Rows

ReaperInit == reaper = [r \in Reapers |-> IdleReaper]

ReaperAt(r, pc) == reaper[r].pc = pc

LocksOf(r) == {l \in locks : l[1] = r}

(* Lock and load the overdue rows with the wanted statuses; finding     *)
(* none in part 2 ends the iteration.                                   *)
Scan(r, part, wanted) ==
    LET rows == LockableStale(wanted) IN
    /\ locks' = (locks \ LocksOf(r)) \cup ({r} \X rows)
    /\ reaper' = [reaper EXCEPT ![r] =
          IF part = 2 /\ rows = {} THEN IdleReaper ELSE [IdleReaper EXCEPT
            !.pc = "batch", !.part = part, !.batch = {Loaded(row) : row \in rows}]]
    /\ UNCHANGED <<status, attempts, result, jobId, docStatus, stale, brokerVars,
                   transitionVars, partnerVars>>

ScanInFlight(r) ==
    /\ ReaperAt(r, "idle")
    /\ Scan(r, 1, InFlight)

(* Mutant: nobody looks for callbacks that never came. *)
ScanNothing(r) ==
    /\ ReaperAt(r, "batch") /\ reaper[r].part = 1 /\ reaper[r].batch = {}
    /\ Scan(r, 2, {})

(* run_once commits after part 1, which ends its locks. *)
ScanCallbacks(r) ==
    /\ ReaperAt(r, "batch") /\ reaper[r].part = 1 /\ reaper[r].batch = {}
    /\ Scan(r, 2, {"awaiting_callback"})

EndIteration(r) ==
    /\ ReaperAt(r, "batch") /\ reaper[r].part = 2 /\ reaper[r].batch = {}
    /\ reaper' = [reaper EXCEPT ![r] = IdleReaper]
    /\ locks' = locks \ LocksOf(r)
    /\ UNCHANGED <<status, attempts, result, jobId, docStatus, stale, brokerVars,
                   transitionVars, partnerVars>>

(* The rows _fail is called on: any awaiting one, and those of part 1   *)
(* that have no attempts left.                                          *)
MustFail(step) == step.status = "awaiting_callback" \/ step.exhausted

(* _fail up to its commit, which ends every lock the session holds,     *)
(* those of the rest of the batch included.                             *)
Fail(r) ==
    /\ ReaperAt(r, "batch")
    /\ \E step \in reaper[r].batch :
        /\ MustFail(step)
        /\ Writable(r, step.row)
        /\ SetStatus(step.row, "error")
        /\ reaper' = [reaper EXCEPT ![r] =
              [@ EXCEPT !.pc = "recompute", !.failed = {step.row[1]},
                        !.batch = reaper[r].batch \ {step}]]
    /\ locks' = locks \ LocksOf(r)
    /\ UNCHANGED <<attempts, result, jobId, docStatus, brokerVars, transitionVars,
                   partnerVars>>

(* Mutant: RUNNING steps are published again as well. *)
RepublishInFlight(r) ==
    /\ ReaperAt(r, "batch")
    /\ \E step \in reaper[r].batch :
        /\ ~MustFail(step)
        /\ Publish({step.row})
        /\ reaper' = [reaper EXCEPT ![r].batch = @ \ {step}]
    /\ UNCHANGED <<storeVars, transitionVars, partnerVars>>

(* An overdue QUEUED step is published again; the row is not touched,   *)
(* so it stays overdue.                                                 *)
Republish(r) ==
    /\ ReaperAt(r, "batch")
    /\ \E step \in reaper[r].batch :
        /\ ~MustFail(step) /\ step.status = "queued"
        /\ Publish({step.row})
        /\ reaper' = [reaper EXCEPT ![r].batch = @ \ {step}]
    /\ UNCHANGED <<storeVars, transitionVars, partnerVars>>

(* RUNNING: left to the broker's redelivery. *)
LeaveRunning(r) ==
    /\ ReaperAt(r, "batch")
    /\ \E step \in reaper[r].batch :
        /\ ~MustFail(step) /\ step.status = "running"
        /\ reaper' = [reaper EXCEPT ![r].batch = @ \ {step}]
    /\ UNCHANGED <<storeVars, brokerVars, transitionVars, partnerVars>>

ReaperDerives(r) ==
    /\ ReaperAt(r, "recompute")
    /\ \E d \in reaper[r].failed :
        reaper' = [reaper EXCEPT ![r] =
              [@ EXCEPT !.pc = "persist", !.verdict = Derive(d)]]
    /\ UNCHANGED <<storeVars, brokerVars, transitionVars, partnerVars>>

ReaperPersists(r) ==
    /\ ReaperAt(r, "persist")
    /\ \E d \in reaper[r].failed : Persist(d, docStatus[d], reaper[r].verdict)
    /\ reaper' = [reaper EXCEPT ![r] = [@ EXCEPT !.pc = "batch", !.failed = {}]]
    /\ UNCHANGED <<status, attempts, result, jobId, stale, locks, brokerVars,
                   transitionVars, partnerVars>>

(* The process dies, or publish_step raises and main gives up the       *)
(* iteration: the session is closed and its locks end.                  *)
ReaperCrashes(r) ==
    /\ ~ReaperAt(r, "idle")
    /\ Crash
    /\ reaper' = [reaper EXCEPT ![r] = IdleReaper]
    /\ locks' = locks \ LocksOf(r)
    /\ UNCHANGED <<status, attempts, result, jobId, docStatus, stale, brokerVars,
                   partnerVars>>

ReaperStep(r) ==
    \/ ScanCallbacks(r) \/ EndIteration(r) \/ Fail(r) \/ Republish(r)
    \/ LeaveRunning(r) \/ ReaperDerives(r) \/ ReaperPersists(r)

====
