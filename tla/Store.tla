--------------------------- MODULE Store ---------------------------
(* The PostgreSQL tables document and pipeline_step (app/models.py) and *)
(* the queries of app/transactions.py. One step of the specification is *)
(* one SQL statement or one commit; statements of several sessions      *)
(* interleave as under READ COMMITTED.                                  *)
EXTENDS Dag, Naturals

CONSTANTS
    Docs,           \* documents
    Jobs,           \* job ids the partner issues
    NoJob           \* NULL in external_job_id

VARIABLES
    status,         \* pipeline_step.status
    attempts,       \* pipeline_step.attempts
    result,         \* pipeline_step.result IS NOT NULL
    jobId,          \* external_job_id of a document's external_call row
    docStatus,      \* document.status, "absent" until the row is inserted
    stale,          \* rows whose updated_at is past the cutoff of their status
    locks           \* <<session, row>>: row locks held by FOR UPDATE

storeVars == <<status, attempts, result, jobId, docStatus, stale, locks>>

ASSUME StoreAssumption == NoJob \notin Jobs

Rows == Docs \X Steps

StepStatuses ==
    {"pending", "queued", "running", "awaiting_callback", "done", "error"}

DocStatuses == {"absent", "processing", "ready", "failed"}

Verdicts == {"processing", "ready", "failed"}

InFlight == {"queued", "running"}

StoreTypeOK ==
    /\ status \in [Rows -> StepStatuses]
    /\ attempts \in [Rows -> Nat]
    /\ result \in [Rows -> BOOLEAN]
    /\ jobId \in [Docs -> Jobs \cup {NoJob}]
    /\ docStatus \in [Docs -> DocStatuses]
    /\ stale \subseteq Rows

StoreInit ==
    /\ status = [row \in Rows |-> "pending"]
    /\ attempts = [row \in Rows |-> 0]
    /\ result = [row \in Rows |-> FALSE]
    /\ jobId = [d \in Docs |-> NoJob]
    /\ docStatus = [d \in Docs |-> "absent"]
    /\ stale = {}
    /\ locks = {}

(* The UPDATE of one row that changes its status. It refreshes          *)
(* updated_at, and its WHERE names the primary key only: whatever       *)
(* status the row has by then is overwritten.                           *)
SetStatus(row, new) ==
    /\ status' = [status EXCEPT ![row] = new]
    /\ stale' = stale \ {row}

(* An UPDATE waits for a row that another session has locked. *)
Writable(session, row) == \A l \in locks : l[2] = row => l[1] = session

Done(d) == {s \in Steps : status[d, s] = "done"}

(* lock_stale_steps: SKIP LOCKED passes over rows other sessions hold. *)
LockableStale(wanted) ==
    {row \in stale : status[row] \in wanted /\ \A l \in locks : l[2] # row}

(* Mutant: the claim forgets that the step may be claimed already. *)
ClaimableUnlessDone(row) == status[row] # "done"

(* The WHERE clause of claim_pending_step. *)
Claimable(row) == status[row] = "pending"

(* Nothing but the clock: the row has not been updated for longer than  *)
(* step_timeout_seconds (callback_sla_seconds while it awaits a         *)
(* callback).                                                           *)
Age(row) ==
    /\ status[row] \in InFlight \cup {"awaiting_callback"}
    /\ row \notin stale
    /\ stale' = stale \cup {row}
    /\ UNCHANGED <<status, attempts, result, jobId, docStatus, locks>>

====
