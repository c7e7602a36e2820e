------------------------- MODULE Transition ------------------------
(* Transitioner (app/pipeline/transition.py): the code every actor runs *)
(* after it changed a step. Each operation opens with a query and ends  *)
(* with a commit, and other sessions commit in between.                 *)
EXTENDS Broker

CONSTANTS
    MaxCrashes,     \* bound: processes that die or raise before they finish
    MaxDisconnects  \* bound: connections closed under a busy worker

VARIABLES
    claims,         \* claims[row]: how often claim_step won the row
    crashes,        \* crashes so far
    disconnects     \* closed connections so far

transitionVars == <<claims, crashes, disconnects>>

ASSUME TransitionAssumption == MaxCrashes \in Nat /\ MaxDisconnects \in Nat

TransitionTypeOK ==
    /\ claims \in [Rows -> Nat]
    /\ crashes \in 0..MaxCrashes
    /\ disconnects \in 0..MaxDisconnects

TransitionInit ==
    /\ claims = [row \in Rows |-> 0]
    /\ crashes = 0
    /\ disconnects = 0

(* Mutant: the status of the step is taken for the document's. *)
DeriveStepStatus(d) ==
    IF \E s \in Steps : status[d, s] = "error" THEN "error"
    ELSE IF status[d, ExternalCall] = "done" THEN "ready"
    ELSE "processing"

(* derive_document_status on the statuses d's rows have now. *)
Derive(d) ==
    IF \E s \in Steps : status[d, s] = "error" THEN "failed"
    ELSE IF status[d, ExternalCall] = "done" THEN "ready"
    ELSE "processing"

(* The steps trigger_successors will try to claim. *)
Ready(d) == ReadySuccessors(Done(d))

(* claim_step, then publish_step if the claim was won. *)
ClaimAndPublish(row) ==
    \/ /\ Claimable(row)
       /\ SetStatus(row, "queued")
       /\ claims' = [claims EXCEPT ![row] = @ + 1]
       /\ Publish({row})
    \/ /\ ~Claimable(row)
       /\ UNCHANGED <<status, stale, claims, queue, losses>>

(* Mutant: the row is written whatever was seen. *)
PersistAlways(d, seen, verdict) == docStatus' = [docStatus EXCEPT ![d] = verdict]

(* The end of recompute_document_status: session.get returned a         *)
(* document whose status was seen; the row is written if it differs.    *)
Persist(d, seen, verdict) ==
    docStatus' = [docStatus EXCEPT ![d] = IF verdict # seen THEN verdict ELSE @]

(* A process dies, or its code raises, between two commits. *)
Crash ==
    /\ crashes < MaxCrashes
    /\ crashes' = crashes + 1
    /\ UNCHANGED <<claims, disconnects>>

====
