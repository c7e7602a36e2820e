-------------------------- MODULE Documents ------------------------
(* POST /documents: create_document of app/api/routes_impl/documents.py *)
EXTENDS Transition

InitialStatus(s) == IF s \in EntryNodes THEN "queued" ELSE "pending"

(* The document and all its step rows are inserted in one commit, then  *)
(* the entry steps are published. Publishing may lose messages, or the  *)
(* process may die first, which loses them all.                         *)
Upload(d) ==
    /\ docStatus[d] = "absent"
    /\ docStatus' = [docStatus EXCEPT ![d] = "processing"]
    /\ status' = [row \in Rows |->
          IF row[1] = d THEN InitialStatus(row[2]) ELSE status[row]]
    /\ Publish({d} \X EntryNodes)
    /\ UNCHANGED <<attempts, result, jobId, stale, locks, transitionVars>>

(* get_document_detail returns the extracted data of READY documents:   *)
(* whatever results the step rows hold by then. These are its parts.    *)
ExtractedData(d) ==
    IF docStatus[d] = "ready" THEN {s \in Steps : result[d, s]} ELSE {}

====
