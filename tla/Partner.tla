-------------------------- MODULE Partner --------------------------
(* The partner, outside the repository: external_call reaches it and    *)
(* returns a job id; later it reports a job's outcome to the webhook,   *)
(* at any time, any number of times, or never.                          *)
EXTENDS Store

CONSTANT NoDoc

VARIABLES
    jobDoc,         \* the document each job was started for, or NoDoc
    completed       \* jobs the partner has reported completed

ASSUME PartnerAssumption == NoDoc \notin Docs

partnerVars == <<jobDoc, completed>>

PartnerTypeOK ==
    /\ jobDoc \in [Jobs -> Docs \cup {NoDoc}]
    /\ completed \subseteq Jobs

PartnerInit ==
    /\ jobDoc = [j \in Jobs |-> NoDoc]
    /\ completed = {}

Issued(d) == {j \in Jobs : jobDoc[j] = d}

(* external_call: the partner takes the work and issues a fresh id. *)
StartJob(d, j) ==
    /\ jobDoc[j] = NoDoc
    /\ jobDoc' = [jobDoc EXCEPT ![j] = d]

====
