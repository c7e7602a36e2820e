--------------------------- MODULE Webhook -------------------------
(* POST /webhooks/partner: the route of app/api/webhooks.py and         *)
(* apply_partner_result of app/api/routes_impl/webhooks.py. A hook is a *)
(* request being served; it holds the row it loaded.                    *)
EXTENDS Transition, Partner

CONSTANT Hooks      \* requests served at once, one per API process

VARIABLE hook

IdleHook == [pc |-> "idle", docs |-> {}, ok |-> FALSE, verdict |-> "processing"]

HookSessions ==
    [pc : {"idle", "apply", "recompute", "persist"}, docs : SUBSET Docs,
     ok : BOOLEAN, verdict : Verdicts]

HookTypeOK == hook \in [Hooks -> HookSessions]

HookInit == hook = [h \in Hooks |-> IdleHook]

HookAt(h, pc) == hook[h].pc = pc

(* Mutant: the signature is not checked. *)
AnyoneMayReport(signed) == TRUE

(* verify_signature: only the partner can sign. *)
Authentic(signed) == signed

(* The guard against repeats. *)
AlreadyTerminal(row) == status[row] \in {"done", "error"}

(* get_step_by_job_id *)
DocsOfJob(j) == {d \in Docs : jobId[d] = j}

(* A request arrives, from the partner or from anyone. It is verified   *)
(* and recorded, and its job looked up; an unknown job, and a step that *)
(* is already terminal, are answered without further effect.            *)
Receive(h) ==
    /\ HookAt(h, "idle")
    /\ \E j \in Jobs, signed \in BOOLEAN, ok \in BOOLEAN :
        /\ jobDoc[j] # NoDoc
        /\ Authentic(signed)
        /\ completed' = IF signed /\ ok THEN completed \cup {j} ELSE completed
        /\ LET found == {d \in DocsOfJob(j) : ~AlreadyTerminal(<<d, ExternalCall>>)}
           IN  IF found = {}
               THEN UNCHANGED hook
               ELSE hook' = [hook EXCEPT ![h] = [IdleHook EXCEPT
                        !.pc = "apply", !.docs = found, !.ok = ok]]
    /\ UNCHANGED <<storeVars, brokerVars, transitionVars, jobDoc>>

(* Mutant: the payload of a completed job is not stored. *)
ApplyStatusOnly(h) ==
    /\ HookAt(h, "apply")
    /\ \E d \in hook[h].docs :
        /\ Writable(h, <<d, ExternalCall>>)
        /\ SetStatus(<<d, ExternalCall>>, IF hook[h].ok THEN "done" ELSE "error")
    /\ hook' = [hook EXCEPT ![h].pc = "recompute"]
    /\ UNCHANGED <<attempts, result, jobId, docStatus, locks, brokerVars,
                   transitionVars, partnerVars>>

(* The commit of the outcome. The status it was decided on was read     *)
(* earlier and is not checked again.                                    *)
Apply(h) ==
    /\ HookAt(h, "apply")
    /\ \E d \in hook[h].docs :
        /\ Writable(h, <<d, ExternalCall>>)
        /\ SetStatus(<<d, ExternalCall>>, IF hook[h].ok THEN "done" ELSE "error")
        /\ result' = IF hook[h].ok
                     THEN [result EXCEPT ![<<d, ExternalCall>>] = TRUE] ELSE result
    /\ hook' = [hook EXCEPT ![h].pc = "recompute"]
    /\ UNCHANGED <<attempts, jobId, docStatus, locks, brokerVars,
                   transitionVars, partnerVars>>

HookDerives(h) ==
    /\ HookAt(h, "recompute")
    /\ \E d \in hook[h].docs :
        hook' = [hook EXCEPT ![h] =
                    [@ EXCEPT !.pc = "persist", !.verdict = Derive(d)]]
    /\ UNCHANGED <<storeVars, brokerVars, transitionVars, partnerVars>>

(* The document is read just before it is written. *)
HookPersists(h) ==
    /\ HookAt(h, "persist")
    /\ \E d \in hook[h].docs : Persist(d, docStatus[d], hook[h].verdict)
    /\ hook' = [hook EXCEPT ![h] = IdleHook]
    /\ UNCHANGED <<status, attempts, result, jobId, stale, locks, brokerVars,
                   transitionVars, partnerVars>>

HookCrashes(h) ==
    /\ ~HookAt(h, "idle")
    /\ Crash
    /\ hook' = [hook EXCEPT ![h] = IdleHook]
    /\ UNCHANGED <<storeVars, brokerVars, partnerVars>>

HookStep(h) == Apply(h) \/ HookDerives(h) \/ HookPersists(h)

====
