------------------------- MODULE ReadyProofs -----------------------
(* A document is READY only on the partner's report, for every number   *)
(* of documents, workers, requests and reapers, and every bound on      *)
(* faults.                                                              *)
EXTENDS SafetyProofs

(* The partner has reported completed a job started for d. *)
Verified(d) == Issued(d) \cap completed # {}

(* ... and the report is stored as the result of the external call. *)
Backed(d) == Verified(d) /\ result[<<d, ExternalCall>>]

(* A saved job id was issued for its document, and so was the id a      *)
(* worker has not saved yet.                                            *)
JobsMatch == \A d \in Docs : jobId[d] # NoJob => jobDoc[jobId[d]] = d

CallsMatch ==
    \A w \in Workers :
        At(w, "called") => worker[w].job \in Jobs /\ jobDoc[worker[w].job] = DocOf(w)

DoneBacked == \A d \in Docs : status[<<d, ExternalCall>>] = "done" => Backed(d)

(* What a session is about to write. *)
WorkersBacked ==
    \A w \in Workers :
        At(w, "persist") /\ worker[w].verdict = "ready" => Backed(DocOf(w))

HooksBacked ==
    \A h \in Hooks :
        /\ \A d, e \in hook[h].docs : d = e
        /\ HookAt(h, "apply") /\ hook[h].ok => \A d \in hook[h].docs : Verified(d)
        /\ HookAt(h, "persist") /\ hook[h].verdict = "ready" =>
              \A d \in hook[h].docs : Backed(d)

ReapersBacked ==
    \A r \in Reapers :
        /\ \A d, e \in reaper[r].failed : d = e
        /\ ReaperAt(r, "persist") /\ reaper[r].verdict = "ready" =>
              \A d \in reaper[r].failed : Backed(d)

ReadyBacked == \A d \in Docs : docStatus[d] = "ready" => Backed(d)

ReadyInv ==
    /\ JobsMatch /\ CallsMatch /\ DoneBacked
    /\ WorkersBacked /\ HooksBacked /\ ReapersBacked
    /\ ReadyBacked

(* What the partner knows, and its stored report, are not forgotten. *)
Remembered ==
    /\ \A j \in Jobs : \A d \in Docs : jobDoc[j] = d => jobDoc'[j] = d
    /\ \A d \in Docs : (Verified(d) => Verified(d)') /\ (Backed(d) => Backed(d)')

(* An issued id stays with its document: StartJob takes fresh ids. *)
LEMMA PartnerRemembers ==
    ASSUME TypeOK, StartedInv, [Next]_vars
    PROVE  Remembered
<1>1. completed \subseteq completed'
    BY DEF Next, Upload, Age, WorkerNext, WorkerStep, Deliver, CheckDocument, MarkRunning,
           SaveOutput, CallPartner, SaveJob, StepFails, ReadReady, ClaimNext,
           WorkerDerives, WorkerPersists, Acknowledge, WorkerCrashes, LoseConnection,
           HookNext, HookStep, Receive, Apply, HookDerives, HookPersists, HookCrashes,
           ReaperNext, Wake, ReaperStep, ScanInFlight, ScanCallbacks, Scan, EndIteration,
           Fail, Republish, LeaveRunning, ReaperDerives, ReaperPersists, ReaperCrashes,
           partnerVars, vars
<1>2. UNCHANGED jobDoc \/ \E d \in Docs, j \in Jobs : StartJob(d, j)
    <2>1. \A w \in Workers : CallPartner(w) => DocOf(w) \in Docs
        BY WorkerMoves DEF CallPartner, At
    <2> QED
        BY <2>1
        DEF Next, Upload, Age, WorkerNext, WorkerStep, Deliver, CheckDocument, MarkRunning,
            SaveOutput, CallPartner, SaveJob, StepFails, ReadReady, ClaimNext,
            WorkerDerives, WorkerPersists, Acknowledge, WorkerCrashes, LoseConnection,
            HookNext, HookStep, Receive, Apply, HookDerives, HookPersists, HookCrashes,
            ReaperNext, Wake, ReaperStep, ScanInFlight, ScanCallbacks, Scan, EndIteration,
            Fail, Republish, LeaveRunning, ReaperDerives, ReaperPersists, ReaperCrashes,
            partnerVars, vars
<1>3. \A j \in Jobs : \A d \in Docs : jobDoc[j] = d => jobDoc'[j] = d
    BY <1>2, PartnerAssumption DEF StartJob, TypeOK, PartnerTypeOK
<1>4. \A d \in Docs : Verified(d) => Verified(d)'
    BY <1>1, <1>3 DEF Verified, Issued
<1>5. \A d \in Docs : Backed(d) => Backed(d)'
    BY <1>4, NextKeepsStarted, RowParts DEF Backed, Forward
<1> QED
    BY <1>3, <1>4, <1>5 DEF Remembered

(* A document derives to READY from DONE of its external call only. *)
LEMMA DerivesReady == \A d : Derive(d) = "ready" => status[<<d, ExternalCall>>] = "done"
    BY DEF Derive

(* How a session can come to hold an unsaved job id or a verdict. *)
LEMMA SessionSteps ==
    ASSUME TypeOK, NEW w \in Workers, WorkerNext(w), NEW v \in Workers
    PROVE  \/ worker'[v] = worker[v]
           \/ worker'[v].pc \notin {"called", "persist"}
           \/ v = w /\ (CallPartner(w) \/ WorkerDerives(w) \/ LoseConnection(w))
           \/ v = w /\ ClaimNext(w)
<1> USE DEF TypeOK, WorkerTypeOK, At
<1>1. ASSUME v # w
      PROVE  worker'[v] = worker[v]
    BY <1>1
    DEF WorkerNext, WorkerStep, Deliver, CheckDocument, MarkRunning, SaveOutput,
        CallPartner, SaveJob, StepFails, ReadReady, ClaimNext, WorkerDerives,
        WorkerPersists, Acknowledge, WorkerCrashes, LoseConnection, Finish, Goto
<1> SUFFICES ASSUME v = w
             PROVE  \/ worker'[w] = worker[w]
                    \/ worker'[w].pc \notin {"called", "persist"}
                    \/ CallPartner(w) \/ WorkerDerives(w) \/ LoseConnection(w)
                    \/ ClaimNext(w)
    BY <1>1
<1>2. CASE Deliver(w)
    <2>1. worker'[w] = worker[w] \/ worker'[w].pc = "check"
        BY <1>2 DEF Deliver, IdleWorker
    <2> QED
        BY <2>1
<1>3. CASE ReadReady(w)
    <2>1. worker'[w].pc = "recompute"
        BY <1>3 DEF ReadReady, WorkerSessions
    <2> QED
        BY <2>1
<1>4. CASE CheckDocument(w) /\ ~Finish(w)
    <2>1. worker'[w].pc = "mark"
        BY <1>4 DEF CheckDocument, WorkerSessions
    <2> QED
        BY <2>1
<1>5. CASE Finish(w)
    BY <1>5 DEF Finish, IdleWorker
<1>6. CASE \E pc \in {"run", "trigger", "recompute", "ack"} : Goto(w, pc)
    <2>1. worker'[w].pc \in {"run", "trigger", "recompute", "ack"}
        BY <1>6 DEF Goto, WorkerSessions
    <2> QED
        BY <2>1
<1> QED
    BY <1>2, <1>3, <1>4, <1>5, <1>6
    DEF WorkerNext, WorkerStep, CheckDocument, MarkRunning, SaveOutput, SaveJob, StepFails,
        WorkerPersists, Acknowledge, WorkerCrashes

(* A row becomes DONE by an UPDATE to DONE only. *)
LEMMA UpdateKeepsBacked ==
    ASSUME TypeOK, DoneBacked, Remembered, NEW row, NEW new, SetStatus(row, new),
           new = "done" => \A d \in Docs : row = <<d, ExternalCall>> => Backed(d)'
    PROVE  DoneBacked'
<1> SUFFICES ASSUME NEW d \in Docs, status'[<<d, ExternalCall>>] = "done"
             PROVE  Backed(d)'
    BY DEF DoneBacked
<1>1. <<d, ExternalCall>> \in Rows
    BY DagAssumption DEF Rows
<1>2. CASE <<d, ExternalCall>> = row
    BY <1>1, <1>2 DEF SetStatus, TypeOK, StoreTypeOK
<1>3. CASE <<d, ExternalCall>> # row
    <2>1. status[<<d, ExternalCall>>] = "done"
        BY <1>1, <1>3 DEF SetStatus, TypeOK, StoreTypeOK
    <2> QED
        BY <2>1 DEF DoneBacked, Remembered
<1> QED
    BY <1>2, <1>3

(* A worker's step keeps the invariant. *)
LEMMA WorkerReady ==
    ASSUME TypeOK, ReadyInv, Remembered, NEW w \in Workers, WorkerNext(w),
           UNCHANGED <<hook, reaper>>
    PROVE  ReadyInv'
<1> USE DEF ReadyInv
<1> DEFINE row == worker[w].row
<1>1. ~At(w, "idle") => row \in Rows /\ DocOf(w) \in Docs /\ row = <<DocOf(w), StepOf(w)>>
    BY WorkerMoves
<1>2. JobsMatch'
    <2>1. CASE UNCHANGED jobId
        BY <2>1 DEF JobsMatch, Remembered, TypeOK, StoreTypeOK
    <2>2. CASE SaveJob(w)
        BY <1>1, <2>2
        DEF SaveJob, At, JobsMatch, CallsMatch, Remembered, partnerVars, TypeOK, StoreTypeOK
    <2> QED
        BY <2>1, <2>2
        DEF WorkerNext, WorkerStep, Deliver, CheckDocument, MarkRunning, SaveOutput,
            CallPartner, StepFails, ReadReady, ClaimNext, WorkerDerives, WorkerPersists,
            Acknowledge, WorkerCrashes, LoseConnection, storeVars
<1>3. DoneBacked'
    <2>1. CASE UNCHANGED status
        BY <2>1 DEF DoneBacked, Remembered
    <2>2. CASE \E other, new : SetStatus(other, new) /\ new # "done"
        BY <2>2, UpdateKeepsBacked
    <2>3. CASE SaveOutput(w)
        <3>1. SetStatus(row, "done") /\ ~At(w, "idle") /\ StepOf(w) # ExternalCall
            BY <2>3 DEF SaveOutput, At
        <3>2. \A d \in Docs : row # <<d, ExternalCall>>
            BY <3>1 DEF StepOf
        <3> QED
            BY <3>1, <3>2, UpdateKeepsBacked
    <2>4. CASE ClaimNext(w)
        BY <2>1, <2>2, <2>4 DEF ClaimNext, ClaimAndPublish
    <2>5. CASE MarkRunning(w)
        BY <2>1, <2>2, <2>5 DEF MarkRunning
    <2>6. CASE SaveJob(w) \/ StepFails(w)
        BY <2>2, <2>6 DEF SaveJob, StepFails
    <2> QED
        BY <2>1, <2>2, <2>3, <2>4, <2>5, <2>6
        DEF WorkerNext, WorkerStep, Deliver, CheckDocument, CallPartner, ReadReady,
            WorkerDerives, WorkerPersists, Acknowledge, WorkerCrashes, LoseConnection,
            storeVars
<1>4. LoseConnection(w) \/ ClaimNext(w) =>
        /\ worker'[w].pc = worker[w].pc /\ worker'[w].row = worker[w].row
        /\ worker'[w].job = worker[w].job /\ worker'[w].verdict = worker[w].verdict
    <2>1. CASE LoseConnection(w)
        <3>1. worker'[w] = [worker[w] EXCEPT !.live = FALSE]
            BY <2>1 DEF LoseConnection, TypeOK, WorkerTypeOK
        <3> QED
            BY <3>1 DEF TypeOK, WorkerTypeOK, WorkerSessions
    <2>2. CASE ClaimNext(w)
        <3>1. PICK s \in worker[w].todo :
                    worker'[w] = [worker[w] EXCEPT !.todo = worker[w].todo \ {s}]
            BY <2>2 DEF ClaimNext, TypeOK, WorkerTypeOK
        <3> QED
            BY <3>1 DEF TypeOK, WorkerTypeOK, WorkerSessions
    <2> QED
        BY <2>1, <2>2
<1>9. CallPartner(w) =>
        /\ worker'[w].pc = "called" /\ worker'[w].row = worker[w].row
        /\ \E j \in Jobs : StartJob(DocOf(w), j) /\ worker'[w].job = j
    <2> SUFFICES ASSUME CallPartner(w)
                 PROVE  /\ worker'[w].pc = "called" /\ worker'[w].row = worker[w].row
                        /\ \E j \in Jobs : StartJob(DocOf(w), j) /\ worker'[w].job = j
        OBVIOUS
    <2>1. PICK j \in Jobs :
            /\ StartJob(DocOf(w), j)
            /\ worker'[w] = [worker[w] EXCEPT !.pc = "called", !.job = j]
        BY DEF CallPartner, TypeOK, WorkerTypeOK
    <2> QED
        BY <2>1 DEF TypeOK, WorkerTypeOK, WorkerSessions
<1>10. WorkerDerives(w) =>
        /\ worker'[w].pc = "persist" /\ worker'[w].row = worker[w].row
        /\ worker'[w].verdict = Derive(DocOf(w))
    <2> SUFFICES ASSUME WorkerDerives(w)
                 PROVE  /\ worker'[w].pc = "persist" /\ worker'[w].row = worker[w].row
                        /\ worker'[w].verdict = Derive(DocOf(w))
        OBVIOUS
    <2>1. worker'[w] =
            [worker[w] EXCEPT !.pc = "persist", !.verdict = Derive(DocOf(w))]
        BY DEF WorkerDerives, TypeOK, WorkerTypeOK
    <2> QED
        BY <2>1 DEF TypeOK, WorkerTypeOK, WorkerSessions
<1>5. CallsMatch'
    <2> SUFFICES ASSUME NEW v \in Workers, worker'[v].pc = "called"
                 PROVE  /\ worker'[v].job \in Jobs
                        /\ jobDoc'[worker'[v].job] = DocOf(v)'
        BY DEF CallsMatch, At
    <2>1. CASE /\ worker[v].pc = "called" /\ worker'[v].row = worker[v].row
               /\ worker'[v].job = worker[v].job
        BY <2>1, WorkerMoves DEF CallsMatch, At, DocOf, Remembered
    <2>2. CASE v = w /\ CallPartner(w)
        <3>1. PICK j \in Jobs : StartJob(DocOf(w), j) /\ worker'[w].job = j
            BY <1>9, <2>2
        <3> QED
            BY <1>9, <2>2, <3>1 DEF StartJob, DocOf, TypeOK, PartnerTypeOK
    <2> QED
        BY <1>4, <1>9, <1>10, <2>1, <2>2, SessionSteps
<1>6. WorkersBacked'
    <2> SUFFICES ASSUME NEW v \in Workers, worker'[v].pc = "persist",
                        worker'[v].verdict = "ready"
                 PROVE  Backed(DocOf(v))'
        BY DEF WorkersBacked, At
    <2>1. CASE /\ worker[v].pc = "persist" /\ worker'[v].row = worker[v].row
               /\ worker'[v].verdict = worker[v].verdict
        <3>1. DocOf(v)' = DocOf(v) /\ DocOf(v) \in Docs /\ Backed(DocOf(v))
            BY <2>1, WorkerMoves DEF WorkersBacked, At, DocOf
        <3> QED
            BY <3>1 DEF Remembered, Backed, Verified, Issued
    <2>2. CASE v = w /\ WorkerDerives(w)
        <3>1. DocOf(w)' = DocOf(w) /\ DocOf(w) \in Docs /\ Backed(DocOf(w))
            BY <1>1, <1>10, <2>2, DerivesReady DEF WorkerDerives, At, DocOf, DoneBacked
        <3> QED
            BY <2>2, <3>1 DEF Remembered, Backed, Verified, Issued
    <2> QED
        BY <1>4, <1>9, <1>10, <2>1, <2>2, SessionSteps
<1>7. ReadyBacked'
    <2>1. CASE UNCHANGED docStatus
        BY <2>1 DEF ReadyBacked, Remembered
    <2>2. CASE WorkerPersists(w)
        BY <1>1, <2>2
        DEF WorkerPersists, Persist, At, WorkersBacked, ReadyBacked, Remembered,
            TypeOK, StoreTypeOK
    <2> QED
        BY <2>1, <2>2
        DEF WorkerNext, WorkerStep, Deliver, CheckDocument, MarkRunning, SaveOutput,
            CallPartner, SaveJob, StepFails, ReadReady, ClaimNext, WorkerDerives,
            Acknowledge, WorkerCrashes, LoseConnection, storeVars
<1>8. HooksBacked' /\ ReapersBacked'
    BY DEF HooksBacked, ReapersBacked, HookAt, ReaperAt, Remembered, TypeOK,
           HookTypeOK, HookSessions, ReaperTypeOK, ReaperSessions
<1> QED
    BY <1>2, <1>3, <1>5, <1>6, <1>7, <1>8

(* A request's step keeps the invariant. *)
LEMMA HookReady ==
    ASSUME TypeOK, ReadyInv, Remembered, NEW h \in Hooks, HookNext(h),
           UNCHANGED <<worker, reaper>>
    PROVE  ReadyInv'
<1> USE DEF ReadyInv
<1>1. UNCHANGED jobId
    BY DEF HookNext, HookStep, Receive, Apply, HookDerives, HookPersists, HookCrashes,
           storeVars
<1>2. JobsMatch'
    BY <1>1 DEF JobsMatch, Remembered, TypeOK, StoreTypeOK
<1>3. CallsMatch' /\ WorkersBacked'
    BY WorkerMoves DEF CallsMatch, WorkersBacked, At, DocOf, Remembered,
                          Backed, Verified, Issued
<1>4. ReapersBacked'
    BY DEF ReapersBacked, ReaperAt, Remembered, TypeOK, ReaperTypeOK, ReaperSessions
<1>5. \A g \in Hooks : hook[g].docs \subseteq Docs
    BY DEF TypeOK, HookTypeOK, HookSessions
<1>6. DoneBacked'
    <2>1. CASE UNCHANGED status
        BY <2>1 DEF DoneBacked, Remembered
    <2>2. CASE Apply(h)
        <3>1. PICK d \in hook[h].docs :
                /\ SetStatus(<<d, ExternalCall>>, IF hook[h].ok THEN "done" ELSE "error")
                /\ hook[h].ok => result' = [result EXCEPT ![<<d, ExternalCall>>] = TRUE]
            BY <2>2 DEF Apply
        <3>2. hook[h].ok => Verified(d)' /\ result'[<<d, ExternalCall>>]
            BY <1>5, <2>2, <3>1, RowParts
            DEF Apply, HooksBacked, HookAt, Remembered, TypeOK, StoreTypeOK
        <3> QED
            BY <3>1, <3>2, UpdateKeepsBacked DEF Backed
    <2> QED
        BY <2>1, <2>2
        DEF HookNext, HookStep, Receive, HookDerives, HookPersists, HookCrashes, storeVars
<1>7. ReadyBacked'
    <2>1. CASE UNCHANGED docStatus
        BY <2>1 DEF ReadyBacked, Remembered
    <2>2. CASE HookPersists(h)
        BY <1>5, <2>2
        DEF HookPersists, Persist, HookAt, HooksBacked, ReadyBacked, Remembered,
            TypeOK, StoreTypeOK
    <2> QED
        BY <2>1, <2>2
        DEF HookNext, HookStep, Receive, Apply, HookDerives, HookCrashes, storeVars
<1>8. HooksBacked'
    <2> DEFINE Good(session) ==
            /\ \A d, e \in session.docs : d = e
            /\ session.pc = "apply" /\ session.ok => \A d \in session.docs : Verified(d)'
            /\ session.pc = "persist" /\ session.verdict = "ready" =>
                  \A d \in session.docs : Backed(d)'
    <2>1. \A g \in Hooks : hook'[g] = hook[g] => Good(hook'[g])
        BY <1>5 DEF HooksBacked, HookAt, Remembered
    <2>2. \A g \in Hooks : g # h => hook'[g] = hook[g]
        BY DEF HookNext, HookStep, Receive, Apply, HookDerives, HookPersists, HookCrashes,
               TypeOK, HookTypeOK
    <2> SUFFICES Good(hook'[h])
        BY <2>1, <2>2 DEF HooksBacked, HookAt, Backed, Verified, Issued
    <2>3. CASE hook'[h] = IdleHook
        BY <2>3 DEF IdleHook
    <2>4. CASE Receive(h)
        <3>1. PICK j \in Jobs, signed \in BOOLEAN, ok \in BOOLEAN :
                /\ Authentic(signed)
                /\ completed' = IF signed /\ ok THEN completed \cup {j} ELSE completed
                /\ LET found == {d \in DocsOfJob(j) : ~AlreadyTerminal(<<d, ExternalCall>>)}
                   IN  IF found = {}
                       THEN UNCHANGED hook
                       ELSE hook' = [hook EXCEPT ![h] = [IdleHook EXCEPT
                                !.pc = "apply", !.docs = found, !.ok = ok]]
            BY <2>4 DEF Receive
        <3> DEFINE found == {d \in DocsOfJob(j) : ~AlreadyTerminal(<<d, ExternalCall>>)}
        <3>2. \A d \in found : d \in Docs /\ jobDoc'[j] = d
            BY StoreAssumption DEF DocsOfJob, JobsMatch, Remembered
        <3>3. ok => j \in completed'
            BY <3>1 DEF Authentic
        <3>4. CASE hook'[h] = [IdleHook EXCEPT !.pc = "apply", !.docs = found, !.ok = ok]
            <4>1. /\ hook'[h].docs = found /\ hook'[h].ok = ok
                  /\ hook'[h].pc = "apply"
                BY <3>4 DEF IdleHook
            <4>2. \A d \in found : ok => Verified(d)'
                BY <3>2, <3>3 DEF Verified, Issued
            <4> QED
                BY <3>2, <4>1, <4>2
        <3> QED
            BY <2>1, <3>1, <3>4 DEF TypeOK, HookTypeOK
    <2>5. CASE Apply(h)
        <3>1. hook'[h] = [hook[h] EXCEPT !.pc = "recompute"]
            BY <2>5 DEF Apply, TypeOK, HookTypeOK
        <3>2. hook'[h].pc = "recompute" /\ hook'[h].docs = hook[h].docs
            BY <3>1 DEF TypeOK, HookTypeOK, HookSessions
        <3> QED
            BY <3>2 DEF HooksBacked
    <2>6. CASE HookDerives(h)
        <3>1. PICK d \in hook[h].docs :
                hook'[h] = [hook[h] EXCEPT !.pc = "persist", !.verdict = Derive(d)]
            BY <2>6 DEF HookDerives, TypeOK, HookTypeOK
        <3>2. /\ hook'[h].pc = "persist" /\ hook'[h].docs = hook[h].docs
              /\ hook'[h].verdict = Derive(d)
            BY <3>1 DEF TypeOK, HookTypeOK, HookSessions
        <3>3. \A e \in hook[h].docs : e = d
            BY DEF HooksBacked
        <3>4. Derive(d) = "ready" => Backed(d)'
            BY <1>5, DerivesReady DEF DoneBacked, Remembered
        <3> QED
            BY <3>2, <3>3, <3>4
    <2>7. CASE HookPersists(h) \/ HookCrashes(h)
        BY <2>3, <2>7 DEF HookPersists, HookCrashes, TypeOK, HookTypeOK
    <2> QED
        BY <2>4, <2>5, <2>6, <2>7 DEF HookNext, HookStep
<1> QED
    BY <1>2, <1>3, <1>4, <1>6, <1>7, <1>8

(* A reaper's step keeps the invariant. *)
LEMMA ReaperReady ==
    ASSUME TypeOK, ReadyInv, Remembered, NEW r \in Reapers, ReaperNext(r),
           UNCHANGED <<worker, hook>>
    PROVE  ReadyInv'
<1> USE DEF ReadyInv
<1>1. UNCHANGED jobId
    BY DEF ReaperNext, Wake, ReaperStep, ScanInFlight, ScanCallbacks, Scan, EndIteration,
           Fail, Republish, LeaveRunning, ReaperDerives, ReaperPersists, ReaperCrashes,
           storeVars
<1>2. JobsMatch'
    BY <1>1 DEF JobsMatch, Remembered, TypeOK, StoreTypeOK
<1>3. CallsMatch' /\ WorkersBacked'
    BY WorkerMoves DEF CallsMatch, WorkersBacked, At, DocOf, Remembered,
                          Backed, Verified, Issued
<1>4. HooksBacked'
    BY DEF HooksBacked, HookAt, Remembered, TypeOK, HookTypeOK, HookSessions
<1>5. \A q \in Reapers : reaper[q].failed \subseteq Docs
    BY DEF TypeOK, ReaperTypeOK, ReaperSessions
<1>6. DoneBacked'
    <2>1. CASE UNCHANGED status
        BY <2>1 DEF DoneBacked, Remembered
    <2>2. CASE Fail(r)
        BY <2>2, UpdateKeepsBacked DEF Fail
    <2> QED
        BY <2>1, <2>2
        DEF ReaperNext, Wake, ReaperStep, ScanInFlight, ScanCallbacks, Scan, EndIteration,
            Republish, LeaveRunning, ReaperDerives, ReaperPersists, ReaperCrashes, storeVars
<1>7. ReadyBacked'
    <2>1. CASE UNCHANGED docStatus
        BY <2>1 DEF ReadyBacked, Remembered
    <2>2. CASE ReaperPersists(r)
        BY <1>5, <2>2
        DEF ReaperPersists, Persist, ReaperAt, ReapersBacked, ReadyBacked, Remembered,
            TypeOK, StoreTypeOK
    <2> QED
        BY <2>1, <2>2
        DEF ReaperNext, Wake, ReaperStep, ScanInFlight, ScanCallbacks, Scan, EndIteration,
            Fail, Republish, LeaveRunning, ReaperDerives, ReaperCrashes, storeVars
<1>8. ReapersBacked'
    <2> DEFINE Good(session) ==
            /\ \A d, e \in session.failed : d = e
            /\ session.pc = "persist" /\ session.verdict = "ready" =>
                  \A d \in session.failed : Backed(d)'
    <2>1. \A q \in Reapers : reaper'[q] = reaper[q] => Good(reaper'[q])
        BY <1>5 DEF ReapersBacked, ReaperAt, Remembered
    <2>2. \A q \in Reapers : q # r => reaper'[q] = reaper[q]
        BY DEF ReaperNext, Wake, ReaperStep, ScanInFlight, ScanCallbacks, Scan, EndIteration,
               Fail, Republish, LeaveRunning, ReaperDerives, ReaperPersists, ReaperCrashes,
               TypeOK, ReaperTypeOK
    <2> SUFFICES Good(reaper'[r])
        BY <2>1, <2>2 DEF ReapersBacked, ReaperAt, Backed, Verified, Issued
    <2>3. CASE reaper'[r].failed = {}
        BY <2>3
    <2>4. ASSUME NEW part, NEW wanted, Scan(r, part, wanted)
          PROVE  reaper'[r].failed = {}
        BY <2>4 DEF Scan, IdleReaper, TypeOK, ReaperTypeOK
    <2>5. CASE EndIteration(r) \/ ReaperCrashes(r)
        BY <2>3, <2>5 DEF EndIteration, ReaperCrashes, IdleReaper, TypeOK, ReaperTypeOK
    <2>6. CASE Republish(r) \/ LeaveRunning(r)
        <3>1. PICK step \in reaper[r].batch :
                reaper'[r] = [reaper[r] EXCEPT !.batch = reaper[r].batch \ {step}]
            BY <2>6 DEF Republish, LeaveRunning, TypeOK, ReaperTypeOK
        <3>2. reaper'[r].pc = reaper[r].pc /\ reaper'[r].failed = reaper[r].failed
            BY <3>1 DEF TypeOK, ReaperTypeOK, ReaperSessions
        <3>3. reaper'[r].pc # "persist"
            BY <2>6, <3>2 DEF Republish, LeaveRunning, ReaperAt
        <3> QED
            BY <3>2, <3>3 DEF ReapersBacked
    <2>7. CASE Fail(r)
        <3>1. PICK step \in reaper[r].batch :
                reaper'[r] = [reaper[r] EXCEPT !.pc = "recompute",
                                !.failed = {step.row[1]},
                                !.batch = reaper[r].batch \ {step}]
            BY <2>7 DEF Fail, TypeOK, ReaperTypeOK
        <3>2. reaper'[r].pc = "recompute" /\ reaper'[r].failed = {step.row[1]}
            BY <3>1 DEF TypeOK, ReaperTypeOK, ReaperSessions
        <3> QED
            BY <3>2
    <2>8. CASE ReaperDerives(r)
        <3>1. PICK d \in reaper[r].failed :
                reaper'[r] = [reaper[r] EXCEPT !.pc = "persist", !.verdict = Derive(d)]
            BY <2>8 DEF ReaperDerives, TypeOK, ReaperTypeOK
        <3>2. /\ reaper'[r].pc = "persist" /\ reaper'[r].failed = reaper[r].failed
              /\ reaper'[r].verdict = Derive(d)
            BY <3>1 DEF TypeOK, ReaperTypeOK, ReaperSessions
        <3>3. \A e \in reaper[r].failed : e = d
            BY DEF ReapersBacked
        <3>4. Derive(d) = "ready" => Backed(d)'
            BY <1>5, DerivesReady DEF DoneBacked, Remembered
        <3> QED
            BY <3>2, <3>3, <3>4
    <2>9. CASE ReaperPersists(r)
        <3>1. reaper'[r] = [reaper[r] EXCEPT !.pc = "batch", !.failed = {}]
            BY <2>9 DEF ReaperPersists, TypeOK, ReaperTypeOK
        <3> QED
            BY <2>3, <3>1 DEF TypeOK, ReaperTypeOK, ReaperSessions
    <2> QED
        BY <2>3, <2>4, <2>5, <2>6, <2>7, <2>8, <2>9
        DEF ReaperNext, Wake, ReaperStep, ScanInFlight, ScanCallbacks
<1> QED
    BY <1>2, <1>3, <1>4, <1>6, <1>7, <1>8

(* A step no process of the pipeline takes keeps the invariant. *)
LEMMA OtherReady ==
    ASSUME TypeOK, ReadyInv, Remembered, UNCHANGED <<worker, hook, reaper>>,
           \/ \E d \in Docs : Upload(d)
           \/ \E row \in Rows : Age(row)
           \/ UNCHANGED storeVars
    PROVE  ReadyInv'
<1> USE DEF ReadyInv
<1>1. UNCHANGED jobId
    BY DEF Upload, Age, storeVars
<1>2. JobsMatch'
    BY <1>1 DEF JobsMatch, Remembered, TypeOK, StoreTypeOK
<1>3. CallsMatch' /\ WorkersBacked'
    BY WorkerMoves DEF CallsMatch, WorkersBacked, At, DocOf, Remembered,
                          Backed, Verified, Issued
<1>4. HooksBacked' /\ ReapersBacked'
    BY DEF HooksBacked, ReapersBacked, HookAt, ReaperAt, Remembered, TypeOK,
           HookTypeOK, HookSessions, ReaperTypeOK, ReaperSessions
<1>5. DoneBacked'
    <2>1. CASE UNCHANGED status
        BY <2>1 DEF DoneBacked, Remembered
    <2>2. ASSUME NEW d \in Docs, Upload(d), NEW e \in Docs
          PROVE  status'[<<e, ExternalCall>>] = "done" =>
                    status[<<e, ExternalCall>>] = "done"
        <3>1. <<e, ExternalCall>> \in Rows
            BY DagAssumption DEF Rows
        <3> QED
            BY <2>2, <3>1 DEF Upload, InitialStatus
    <2> QED
        BY <2>1, <2>2 DEF Age, storeVars, DoneBacked, Remembered
<1>6. ReadyBacked'
    <2>1. \A d \in Docs : docStatus'[d] = "ready" => docStatus[d] = "ready"
        BY DEF Upload, Age, storeVars, TypeOK, StoreTypeOK
    <2> QED
        BY <2>1 DEF ReadyBacked, Remembered
<1> QED
    BY <1>2, <1>3, <1>4, <1>5, <1>6

(* Nothing is called, reported or verified to begin with. *)
LEMMA InitReady == Init => ReadyInv
<1> SUFFICES ASSUME Init
             PROVE  ReadyInv
    OBVIOUS
<1>1. JobsMatch /\ ReadyBacked
    BY DEF Init, StoreInit, JobsMatch, ReadyBacked
<1>2. DoneBacked
    BY DagAssumption DEF Init, StoreInit, DoneBacked, Rows
<1>3. CallsMatch /\ WorkersBacked
    BY DEF Init, WorkerInit, IdleWorker, CallsMatch, WorkersBacked, At
<1>4. HooksBacked /\ ReapersBacked
    BY DEF Init, HookInit, IdleHook, ReaperInit, IdleReaper, HooksBacked,
           ReapersBacked, HookAt, ReaperAt
<1> QED
    BY <1>1, <1>2, <1>3, <1>4 DEF ReadyInv

(* Every step of the pipeline keeps the invariant. *)
LEMMA NextKeepsReady ==
    ASSUME TypeOK, StartedInv, ReadyInv, [Next]_vars
    PROVE  ReadyInv'
<1>1. Remembered
    BY PartnerRemembers
<1>2. ASSUME NEW w \in Workers, WorkerNext(w), UNCHANGED <<hook, reaper, backlogs>>
      PROVE  ReadyInv'
    BY <1>1, <1>2, WorkerReady
<1>3. ASSUME NEW h \in Hooks, HookNext(h), UNCHANGED <<worker, reaper, backlogs>>
      PROVE  ReadyInv'
    BY <1>1, <1>3, HookReady
<1>4. ASSUME NEW r \in Reapers, ReaperNext(r), UNCHANGED <<worker, hook>>
      PROVE  ReadyInv'
    BY <1>1, <1>4, ReaperReady
<1>5. CASE \/ (\E d \in Docs : Upload(d)) /\ UNCHANGED <<worker, hook, reaper>>
           \/ (\E row \in Rows : Age(row)) /\ UNCHANGED <<worker, hook, reaper>>
           \/ UNCHANGED vars
    <2>1. UNCHANGED <<worker, hook, reaper>>
        BY <1>5 DEF vars
    <2>2. UNCHANGED vars => UNCHANGED storeVars
        BY DEF vars
    <2> QED
        BY <1>1, <1>5, <2>1, <2>2, OtherReady
<1> QED
    BY <1>2, <1>3, <1>4, <1>5 DEF Next

(* The invariant of the ready gate holds from the start. *)
LEMMA ReadyAlways == Spec => [](StartedInv /\ ReadyInv)
<1>1. TypeOK /\ StartedInv /\ ReadyInv /\ [Next]_vars => StartedInv' /\ ReadyInv'
    BY NextKeepsStarted, NextKeepsReady
<1> QED
    BY <1>1, InitStarted, InitReady, TypeCorrect, PTL DEF Spec

(* The ready gate, for every constant: whatever is lost, repeated,      *)
(* crashed or late, a document the API shows as READY is one whose      *)
(* partner job was reported completed under the partner's signature.    *)
THEOREM ReadyOnReport == Spec => []ReadyIsVerified
<1>1. ReadyInv => ReadyIsVerified
    BY DEF ReadyInv, ReadyBacked, Backed, Verified, ReadyIsVerified
<1> QED
    BY <1>1, ReadyAlways, PTL

(* The document that is shown READY has all its extracted data, for     *)
(* every graph and every interleaving: results are never taken back,    *)
(* and by the order of the graph the results the call was made from     *)
(* were stored before it started.                                       *)
THEOREM ReadyWithData == Spec => []ReadyIsComplete
<1>1. StartedInv /\ OrderInv /\ ReadyInv => ReadyIsComplete
    <2> SUFFICES ASSUME StartedInv, OrderInv, ReadyInv,
                        NEW d \in Docs, docStatus[d] = "ready",
                        NEW s \in Inputs[ExternalCall] \cup {ExternalCall}
                 PROVE  s \in ExtractedData(d)
        BY DEF ReadyIsComplete
    <2>1. s \in Steps
        BY DagAssumption, WorkerAssumption
    <2>2. result[<<d, ExternalCall>>]
        BY DEF ReadyInv, ReadyBacked, Backed
    <2>3. CASE s # ExternalCall
        <3>1. Started(<<d, ExternalCall>>)
            BY <2>2, RowParts DEF StartedInv, RowsStarted
        <3>2. result[<<d, s>>]
            BY <2>1, <2>3, <3>1, ResultsOfInputs, DagAssumption
        <3> QED
            BY <2>1, <3>2 DEF ExtractedData
    <2> QED
        BY <2>1, <2>2, <2>3 DEF ExtractedData
<1> QED
    BY <1>1, ReadyAlways, OrderAlways, PTL

====
