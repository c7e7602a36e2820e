------------------------ MODULE DeliveryProofs ----------------------
(* What holds as long as no message is handled or queued twice at a     *)
(* time (NoOverlap), for every graph, every number of documents,        *)
(* workers, requests and reapers, and every bound on crashes and lost   *)
(* messages.                                                            *)
EXTENDS ReadyProofs, FiniteSetTheorems

(* A delivery of a row is the copy of its message, or a worker. *)
NoRowWhenIdle == \A w \in Workers : At(w, "idle") => worker[w].row = NoRow

OneCopy ==
    \A row \in Rows : \A m, n \in 0..MaxAttempts :
        queue[row][m] > 0 /\ queue[row][n] > 0 => m = n /\ queue[row][n] = 1

OneHolder ==
    \A v, w \in Workers :
        ~At(v, "idle") /\ ~At(w, "idle") /\ worker[v].row = worker[w].row => v = w

HeldNotQueued ==
    \A w \in Workers : ~At(w, "idle") => worker[w].live /\ ~Queued(worker[w].row)

SingleInv == NoRowWhenIdle /\ OneCopy /\ OneHolder /\ HeldNotQueued

(* Nobody has a delivery of row. *)
Free(row) == ~Queued(row) /\ \A w \in Workers : worker[w].row # row

(* Only the rows in rows get new copies, each at most one, returned n   *)
(* times.                                                               *)
Refills(rows, n) ==
    \A row \in Rows :
        /\ row \notin rows => queue'[row] = queue[row]
        /\ row \in rows =>
              \A m \in 0..MaxAttempts : queue'[row][m] > 0 => m = n /\ queue'[row][m] = 1

(* A queue counts its copies, and is empty when every count is zero. *)
LEMMA QueueCounts ==
    ASSUME TypeOK, NEW row \in Rows
    PROVE  /\ queue[row] \in [0..MaxAttempts -> Nat] /\ 0 \in 0..MaxAttempts
           /\ \A m \in 0..MaxAttempts : queue[row][m] \in Nat
           /\ ~Queued(row) => \A m \in 0..MaxAttempts : queue[row][m] = 0
<1>1. queue[row] \in [0..MaxAttempts -> Nat] /\ 0 \in 0..MaxAttempts
    BY BrokerAssumption DEF TypeOK, BrokerTypeOK
<1>2. \A m \in 0..MaxAttempts : queue[row][m] \in Nat
    BY <1>1
<1> QED
    BY <1>1, <1>2 DEF Queued

(* A queue that was empty has one copy at most after a publish,         *)
(* whatever is lost,                                                    *)
LEMMA PublishRefills ==
    ASSUME TypeOK, NEW rows \in SUBSET Rows, Publish(rows), \A row \in rows : ~Queued(row)
    PROVE  Refills(rows, 0)
<1>1. PICK lost \in SUBSET rows :
        queue' = [row \in Rows |->
              IF row \in rows \ lost THEN [queue[row] EXCEPT ![0] = @ + 1]
                                     ELSE queue[row]]
    BY DEF Publish
<1>2. ASSUME NEW row \in Rows, row \notin rows
      PROVE  queue'[row] = queue[row]
    BY <1>1, <1>2
<1>3. ASSUME NEW row \in rows, NEW m \in 0..MaxAttempts, queue'[row][m] > 0
      PROVE  m = 0 /\ queue'[row][m] = 1
    <2>1. /\ queue[row] \in [0..MaxAttempts -> Nat] /\ 0 \in 0..MaxAttempts
          /\ queue[row][m] = 0 /\ queue[row][0] = 0
        BY QueueCounts
    <2>2. queue'[row] = [queue[row] EXCEPT ![0] = @ + 1] \/ queue'[row] = queue[row]
        BY <1>1
    <2> QED
        BY ONLY <1>3, <2>1, <2>2, BrokerAssumption
<1> QED
    BY ONLY <1>2, <1>3 DEF Refills

(* and so after a copy comes back.                                      *)
LEMMA RequeueRefills ==
    ASSUME TypeOK, NEW row \in Rows, NEW n \in 0..MaxAttempts, Requeue(row, n), ~Queued(row)
    PROVE  Refills({row}, n + 1)
<1>1. /\ \A m \in 0..MaxAttempts : queue[row][m] = 0
      /\ queue[row] \in [0..MaxAttempts -> Nat]
    BY QueueCounts
<1>2. CASE n < MaxAttempts
    <2>1. queue' = [queue EXCEPT ![row] = [queue[row] EXCEPT ![n + 1] = @ + 1]]
        BY <1>2 DEF Requeue
    <2>2. queue'[row] = [queue[row] EXCEPT ![n + 1] = @ + 1]
        BY <2>1 DEF TypeOK, BrokerTypeOK
    <2>3. \A m \in 0..MaxAttempts :
            queue'[row][m] > 0 => m = n + 1 /\ queue'[row][m] = 1
        BY ONLY <1>1, <1>2, <2>2, BrokerAssumption
    <2> QED
        BY <2>1, <2>3 DEF Refills, TypeOK, BrokerTypeOK
<1>3. CASE ~(n < MaxAttempts)
    BY <1>1, <1>3 DEF Requeue, Refills
<1> QED
    BY <1>2, <1>3

(* A queue stays at one copy. *)
LEMMA RefillKeepsOne ==
    ASSUME OneCopy, NEW rows, NEW n, Refills(rows, n)
    PROVE  OneCopy' /\ \A row \in Rows \ rows : Queued(row)' <=> Queued(row)
    BY DEF OneCopy, Refills, Queued

(* The copy that is taken was the only one. *)
LEMMA TakesTheOne ==
    ASSUME TypeOK, OneCopy, NEW row \in Rows, NEW n \in 0..MaxAttempts, Take(row, n)
    PROVE  /\ Queued(row) /\ ~Queued(row)' /\ OneCopy'
           /\ \A other \in Rows : other # row => queue'[other] = queue[other]
<1>0. /\ queue[row] \in [0..MaxAttempts -> Nat]
      /\ \A m \in 0..MaxAttempts : queue[row][m] \in Nat
    BY QueueCounts
<1>1. /\ queue[row][n] = 1
      /\ \A m \in 0..MaxAttempts : m # n => queue[row][m] = 0
    BY <1>0 DEF Take, OneCopy
<1>2. queue' = [queue EXCEPT ![row] = [queue[row] EXCEPT ![n] = @ - 1]]
    BY DEF Take
<1>3. /\ queue'[row] = [queue[row] EXCEPT ![n] = @ - 1]
      /\ \A other \in Rows : other # row => queue'[other] = queue[other]
    BY <1>2 DEF TypeOK, BrokerTypeOK
<1>4. \A m \in 0..MaxAttempts : queue'[row][m] = 0
    <2> SUFFICES ASSUME NEW m \in 0..MaxAttempts PROVE queue'[row][m] = 0
        OBVIOUS
    <2>1. queue'[row][m] = IF m = n THEN queue[row][m] - 1 ELSE queue[row][m]
        BY <1>0, <1>3
    <2>2. IF m = n THEN queue[row][m] = 1 ELSE queue[row][m] = 0
        BY <1>1
    <2> QED
        BY ONLY <2>1, <2>2
<1>5. OneCopy'
    <2> SUFFICES ASSUME NEW other \in Rows, NEW m \in 0..MaxAttempts,
                        NEW k \in 0..MaxAttempts,
                        queue'[other][m] > 0, queue'[other][k] > 0
                 PROVE  m = k /\ queue'[other][k] = 1
        BY DEF OneCopy
    <2>1. other # row
        BY ONLY <1>4, queue'[other][m] > 0, m \in 0..MaxAttempts
    <2> QED
        BY <1>3, <2>1 DEF OneCopy
<1>6. Queued(row) /\ ~Queued(row)'
    BY <1>4 DEF Take, Queued
<1> QED
    BY <1>3, <1>5, <1>6

(* What a worker's step does to the delivery in its hands. *)
Stays(w) == KeepsMessage(w) /\ ~At(w, "idle")'

LEMMA WorkerHandles ==
    ASSUME TypeOK, NEW w \in Workers, WorkerNext(w), NoOverlap'
    PROVE  \/ Deliver(w)
           \/ /\ ~At(w, "idle")
              /\ \/ Stays(w) /\ UNCHANGED queue
                 \/ Finish(w) /\ UNCHANGED queue
                 \/ Finish(w) /\ GiveBack(w)
                 \/ Stays(w) /\ ClaimNext(w)
<1> USE DEF At, Stays
<1>1. CASE CheckDocument(w)
    BY <1>1, Checks DEF CheckDocument, brokerVars
<1>2. CASE MarkRunning(w) \/ SaveOutput(w) \/ SaveJob(w) \/ WorkerPersists(w)
    BY <1>2, Moves DEF MarkRunning, SaveOutput, SaveJob, WorkerPersists, brokerVars
<1>3. CASE StepFails(w)
    BY <1>3, Moves DEF StepFails
<1>4. CASE CallPartner(w)
    BY <1>4, Calls DEF CallPartner, brokerVars
<1>5. CASE ReadReady(w) \/ ClaimNext(w)
    BY <1>5, Triggers DEF ReadReady, ClaimNext, brokerVars
<1>6. CASE WorkerDerives(w)
    BY <1>6, Derives DEF WorkerDerives, brokerVars
<1>7. CASE Acknowledge(w) \/ WorkerCrashes(w)
    BY <1>7 DEF Acknowledge, WorkerCrashes, brokerVars
<1>8. ~LoseConnection(w)
    BY DEF LoseConnection, NoOverlap, TypeOK, TransitionTypeOK
<1> QED
    BY <1>1, <1>2, <1>3, <1>4, <1>5, <1>6, <1>7, <1>8 DEF WorkerNext, WorkerStep

(* Rows nobody has started have no delivery. *)
LEMMA UnstartedFree ==
    ASSUME TypeOK, StartedInv, SingleInv, NEW row \in Rows, ~Started(row)
    PROVE  Free(row)
<1>1. ~Queued(row)
    BY DEF StartedInv, RowsStarted
<1>2. \A w \in Workers : worker[w].row # row
    BY NoRowIsNoRow DEF StartedInv, WorkersStarted, SingleInv, NoRowWhenIdle
<1> QED
    BY <1>1, <1>2 DEF Free

(* Publishing for rows without a delivery keeps deliveries single. *)
LEMMA PublishKeepsSingle ==
    ASSUME TypeOK, SingleInv, NEW rows \in SUBSET Rows, Publish(rows),
           \A row \in rows : Free(row),
           \A w \in Workers : /\ worker'[w].row = worker[w].row
                              /\ worker'[w].live = worker[w].live
                              /\ At(w, "idle")' <=> At(w, "idle")
    PROVE  SingleInv'
<1>1. Refills(rows, 0)
    BY PublishRefills DEF Free
<1>2. OneCopy' /\ \A row \in Rows \ rows : Queued(row)' <=> Queued(row)
    BY <1>1, RefillKeepsOne DEF SingleInv
<1>3. NoRowWhenIdle' /\ OneHolder'
    BY DEF SingleInv, NoRowWhenIdle, OneHolder
<1>4. HeldNotQueued'
    <2> SUFFICES ASSUME NEW w \in Workers, ~At(w, "idle")
                 PROVE  worker'[w].live /\ ~Queued(worker[w].row)'
        BY DEF HeldNotQueued, Queued
    <2>1. worker[w].row \in Rows \ rows
        BY WorkerMoves DEF Free
    <2> QED
        BY <1>2, <2>1 DEF SingleInv, HeldNotQueued
<1> QED
    BY <1>2, <1>3, <1>4 DEF SingleInv

(* A message is with one worker, or queued once, and a claim publishes  *)
(* the first one.                                                       *)
LEMMA WorkerKeepsSingle ==
    ASSUME TypeOK, StartedInv, SingleInv, NEW w \in Workers, WorkerNext(w), NoOverlap'
    PROVE  SingleInv'
<1> USE DEF SingleInv
<1>1. \A v \in Workers \ {w} : worker'[v] = worker[v]
    BY OtherSessions
<1>2. CASE Deliver(w)
    <2>1. PICK row \in Rows, n \in 0..MaxAttempts :
            /\ Take(row, n)
            /\ \/ UNCHANGED worker
               \/ worker'[w].pc = "check" /\ worker'[w].row = row /\ worker'[w].live
        BY <1>2, Delivers
    <2>2. /\ Queued(row) /\ ~Queued(row)' /\ OneCopy'
          /\ \A other \in Rows : other # row => (Queued(other)' <=> Queued(other))
        BY <2>1, TakesTheOne DEF Queued
    <2>3. \A v \in Workers : ~At(v, "idle") => worker[v].row \in Rows /\ worker[v].row # row
        BY <2>2, WorkerMoves DEF HeldNotQueued
    <2>4. CASE UNCHANGED worker
        BY <2>2, <2>3, <2>4 DEF NoRowWhenIdle, OneHolder, HeldNotQueued, At, Queued
    <2>5. CASE worker'[w].pc = "check" /\ worker'[w].row = row /\ worker'[w].live
        <3>1. NoRowWhenIdle' /\ OneHolder'
            BY <1>1, <2>3, <2>5 DEF NoRowWhenIdle, OneHolder, At
        <3>2. HeldNotQueued'
            <4> SUFFICES ASSUME NEW v \in Workers, ~At(v, "idle")'
                         PROVE  worker'[v].live /\ ~Queued(worker[v].row)'
                BY DEF HeldNotQueued, Queued
            <4>1. CASE v = w
                BY <2>2, <2>5, <4>1
            <4>2. CASE v # w
                BY <1>1, <2>2, <2>3, <4>2 DEF HeldNotQueued, At
            <4> QED
                BY <4>1, <4>2
        <3> QED
            BY <2>2, <3>1, <3>2
    <2> QED
        BY <2>1, <2>4, <2>5
<1>3. CASE ~At(w, "idle") /\ Stays(w) /\ UNCHANGED queue
    BY <1>1, <1>3
    DEF Stays, KeepsMessage, NoRowWhenIdle, OneCopy, OneHolder, HeldNotQueued, At, Queued
<1>4. CASE ~At(w, "idle") /\ Finish(w) /\ UNCHANGED queue
    <2>1. worker'[w].pc = "idle" /\ worker'[w].row = NoRow
        BY <1>4, Finishes DEF IdleWorker
    <2> QED
        BY <1>1, <1>4, <2>1
        DEF NoRowWhenIdle, OneCopy, OneHolder, HeldNotQueued, At, Queued
<1>5. CASE ~At(w, "idle") /\ Finish(w) /\ GiveBack(w)
    <2> DEFINE row == worker[w].row
    <2>1. worker'[w].pc = "idle" /\ worker'[w].row = NoRow
        BY <1>5, Finishes DEF IdleWorker
    <2>2. row \in Rows /\ worker[w].count \in 0..MaxAttempts /\ ~Queued(row)
        BY <1>5, WorkerMoves DEF HeldNotQueued
    <2>3. \/ Requeue(row, worker[w].count)
          \/ UNCHANGED queue
        BY <1>5 DEF GiveBack
    <2>4. OneCopy' /\ \A other \in Rows : other # row => (Queued(other)' <=> Queued(other))
        <3>1. CASE Requeue(row, worker[w].count)
            <4>1. Refills({row}, worker[w].count + 1)
                BY <2>2, <3>1, RequeueRefills
            <4> QED
                BY <4>1, RefillKeepsOne
        <3>2. CASE UNCHANGED queue
            BY <3>2 DEF OneCopy, Queued
        <3> QED
            BY <2>3, <3>1, <3>2
    <2>5. NoRowWhenIdle' /\ OneHolder'
        BY <1>1, <2>1 DEF NoRowWhenIdle, OneHolder, At
    <2>6. HeldNotQueued'
        <3> SUFFICES ASSUME NEW v \in Workers, ~At(v, "idle")'
                     PROVE  worker'[v].live /\ ~Queued(worker[v].row)'
            BY DEF HeldNotQueued, Queued
        <3>1. v # w /\ worker'[v] = worker[v] /\ ~At(v, "idle")
            BY <1>1, <2>1 DEF At
        <3>2. worker[v].row \in Rows /\ worker[v].row # row
            BY <1>5, <3>1, WorkerMoves DEF OneHolder
        <3> QED
            BY <2>4, <3>1, <3>2 DEF HeldNotQueued
    <2> QED
        BY <2>4, <2>5, <2>6
<1>6. CASE ~At(w, "idle") /\ Stays(w) /\ ClaimNext(w)
    <2>1. PICK s \in worker[w].todo : ClaimAndPublish(<<DocOf(w), s>>)
        BY <1>6, Triggers
    <2>2. <<DocOf(w), s>> \in Rows
        BY <1>6, RowParts, WorkerMoves DEF TypeOK, WorkerTypeOK, WorkerSessions
    <2>3. \A v \in Workers : /\ worker'[v].row = worker[v].row
                             /\ worker'[v].live = worker[v].live
                             /\ At(v, "idle")' <=> At(v, "idle")
        BY <1>1, <1>6 DEF Stays, KeepsMessage, At
    <2>4. CASE UNCHANGED queue
        BY <2>3, <2>4 DEF NoRowWhenIdle, OneCopy, OneHolder, HeldNotQueued, Queued
    <2>5. CASE Claimable(<<DocOf(w), s>>) /\ Publish({<<DocOf(w), s>>})
        <3>1. Free(<<DocOf(w), s>>)
            BY <2>2, <2>5, UnstartedFree DEF Claimable, Started
        <3> QED
            BY <2>2, <2>3, <2>5, <3>1, PublishKeepsSingle
    <2> QED
        BY <2>1, <2>4, <2>5 DEF ClaimAndPublish
<1> QED
    BY <1>2, <1>3, <1>4, <1>5, <1>6, WorkerHandles

----
(* The rows of pipeline_step: who writes them, and from which status.   *)

(* The job id of the external call is saved. *)
Sent(row) == row[2] = ExternalCall /\ jobId[row[1]] # NoJob

(* The handler has not yet decided how its step ends. *)
Undecided(w) == worker[w].pc \in {"check", "mark", "run", "called"}

(* What it loaded with its message is what the row still says. *)
SessionsFresh ==
    \A w \in Workers : Undecided(w) =>
        /\ worker[w].status \in InFlight
        /\ worker[w].attempts = attempts[worker[w].row]
        /\ status[worker[w].row] =
              IF worker[w].pc \in {"check", "mark"} THEN worker[w].status ELSE "running"

SentSettled ==
    \A row \in Rows :
        Sent(row) => /\ status[row] \in {"awaiting_callback", "done", "error"}
                     /\ attempts[row] < MaxAttempts

AwaitingSent == \A row \in Rows : status[row] = "awaiting_callback" => Sent(row)

ExhaustedFailed == \A row \in Rows : attempts[row] >= MaxAttempts => status[row] = "error"

TableInv == SentSettled /\ AwaitingSent /\ ExhaustedFailed

HooksSent == \A h \in Hooks : \A d \in hook[h].docs : Sent(<<d, ExternalCall>>)

(* The rows a reaper has loaded: those of part 1 under its locks, with  *)
(* attempts left and, if QUEUED, without a delivery.                    *)
StepLocked(r, step) ==
    /\ reaper[r].part = 1 =>
          /\ <<r, step.row>> \in locks
          /\ step.status \in InFlight /\ ~step.exhausted
          /\ step.status = "queued" => Free(step.row)
          /\ \A other \in reaper[r].batch : other.row = step.row => other = step
    /\ reaper[r].part = 2 => step.status = "awaiting_callback" /\ Sent(step.row)

BatchesLocked == \A r \in Reapers : \A step \in reaper[r].batch : StepLocked(r, step)

LocksApart == \A k, l \in locks : k[2] = l[2] => k[1] = l[1]

(* How one row may change in a step. *)
Kept(row) == attempts'[row] = attempts[row] /\ (Sent(row)' <=> Sent(row))

HandlerWrites(w, row) ==
    \/ At(w, "mark") /\ status'[row] = "running" /\ Kept(row)
    \/ At(w, "run") /\ row[2] # ExternalCall /\ status'[row] = "done" /\ Kept(row)
    \/ /\ At(w, "called") /\ status'[row] = "awaiting_callback" /\ Sent(row)'
       /\ attempts'[row] = attempts[row]
    \/ /\ At(w, "run") /\ attempts'[row] = worker[w].attempts + 1
       /\ status'[row] = IF Exhausted(attempts'[row]) THEN "error" ELSE "queued"
       /\ Sent(row)' <=> Sent(row)

RowChanges(row) ==
    \/ status'[row] = status[row] /\ Kept(row)
    \/ ~Started(row) /\ status'[row] \in {"pending", "queued"} /\ Kept(row)
    \/ Sent(row) /\ status'[row] \in {"done", "error"} /\ Kept(row)
    \/ \E w \in Workers : worker[w].row = row /\ WorkerNext(w) /\ HandlerWrites(w, row)

(* The UPDATE of one row leaves the others alone. *)
LEMMA UpdatesOne ==
    ASSUME TypeOK, NEW row \in Rows, NEW new, SetStatus(row, new)
    PROVE  /\ status'[row] = new
           /\ \A other \in Rows \ {row} : status'[other] = status[other]
    BY DEF SetStatus, TypeOK, StoreTypeOK

(* A handler writes its own row, or wins a claim. *)
LEMMA WorkerChanges ==
    ASSUME TypeOK, StartedInv, ReadyInv, NEW w \in Workers, WorkerNext(w)
    PROVE  \A row \in Rows : RowChanges(row)
<1> USE DEF RowChanges, Kept
<1>own. PICK own : own = worker[w].row
    OBVIOUS
<1>0. ~At(w, "idle") =>
        own \in Rows /\ DocOf(w) \in Docs /\ StepOf(w) \in Steps /\ own = <<DocOf(w), StepOf(w)>>
    BY <1>own, WorkerMoves
<1>1. CASE UNCHANGED <<status, attempts, jobId>>
    BY <1>1 DEF Sent
<1>2. CASE ClaimNext(w)
    <2>1. PICK s \in worker[w].todo : ClaimAndPublish(<<DocOf(w), s>>)
        BY <1>2 DEF ClaimNext
    <2>2. <<DocOf(w), s>> \in Rows /\ UNCHANGED <<attempts, jobId>>
        BY <1>0, <1>2, RowParts DEF ClaimNext, At, TypeOK, WorkerTypeOK, WorkerSessions
    <2>3. CASE Claimable(<<DocOf(w), s>>) /\ SetStatus(<<DocOf(w), s>>, "queued")
        BY <2>2, <2>3, UpdatesOne DEF Claimable, Started, Sent
    <2> QED
        BY <1>1, <2>1, <2>2, <2>3 DEF ClaimAndPublish
<1>3. CASE MarkRunning(w)
    <2>1. own \in Rows /\ UNCHANGED <<attempts, jobId>> /\ At(w, "mark")
        BY <1>own, <1>0, <1>3 DEF MarkRunning, At
    <2>2. CASE SetStatus(own, "running")
        <3>1. status'[own] = "running" /\ \A other \in Rows \ {own} : status'[other] = status[other]
            BY <2>1, <2>2, UpdatesOne
        <3>2. HandlerWrites(w, own)
            BY <1>own, <2>1, <3>1 DEF HandlerWrites, Sent
        <3> QED
            BY <1>own, <2>1, <3>1, <3>2 DEF Sent
    <2> QED
        BY <1>own, <1>1, <1>3, <2>1, <2>2 DEF MarkRunning
<1>4. CASE SaveOutput(w)
    <2>1. /\ own \in Rows /\ UNCHANGED <<attempts, jobId>> /\ At(w, "run")
          /\ own[2] # ExternalCall
        BY <1>own, <1>0, <1>4 DEF SaveOutput, At, StepOf
    <2>2. status'[own] = "done" /\ \A other \in Rows \ {own} : status'[other] = status[other]
        BY <1>own, <1>4, <2>1, UpdatesOne DEF SaveOutput
    <2>3. HandlerWrites(w, own)
        BY <2>1, <2>2 DEF HandlerWrites, Sent
    <2> QED
        BY <1>own, <2>1, <2>2, <2>3 DEF Sent
<1>5. CASE SaveJob(w)
    <2>1. /\ own \in Rows /\ UNCHANGED attempts /\ At(w, "called")
          /\ own = <<DocOf(w), ExternalCall>> /\ DocOf(w) \in Docs
        BY <1>own, <1>0, <1>5 DEF SaveJob, At, StartedInv, CallersStarted
    <2>2. /\ status'[own] = "awaiting_callback"
          /\ \A other \in Rows \ {own} : status'[other] = status[other]
        BY <1>own, <1>5, <2>1, UpdatesOne DEF SaveJob
    <2>3. worker[w].job # NoJob
        BY <2>1, StoreAssumption DEF ReadyInv, CallsMatch
    <2>4. Sent(own)' /\ \A other \in Rows \ {own} : Sent(other)' <=> Sent(other)
        <3>1. jobId'[DocOf(w)] # NoJob /\ \A d \in Docs \ {DocOf(w)} : jobId'[d] = jobId[d]
            BY <1>5, <2>1, <2>3 DEF SaveJob, TypeOK, StoreTypeOK
        <3>2. ASSUME NEW other \in Rows \ {own}
              PROVE  Sent(other)' <=> Sent(other)
            <4>1. other[2] = ExternalCall => other[1] \in Docs \ {DocOf(w)}
                BY <2>1, RowParts
            <4> QED
                BY <3>1, <4>1 DEF Sent
        <3> QED
            BY <2>1, <3>1, <3>2 DEF Sent
    <2>5. HandlerWrites(w, own)
        BY <2>1, <2>2, <2>4 DEF HandlerWrites
    <2> QED
        BY <1>own, <2>1, <2>2, <2>4, <2>5
<1>6. CASE StepFails(w)
    <2>1. own \in Rows /\ UNCHANGED jobId /\ At(w, "run")
        BY <1>own, <1>0, <1>6 DEF StepFails, At
    <2>2. /\ attempts'[own] = worker[w].attempts + 1
          /\ \A other \in Rows \ {own} : attempts'[other] = attempts[other]
        BY <1>own, <1>6, <2>1 DEF StepFails, TypeOK, StoreTypeOK
    <2>3. /\ status'[own] = IF Exhausted(worker[w].attempts + 1) THEN "error" ELSE "queued"
          /\ \A other \in Rows \ {own} : status'[other] = status[other]
        BY <1>own, <1>6, <2>1, UpdatesOne DEF StepFails
    <2>4. HandlerWrites(w, own)
        BY <2>1, <2>2, <2>3 DEF HandlerWrites, Sent
    <2> QED
        BY <1>own, <2>1, <2>2, <2>3, <2>4 DEF Sent
<1> QED
    BY <1>1, <1>2, <1>3, <1>4, <1>5, <1>6
    DEF WorkerNext, WorkerStep, Deliver, CheckDocument, CallPartner, ReadReady,
        WorkerDerives, WorkerPersists, Acknowledge, WorkerCrashes, LoseConnection, storeVars

(* So does every step: requests and reapers only write rows whose job   *)
(* id is saved.                                                         *)
LEMMA TableChanges ==
    ASSUME TypeOK, StartedInv, ReadyInv, HooksSent, BatchesLocked, [Next]_vars
    PROVE  \A row \in Rows : RowChanges(row)
<1>1. CASE UNCHANGED <<status, attempts, jobId>>
    BY <1>1 DEF RowChanges, Kept, Sent
<1>2. ASSUME NEW d \in Docs, Upload(d)
      PROVE  \A row \in Rows : RowChanges(row)
    <2>1. UNCHANGED <<attempts, jobId>>
        BY <1>2 DEF Upload
    <2>2. ASSUME NEW row \in Rows, row[1] = d
          PROVE  ~Started(row) /\ status'[row] \in {"pending", "queued"}
        BY <1>2, <2>2 DEF Upload, InitialStatus, StartedInv, RowsStarted
    <2>3. ASSUME NEW row \in Rows, row[1] # d
          PROVE  status'[row] = status[row]
        BY <1>2, <2>3 DEF Upload
    <2> QED
        BY <2>1, <2>2, <2>3 DEF RowChanges, Kept, Sent
<1>3. ASSUME NEW row \in Rows, NEW new \in {"done", "error"}, Sent(row),
             SetStatus(row, new), UNCHANGED <<attempts, jobId>>
      PROVE  \A other \in Rows : RowChanges(other)
    BY <1>3, UpdatesOne DEF RowChanges, Kept, Sent
<1>4. ASSUME NEW h \in Hooks, Apply(h)
      PROVE  \A row \in Rows : RowChanges(row)
    <2>1. PICK d \in hook[h].docs :
            SetStatus(<<d, ExternalCall>>, IF hook[h].ok THEN "done" ELSE "error")
        BY <1>4 DEF Apply
    <2>2. <<d, ExternalCall>> \in Rows /\ Sent(<<d, ExternalCall>>)
        BY RowParts DEF TypeOK, HookTypeOK, HookSessions, HooksSent
    <2> QED
        BY <1>3, <1>4, <2>1, <2>2 DEF Apply
<1>5. ASSUME NEW r \in Reapers, Fail(r)
      PROVE  \A row \in Rows : RowChanges(row)
    <2>1. PICK step \in reaper[r].batch : MustFail(step) /\ SetStatus(step.row, "error")
        BY <1>5 DEF Fail
    <2>2. step.row \in Rows /\ reaper[r].part \in {1, 2}
        BY DEF TypeOK, ReaperTypeOK, ReaperSessions, LoadedRows
    <2>3. Sent(step.row)
        BY <2>1, <2>2 DEF BatchesLocked, StepLocked, MustFail, InFlight
    <2> QED
        BY <1>3, <1>5, <2>1, <2>2, <2>3 DEF Fail
<1>6. ASSUME NEW h \in Hooks, HookNext(h)
      PROVE  \A row \in Rows : RowChanges(row)
    BY <1>1, <1>4, <1>6
    DEF HookNext, HookStep, Receive, HookDerives, HookPersists, HookCrashes, storeVars
<1>7. ASSUME NEW r \in Reapers, ReaperNext(r)
      PROVE  \A row \in Rows : RowChanges(row)
    BY <1>1, <1>5, <1>7
    DEF ReaperNext, Wake, ReaperStep, ScanInFlight, ScanCallbacks, Scan, EndIteration,
        Republish, LeaveRunning, ReaperDerives, ReaperPersists, ReaperCrashes, storeVars
<1> QED
    BY <1>1, <1>2, <1>6, <1>7, WorkerChanges DEF Next, Age, vars, storeVars

(* What was sent stays sent, and is settled; what is out of attempts    *)
(* has failed.                                                          *)
LEMMA TableKept ==
    ASSUME TypeOK, SessionsFresh, TableInv, NoRowWhenIdle, StartedInv,
           \A row \in Rows : RowChanges(row)
    PROVE  TableInv' /\ \A row \in Rows : Sent(row) => Sent(row)'
<1> SUFFICES ASSUME NEW row \in Rows
             PROVE  /\ Sent(row) => Sent(row)'
                    /\ Sent(row)' => /\ status'[row] \in {"awaiting_callback", "done", "error"}
                                     /\ attempts'[row] < MaxAttempts
                    /\ status'[row] = "awaiting_callback" => Sent(row)'
                    /\ attempts'[row] >= MaxAttempts => status'[row] = "error"
    BY DEF TableInv, SentSettled, AwaitingSent, ExhaustedFailed
<1> USE DEF TableInv, SentSettled, AwaitingSent, ExhaustedFailed
<1>0. attempts[row] \in Nat /\ MaxAttempts \in Nat
    BY BrokerAssumption DEF TypeOK, StoreTypeOK
<1>1. CASE status'[row] = status[row] /\ Kept(row)
    BY <1>1 DEF Kept
<1>2. CASE ~Started(row) /\ status'[row] \in {"pending", "queued"} /\ Kept(row)
    BY <1>2 DEF Kept, Started
<1>3. CASE Sent(row) /\ status'[row] \in {"done", "error"} /\ Kept(row)
    BY <1>0, <1>3 DEF Kept
<1>4. ASSUME NEW w \in Workers, worker[w].row = row, HandlerWrites(w, row)
      PROVE  /\ Sent(row) => Sent(row)'
             /\ Sent(row)' => /\ status'[row] \in {"awaiting_callback", "done", "error"}
                              /\ attempts'[row] < MaxAttempts
             /\ status'[row] = "awaiting_callback" => Sent(row)'
             /\ attempts'[row] >= MaxAttempts => status'[row] = "error"
    <2>1. Undecided(w)
        BY <1>4 DEF HandlerWrites, Undecided, At
    <2>2. status[row] \in InFlight
        BY <1>4, <2>1 DEF SessionsFresh, InFlight
    <2>3. ~Sent(row) /\ attempts[row] < MaxAttempts
        BY <1>0, <2>2 DEF InFlight
    <2> QED
        BY <1>0, <1>4, <2>3 DEF HandlerWrites, Kept, Exhausted, Sent
<1> QED
    BY <1>1, <1>2, <1>3, <1>4 DEF RowChanges

(* What a session is after a step, if its handler is undecided then.    *)
LEMMA UndecidedSteps ==
    ASSUME TypeOK, NEW w \in Workers, WorkerNext(w), NoOverlap', Undecided(w)'
    PROVE  \/ /\ UNCHANGED <<status, attempts>>
              /\ worker'[w].pc = "check"
              /\ worker'[w].row \in Rows
              /\ status[worker'[w].row] \notin TerminalForRun
              /\ worker'[w].status = status[worker'[w].row]
              /\ worker'[w].attempts = attempts[worker'[w].row]
              /\ Queued(worker'[w].row)
           \/ /\ KeepsMessage(w)
              /\ \/ /\ UNCHANGED <<status, attempts>>
                    /\ \/ worker[w].pc = "check" /\ worker'[w].pc = "mark"
                       \/ /\ worker[w].pc = "run" /\ worker'[w].pc = "called"
                          /\ CallPartner(w)
                 \/ MarkRunning(w) /\ worker'[w].pc = "run"
<1> USE DEF At, Undecided
<1>1. CASE Deliver(w)
    <2>1. UNCHANGED <<status, attempts>> /\ worker[w].pc = "idle"
        BY <1>1, Delivers DEF Deliver, storeVars
    <2>2. PICK row \in Rows, n \in 0..MaxAttempts :
                /\ Take(row, n)
                /\ \/ status[row] \in TerminalForRun /\ UNCHANGED worker
                   \/ /\ status[row] \notin TerminalForRun
                      /\ worker'[w].pc = "check" /\ worker'[w].row = row
                      /\ worker'[w].status = status[row]
                      /\ worker'[w].attempts = attempts[row]
        BY <1>1, Delivers
    <2>3. ~UNCHANGED worker
        BY <2>1
    <2>4. Queued(row)
        BY <2>2 DEF Take, Queued
    <2> QED
        BY <2>1, <2>2, <2>3, <2>4
<1>2. CASE CheckDocument(w) /\ ~Finish(w)
    BY <1>2, Checks DEF CheckDocument, storeVars
<1>3. CASE MarkRunning(w)
    BY <1>3, Moves DEF MarkRunning
<1>4. CASE SaveOutput(w) \/ SaveJob(w) \/ WorkerPersists(w)
    BY <1>4, Moves DEF SaveOutput, SaveJob, WorkerPersists
<1>5. CASE CallPartner(w)
    BY <1>5, Calls DEF CallPartner, storeVars
<1>6. CASE ReadReady(w) \/ ClaimNext(w)
    BY <1>6, Triggers DEF ClaimNext
<1>7. CASE WorkerDerives(w)
    BY <1>7, Derives
<1>8. CASE Finish(w)
    BY <1>8, Finishes DEF IdleWorker
<1>9. CASE StepFails(w) /\ ~Finish(w)
    BY <1>9, Moves DEF StepFails
<1>10. ~LoseConnection(w)
    BY DEF LoseConnection, NoOverlap, TypeOK, TransitionTypeOK
<1> QED
    BY <1>1, <1>2, <1>3, <1>4, <1>5, <1>6, <1>7, <1>8, <1>9, <1>10
    DEF WorkerNext, WorkerStep, Acknowledge, WorkerCrashes

(* A step is a worker's own, or leaves its session alone. *)
LEMMA OwnStep ==
    ASSUME TypeOK, [Next]_vars, NEW v \in Workers, ~WorkerNext(v)
    PROVE  worker'[v] = worker[v]
    BY OtherSessions DEF Next, vars

(* While a worker handles a row, nobody else writes it. *)
LEMMA SessionsStayFresh ==
    ASSUME TypeOK, StartedInv, SingleInv, SessionsFresh, TableInv, [Next]_vars, NoOverlap',
           \A row \in Rows : RowChanges(row)
    PROVE  SessionsFresh'
<1> SUFFICES ASSUME NEW v \in Workers, Undecided(v)'
             PROVE  /\ worker'[v].status \in InFlight
                    /\ worker'[v].attempts = attempts'[worker'[v].row]
                    /\ status'[worker'[v].row] =
                          IF worker'[v].pc \in {"check", "mark"} THEN worker'[v].status
                                                               ELSE "running"
    BY DEF SessionsFresh, Undecided
<1>1. CASE ~WorkerNext(v)
    <2>1. worker'[v] = worker[v] /\ Undecided(v)
        BY <1>1, OwnStep DEF Undecided
    <2>2. PICK row \in Rows : row = worker[v].row
        BY <2>1, WorkerMoves DEF Undecided, At
    <2>3. /\ worker[v].status \in InFlight
          /\ worker[v].attempts = attempts[row]
          /\ status[row] = IF worker[v].pc \in {"check", "mark"} THEN worker[v].status
                                                               ELSE "running"
        BY <2>1, <2>2 DEF SessionsFresh
    <2>4. Started(row) /\ ~Sent(row)
        BY <2>3 DEF InFlight, Started, TableInv, SentSettled
    <2>5. \A w \in Workers : worker[w].row = row /\ HandlerWrites(w, row) => w = v
        BY <2>1, <2>2 DEF HandlerWrites, SingleInv, OneHolder, At, Undecided
    <2>6. status'[row] = status[row] /\ attempts'[row] = attempts[row]
        BY <1>1, <2>4, <2>5 DEF RowChanges, Kept
    <2> QED
        BY <2>1, <2>2, <2>3, <2>6
<1>2. CASE WorkerNext(v)
    <2>1. CASE /\ UNCHANGED <<status, attempts>>
               /\ worker'[v].pc = "check"
               /\ worker'[v].row \in Rows
               /\ status[worker'[v].row] \notin TerminalForRun
               /\ worker'[v].status = status[worker'[v].row]
               /\ worker'[v].attempts = attempts[worker'[v].row]
               /\ Queued(worker'[v].row)
        <3>1. status[worker'[v].row] \in InFlight
            BY <2>1
            DEF StartedInv, RowsStarted, Started, TerminalForRun, InFlight, TypeOK,
                StoreTypeOK, StepStatuses
        <3> QED
            BY <2>1, <3>1
    <2>2. CASE /\ KeepsMessage(v) /\ UNCHANGED <<status, attempts>>
               /\ \/ worker[v].pc = "check" /\ worker'[v].pc = "mark"
                  \/ worker[v].pc = "run" /\ worker'[v].pc = "called"
        BY <2>2 DEF KeepsMessage, SessionsFresh, Undecided
    <2>3. CASE KeepsMessage(v) /\ MarkRunning(v) /\ worker'[v].pc = "run"
        <3>1. /\ worker[v].pc = "mark" /\ worker[v].row \in Rows
              /\ worker[v].status \in InFlight
              /\ worker[v].attempts = attempts[worker[v].row]
              /\ status[worker[v].row] = worker[v].status
            BY <2>3, WorkerMoves DEF MarkRunning, At, SessionsFresh, Undecided
        <3>2. status'[worker[v].row] = "running" /\ UNCHANGED attempts
            BY <2>3, <3>1, UpdatesOne DEF MarkRunning
        <3> QED
            BY <2>3, <3>1, <3>2 DEF KeepsMessage
    <2> QED
        BY <1>2, <2>1, <2>2, <2>3, UndecidedSteps
<1> QED
    BY <1>1, <1>2

----
(* What the other parts remember of a row. *)

(* What is FREE stays so while a worker or an upload steps: both only   *)
(* publish rows that were not started.                                  *)
LEMMA WorkerKeepsFree ==
    ASSUME TypeOK, NEW w \in Workers, WorkerNext(w), NoOverlap',
           NEW row \in Rows, Started(row), Free(row)
    PROVE  Free(row)'
<1>1. \A v \in Workers \ {w} : worker'[v].row # row
    BY OtherSessions DEF Free
<1>2. /\ ~At(w, "idle") => /\ worker[w].row \in Rows /\ worker[w].row # row
                           /\ DocOf(w) \in Docs
      /\ NoRow # row /\ worker[w].row # row
    BY WorkerMoves, NoRowIsNoRow DEF Free
<1>3. CASE Deliver(w)
    <2>1. PICK other \in Rows, n \in 0..MaxAttempts :
            /\ Take(other, n)
            /\ UNCHANGED worker \/ worker'[w].row = other
        BY <1>3, Delivers
    <2>2. Queued(other) /\ (Queued(row)' => Queued(row))
        BY <2>1, TakeQueues
    <2>3. worker'[w].row # row
        BY <1>2, <2>1, <2>2 DEF Free
    <2> QED
        BY <1>1, <2>2, <2>3 DEF Free
<1>4. CASE ~At(w, "idle") /\ ~ClaimNext(w) /\ ~Deliver(w)
    <2>1. worker'[w].row # row
        <3>1. CASE Finish(w)
            BY <1>2, <3>1, Finishes DEF IdleWorker
        <3>2. CASE Stays(w)
            BY <1>2, <3>2 DEF Stays, KeepsMessage
        <3> QED
            BY <1>4, <3>1, <3>2, WorkerHandles
    <2>2. Queued(row)' => Queued(row)
        <3>1. CASE GiveBack(w)
            BY <1>2, <1>4, <3>1, GiveBackQueues
        <3>2. CASE UNCHANGED queue
            BY <3>2 DEF Queued
        <3> QED
            BY <1>4, <3>1, <3>2, WorkerHandles
    <2> QED
        BY <1>1, <2>1, <2>2 DEF Free
<1>5. CASE ClaimNext(w)
    <2>1. PICK s \in worker[w].todo : ClaimAndPublish(<<DocOf(w), s>>)
        BY <1>5 DEF ClaimNext
    <2>2. <<DocOf(w), s>> \in Rows
        BY <1>2, <1>5, RowParts DEF ClaimNext, At, TypeOK, WorkerTypeOK, WorkerSessions
    <2>3. Queued(row)' => Queued(row)
        BY <2>1, <2>2, ClaimStarts DEF Queued
    <2>4. worker'[w].row # row
        BY <1>2, <1>5, Triggers DEF KeepsMessage
    <2> QED
        BY <1>1, <2>3, <2>4 DEF Free
<1> QED
    BY <1>3, <1>4, <1>5, WorkerHandles

(* A reaper's scan finds rows with attempts left, and without a         *)
(* delivery if they are QUEUED, because they are not overdue before.    *)
LEMMA ScanFinds ==
    ASSUME TypeOK, SingleInv, TableInv, NEW r \in Reapers, Wake(r), NoOverlap',
           NEW row \in Rows, row \in LockableStale(InFlight)
    PROVE  /\ Loaded(row).status \in InFlight /\ ~Loaded(row).exhausted
           /\ Loaded(row).status = "queued" => Free(row)
<1>1. status[row] \in InFlight /\ row \in stale
    BY DEF LockableStale
<1>2. ~(attempts[row] >= MaxAttempts)
    BY <1>1 DEF InFlight, TableInv, ExhaustedFailed
<1>3. Timely
    BY DEF Wake, Backlog, NoOverlap, TypeOK
<1>4. ASSUME status[row] = "queued"
      PROVE  Free(row)
    <2>1. ~Outstanding(row)
        BY <1>1, <1>3, <1>4 DEF Timely
    <2>2. \A w \in Workers : worker[w].row # row
        BY <2>1, NoRowIsNoRow DEF Outstanding, SingleInv, NoRowWhenIdle, HeldNotQueued
    <2> QED
        BY <2>1, <2>2 DEF Outstanding, Free
<1> QED
    BY <1>1, <1>2, <1>4 DEF Loaded

(* What a step of a reaper does to its batch and to the locks. *)
LEMMA BatchSteps ==
    ASSUME TypeOK, BatchesLocked, NEW r \in Reapers, ReaperNext(r)
    PROVE  /\ \A q \in Reapers \ {r} : reaper'[q] = reaper[q]
           /\ \/ /\ Wake(r) /\ UNCHANGED queue
                 /\ reaper'[r].batch = {Loaded(row) : row \in LockableStale(InFlight)}
                 /\ reaper'[r].part = 1
                 /\ locks' = (locks \ LocksOf(r)) \cup ({r} \X LockableStale(InFlight))
              \/ /\ UNCHANGED queue
                 /\ reaper'[r].batch =
                       {Loaded(row) : row \in LockableStale({"awaiting_callback"})}
                 /\ reaper'[r].batch # {} => reaper'[r].part = 2
                 /\ locks' = (locks \ LocksOf(r))
                                \cup ({r} \X LockableStale({"awaiting_callback"}))
              \/ /\ UNCHANGED queue
                 /\ locks' = locks \ LocksOf(r)
                 /\ reaper'[r].batch # {} =>
                       /\ reaper'[r].batch \subseteq reaper[r].batch
                       /\ reaper'[r].part = 2 /\ reaper[r].part = 2
              \/ /\ \/ UNCHANGED queue
                    \/ \E step \in reaper[r].batch :
                          /\ reaper[r].part = 1 /\ step.status = "queued"
                          /\ step \notin reaper'[r].batch
                          /\ Publish({step.row})
                 /\ UNCHANGED locks
                 /\ reaper'[r].batch \subseteq reaper[r].batch
                 /\ reaper'[r].part = reaper[r].part
<1>0. reaper[r] \in ReaperSessions /\ \A step \in reaper[r].batch : step.status # "error"
    BY DEF TypeOK, ReaperTypeOK, ReaperSessions, LoadedRows, InFlight
<1>1. \A q \in Reapers \ {r} : reaper'[q] = reaper[q]
    BY DEF ReaperNext, Wake, ReaperStep, ScanInFlight, ScanCallbacks, Scan, EndIteration,
           Fail, Republish, LeaveRunning, ReaperDerives, ReaperPersists, ReaperCrashes,
           TypeOK, ReaperTypeOK
<1>2. \A session : reaper' = [reaper EXCEPT ![r] = session] => reaper'[r] = session
    BY DEF TypeOK, ReaperTypeOK
<1>a. ASSUME NEW part, NEW wanted, Scan(r, part, wanted), ~(part = 2 /\ LockableStale(wanted) = {})
      PROVE  /\ reaper'[r].batch = {Loaded(row) : row \in LockableStale(wanted)}
             /\ reaper'[r].part = part
    <2> DEFINE batch == {Loaded(row) : row \in LockableStale(wanted)}
    <2>1. reaper'[r] = [IdleReaper EXCEPT !.pc = "batch", !.part = part, !.batch = batch]
        BY <1>2, <1>a DEF Scan
    <2> HIDE DEF batch
    <2>2. reaper'[r].batch = batch /\ reaper'[r].part = part
        BY <2>1 DEF IdleReaper
    <2> QED
        BY <2>2 DEF batch
<1>3. CASE Wake(r)
    <2>1. Scan(r, 1, InFlight)
        BY <1>3 DEF Wake, ScanInFlight
    <2> QED
        <3>1. /\ reaper'[r].batch = {Loaded(row) : row \in LockableStale(InFlight)}
              /\ reaper'[r].part = 1
            BY <1>a, <2>1
        <3>2. /\ locks' = (locks \ LocksOf(r)) \cup ({r} \X LockableStale(InFlight))
              /\ UNCHANGED queue
            BY <2>1 DEF Scan, brokerVars
        <3> QED
            BY <1>1, <1>3, <3>1, <3>2
<1>4. CASE ScanCallbacks(r)
    <2>1. CASE LockableStale({"awaiting_callback"}) = {}
        <3>1. reaper'[r] = IdleReaper
            BY <1>2, <1>4, <2>1 DEF ScanCallbacks, Scan
        <3> QED
            BY <1>1, <1>4, <2>1, <3>1 DEF ScanCallbacks, Scan, IdleReaper, brokerVars
    <2>2. CASE LockableStale({"awaiting_callback"}) # {}
        <3>1. Scan(r, 2, {"awaiting_callback"})
            BY <1>4 DEF ScanCallbacks
        <3> QED
            BY <1>a, <1>1, <2>2, <3>1 DEF Scan, brokerVars
    <2> QED
        BY <2>1, <2>2
<1>5. CASE EndIteration(r) \/ ReaperCrashes(r)
    BY <1>1, <1>2, <1>5 DEF EndIteration, ReaperCrashes, IdleReaper, brokerVars
<1>6. CASE Fail(r)
    <2>1. PICK step \in reaper[r].batch :
            /\ MustFail(step)
            /\ reaper' = [reaper EXCEPT ![r] =
                  [reaper[r] EXCEPT !.pc = "recompute", !.failed = {step.row[1]},
                                    !.batch = reaper[r].batch \ {step}]]
        BY <1>6 DEF Fail
    <2>2. reaper[r].part = 2
        BY <1>0, <2>1 DEF MustFail, BatchesLocked, StepLocked, InFlight, ReaperSessions
    <2>3. /\ reaper'[r].batch = reaper[r].batch \ {step}
          /\ reaper'[r].part = reaper[r].part
        <3> DEFINE batch == reaper[r].batch \ {step}
                   failed == {step.row[1]}
        <3>1. reaper'[r] = [reaper[r] EXCEPT !.pc = "recompute", !.failed = failed,
                                             !.batch = batch]
            BY <1>2, <2>1
        <3> HIDE DEF batch, failed
        <3>2. reaper'[r].batch = batch /\ reaper'[r].part = reaper[r].part
            BY <1>0, <3>1 DEF ReaperSessions
        <3> QED
            BY <3>2 DEF batch
    <2> QED
        BY <1>1, <1>6, <2>2, <2>3 DEF Fail, brokerVars
<1>7. ASSUME NEW step \in reaper[r].batch,
             reaper' = [reaper EXCEPT ![r].batch = @ \ {step}]
      PROVE  /\ reaper'[r].batch = reaper[r].batch \ {step}
             /\ reaper'[r].part = reaper[r].part
    <2>1. reaper'[r] = [reaper[r] EXCEPT !.batch = reaper[r].batch \ {step}]
        BY <1>7 DEF TypeOK, ReaperTypeOK
    <2> QED
        BY <1>0, <2>1 DEF ReaperSessions
<1>8. CASE Republish(r)
    <2>1. PICK step \in reaper[r].batch :
            /\ step.status = "queued" /\ Publish({step.row})
            /\ reaper' = [reaper EXCEPT ![r].batch = @ \ {step}]
        BY <1>8 DEF Republish
    <2>2. reaper[r].part = 1
        BY <1>0, <2>1 DEF BatchesLocked, StepLocked, ReaperSessions
    <2> QED
        BY <1>1, <1>7, <1>8, <2>1, <2>2 DEF Republish, storeVars
<1>9. CASE LeaveRunning(r)
    BY <1>1, <1>7, <1>9 DEF LeaveRunning, storeVars, brokerVars
<1>10. CASE ReaperDerives(r)
    <2>1. PICK d \in reaper[r].failed :
            reaper'[r] = [reaper[r] EXCEPT !.pc = "persist", !.verdict = Derive(d)]
        BY <1>2, <1>10 DEF ReaperDerives
    <2> QED
        BY <1>0, <1>1, <1>10, <2>1 DEF ReaperDerives, ReaperSessions, storeVars, brokerVars
<1>11. CASE ReaperPersists(r)
    <2>1. reaper'[r] = [reaper[r] EXCEPT !.pc = "batch", !.failed = {}]
        BY <1>2, <1>11 DEF ReaperPersists
    <2> QED
        BY <1>0, <1>1, <1>11, <2>1 DEF ReaperPersists, ReaperSessions, brokerVars
<1> QED
    BY <1>3, <1>4, <1>5, <1>6, <1>8, <1>9, <1>10, <1>11 DEF ReaperNext, ReaperStep

(* The locks of a scan keep each row with one reaper, and its batch is  *)
(* published at most once.                                              *)
LEMMA ReaperKeepsSingle ==
    ASSUME TypeOK, StartedInv, SingleInv, TableInv, BatchesLocked, LocksApart,
           NEW r \in Reapers, ReaperNext(r), UNCHANGED worker, NoOverlap',
           \A row \in Rows : Sent(row) => Sent(row)'
    PROVE  SingleInv' /\ BatchesLocked' /\ LocksApart'
<1>1. \A q \in Reapers \ {r} : reaper'[q] = reaper[q]
    BY BatchSteps
<1>2. \A q \in Reapers : \A step \in reaper[q].batch :
        step \in LoadedRows /\ step.row \in Rows /\ reaper[q].part \in {1, 2}
    BY DEF TypeOK, ReaperTypeOK, ReaperSessions, LoadedRows
<1>3. \A row \in Rows : Free(row) /\ UNCHANGED queue => Free(row)'
    BY DEF Free, Queued
<1>4. ASSUME UNCHANGED queue
      PROVE  SingleInv'
    BY <1>4 DEF SingleInv, NoRowWhenIdle, OneCopy, OneHolder, HeldNotQueued, At, Queued
<1>5. ASSUME NEW rows, rows \subseteq Rows, \A row \in rows : \A l \in locks : l[2] # row,
             locks' = (locks \ LocksOf(r)) \cup ({r} \X rows)
      PROVE  LocksApart'
    <2> SUFFICES ASSUME NEW k \in locks', NEW l \in locks', k[2] = l[2]
                 PROVE  k[1] = l[1]
        BY DEF LocksApart
    <2>1. \A m \in locks' : m \in locks \/ (m[1] = r /\ m[2] \in rows)
        BY <1>5
    <2> QED
        BY <1>5, <2>1 DEF LocksApart
<1>6. ASSUME NEW rows, UNCHANGED queue, locks' = (locks \ LocksOf(r)) \cup ({r} \X rows),
             NEW q \in Reapers \ {r}, NEW step \in reaper'[q].batch
      PROVE  StepLocked(q, step)'
    <2>1. reaper'[q] = reaper[q] /\ step \in reaper[q].batch
        BY <1>1, <1>6
    <2>2. <<q, step.row>> \in locks => <<q, step.row>> \in locks'
        BY <1>6 DEF LocksOf
    <2> QED
        BY <1>2, <1>3, <1>6, <2>1, <2>2 DEF BatchesLocked, StepLocked
<1>7. CASE /\ Wake(r) /\ UNCHANGED queue
           /\ reaper'[r].batch = {Loaded(row) : row \in LockableStale(InFlight)}
           /\ reaper'[r].part = 1
           /\ locks' = (locks \ LocksOf(r)) \cup ({r} \X LockableStale(InFlight))
    <2> DEFINE rows == LockableStale(InFlight)
    <2>1. rows \subseteq Rows /\ \A row \in rows : \A l \in locks : l[2] # row
        BY DEF LockableStale, TypeOK, StoreTypeOK
    <2>2. ASSUME NEW step \in reaper'[r].batch
          PROVE  StepLocked(r, step)'
        <3>1. PICK row \in rows : step = Loaded(row)
            BY <1>7, <2>2
        <3>2. step.row = row
            BY <3>1 DEF Loaded
        <3>3. \A other \in reaper'[r].batch : other = Loaded(other.row)
            BY <1>7 DEF Loaded
        <3>4. /\ step.status \in InFlight /\ ~step.exhausted
              /\ step.status = "queued" => Free(row)'
            BY <1>3, <1>7, <2>1, <3>1, ScanFinds
        <3>5. <<r, row>> \in locks'
            BY <1>7
        <3> QED
            BY <1>7, <3>1, <3>2, <3>3, <3>4, <3>5 DEF StepLocked
    <2>3. BatchesLocked'
        BY <1>6, <1>7, <2>2 DEF BatchesLocked
    <2> QED
        BY <1>4, <1>5, <1>7, <2>1, <2>3
<1>8. CASE /\ UNCHANGED queue
           /\ reaper'[r].batch = {Loaded(row) : row \in LockableStale({"awaiting_callback"})}
           /\ reaper'[r].batch # {} => reaper'[r].part = 2
           /\ locks' = (locks \ LocksOf(r)) \cup
                            ({r} \X LockableStale({"awaiting_callback"}))
    <2> DEFINE rows == LockableStale({"awaiting_callback"})
    <2>1. /\ rows \subseteq Rows
          /\ \A row \in rows : /\ \A l \in locks : l[2] # row
                               /\ status[row] = "awaiting_callback"
        BY DEF LockableStale, TypeOK, StoreTypeOK
    <2>2. ASSUME NEW step \in reaper'[r].batch
          PROVE  StepLocked(r, step)'
        <3>1. PICK row \in rows : step = Loaded(row)
            BY <1>8, <2>2
        <3>2. step.row = row /\ step.status = status[row]
            BY <3>1 DEF Loaded
        <3>3. Sent(row)'
            BY <2>1, <3>1 DEF TableInv, AwaitingSent
        <3> QED
            BY <1>8, <2>1, <2>2, <3>1, <3>2, <3>3 DEF StepLocked
    <2>3. BatchesLocked'
        BY <1>6, <1>8, <2>2 DEF BatchesLocked
    <2> QED
        BY <1>4, <1>5, <1>8, <2>1, <2>3
<1>9. CASE /\ UNCHANGED queue
           /\ locks' = locks \ LocksOf(r)
           /\ reaper'[r].batch # {} =>
                 /\ reaper'[r].batch \subseteq reaper[r].batch
                 /\ reaper'[r].part = 2 /\ reaper[r].part = 2
    <2>1. locks' = (locks \ LocksOf(r)) \cup ({r} \X {})
        BY <1>9
    <2>2. \A step \in reaper'[r].batch : StepLocked(r, step)'
        BY <1>2, <1>9 DEF BatchesLocked, StepLocked
    <2>3. BatchesLocked'
        BY <1>6, <1>9, <2>1, <2>2 DEF BatchesLocked
    <2> QED
        BY <1>4, <1>5, <1>9, <2>1, <2>3
<1>10. ASSUME UNCHANGED locks,
              reaper'[r].batch \subseteq reaper[r].batch, reaper'[r].part = reaper[r].part,
              \A q \in Reapers : \A step \in reaper'[q].batch :
                  reaper'[q].part = 1 /\ Free(step.row) => Free(step.row)'
       PROVE  BatchesLocked' /\ LocksApart'
    <2>1. ASSUME NEW q \in Reapers, NEW step \in reaper'[q].batch
          PROVE  StepLocked(q, step)'
        <3>1. /\ reaper'[q].batch \subseteq reaper[q].batch
              /\ reaper'[q].part = reaper[q].part
            BY <1>1, <1>10
        <3>2. StepLocked(q, step) /\ step.row \in Rows
            BY <1>2, <3>1 DEF BatchesLocked
        <3>3. reaper'[q].part = 1 /\ Free(step.row) => Free(step.row)'
            BY <1>10
        <3> QED
            BY <1>10, <3>1, <3>2, <3>3 DEF StepLocked
    <2>2. BatchesLocked'
        BY <2>1 DEF BatchesLocked
    <2> QED
        BY <1>10, <2>2 DEF LocksApart
<1>11. CASE /\ UNCHANGED <<queue, locks>>
            /\ reaper'[r].batch \subseteq reaper[r].batch
            /\ reaper'[r].part = reaper[r].part
    <2>1. ASSUME NEW q \in Reapers, NEW step \in reaper'[q].batch, Free(step.row)
          PROVE  Free(step.row)'
        <3>1. step.row \in Rows
            BY <1>1, <1>2, <1>11
        <3> QED
            BY <1>3, <1>11, <2>1, <3>1
    <2> QED
        BY <1>4, <1>10, <1>11, <2>1
<1>12. ASSUME NEW step \in reaper[r].batch,
              reaper[r].part = 1, step.status = "queued", step \notin reaper'[r].batch,
              Publish({step.row}), UNCHANGED locks,
              reaper'[r].batch \subseteq reaper[r].batch, reaper'[r].part = reaper[r].part
       PROVE  SingleInv' /\ BatchesLocked' /\ LocksApart'
    <2>1. Free(step.row) /\ <<r, step.row>> \in locks
        BY <1>12 DEF BatchesLocked, StepLocked
    <2>2. SingleInv'
        BY <1>2, <1>12, <2>1, PublishKeepsSingle DEF At
    <2>3. ASSUME NEW q \in Reapers, NEW other \in reaper'[q].batch,
                 reaper'[q].part = 1, Free(other.row)
          PROVE  Free(other.row)'
        <3>1. other \in reaper[q].batch /\ reaper[q].part = 1
            BY <1>1, <1>12, <2>3
        <3>2. other.row # step.row
            <4>1. CASE q = r
                BY <1>12, <2>3, <3>1, <4>1 DEF BatchesLocked, StepLocked
            <4>2. CASE q # r
                BY <2>1, <3>1, <4>2 DEF BatchesLocked, StepLocked, LocksApart
            <4> QED
                BY <4>1, <4>2
        <3>3. Queued(other.row)' => Queued(other.row)
            BY <1>2, <1>12, <3>1, <3>2, PublishQueues
        <3> QED
            BY <2>3, <3>3 DEF Free
    <2>4. BatchesLocked' /\ LocksApart'
        BY <1>10, <1>12, <2>3
    <2> QED
        BY <2>2, <2>4
<1> QED
    BY <1>7, <1>8, <1>9, <1>11, <1>12, BatchSteps

(* A reaper's batch is out of reach of the other actors. *)
LEMMA BatchesKept ==
    ASSUME TypeOK, StartedInv, BatchesLocked, LocksApart, UNCHANGED <<reaper, locks>>,
           \A row \in Rows : Sent(row) => Sent(row)',
           \A row \in Rows : Started(row) /\ Free(row) => Free(row)'
    PROVE  BatchesLocked' /\ LocksApart'
<1>1. ASSUME NEW r \in Reapers, NEW step \in reaper'[r].batch
      PROVE  StepLocked(r, step)'
    <2>1. StepLocked(r, step) /\ step.row \in Rows /\ Started(step.row)
        BY DEF BatchesLocked, TypeOK, ReaperTypeOK, ReaperSessions, LoadedRows, StartedInv,
               ReapersStarted
    <2> QED
        BY <2>1 DEF StepLocked
<1> QED
    BY <1>1 DEF BatchesLocked, LocksApart

(* An upload publishes for rows that were never started. *)
LEMMA UploadKeepsSingle ==
    ASSUME TypeOK, StartedInv, SingleInv, NEW d \in Docs, Upload(d), UNCHANGED worker
    PROVE  SingleInv' /\ \A row \in Rows : Started(row) /\ Free(row) => Free(row)'
<1> DEFINE rows == {d} \X EntryNodes
<1>1. rows \in SUBSET Rows
    BY DEF Rows, EntryNodes
<1>2. \A row \in Rows : row[1] = d => ~Started(row)
    BY DEF Upload, StartedInv, RowsStarted
<1>3. \A row \in rows : Free(row) /\ ~Started(row)
    BY <1>1, <1>2, UnstartedFree
<1>4. Publish(rows)
    BY DEF Upload
<1>5. SingleInv'
    BY <1>1, <1>3, <1>4, PublishKeepsSingle DEF At
<1>6. ASSUME NEW row \in Rows, Started(row), Free(row)
      PROVE  Free(row)'
    <2>1. Queued(row)' => Queued(row)
        BY <1>1, <1>3, <1>4, <1>6, PublishQueues
    <2> QED
        BY <1>6, <2>1 DEF Free
<1> QED
    BY <1>5, <1>6

(* A request holds documents whose job id is saved: it found them by    *)
(* that id.                                                             *)
LEMMA HooksStaySent ==
    ASSUME TypeOK, HooksSent, [Next]_vars, \A row \in Rows : Sent(row) => Sent(row)'
    PROVE  HooksSent'
<1> SUFFICES ASSUME NEW h \in Hooks, NEW d \in hook'[h].docs
             PROVE  Sent(<<d, ExternalCall>>)'
    BY DEF HooksSent
<1>1. CASE d \in hook[h].docs
    <2>1. <<d, ExternalCall>> \in Rows /\ Sent(<<d, ExternalCall>>)
        BY <1>1, RowParts DEF TypeOK, HookTypeOK, HookSessions, HooksSent
    <2> QED
        BY <2>1
<1>2. CASE d \notin hook[h].docs
    <2>1. \/ hook'[h] = IdleHook
          \/ \E j \in Jobs : hook'[h].docs \subseteq DocsOfJob(j)
        BY <1>2, HookMoves DEF Next, vars
    <2>2. PICK j \in Jobs : d \in DocsOfJob(j)
        BY <2>1 DEF IdleHook
    <2>3. Sent(<<d, ExternalCall>>) /\ <<d, ExternalCall>> \in Rows
        BY <2>2, RowParts, StoreAssumption DEF DocsOfJob, Sent
    <2> QED
        BY <2>3
<1> QED
    BY <1>1, <1>2

----
(* The delivery counts. *)
CountsExplained ==
    \A row \in Rows :
        /\ \A n \in 0..MaxAttempts : queue[row][n] > 0 => n <= attempts[row] + crashes
        /\ \A w \in Workers :
              ~At(w, "idle") /\ worker[w].row = row => worker[w].count <= attempts[row] + crashes

(* A copy is queued afresh, or by a worker whose step failed or that    *)
(* crashed.                                                             *)
LEMMA CopiesCome ==
    ASSUME TypeOK, [Next]_vars, NoOverlap', NEW row \in Rows, NEW n \in 0..MaxAttempts,
           queue'[row][n] > 0
    PROVE  \/ queue[row][n] > 0
           \/ n = 0
           \/ \E w \in Workers :
                /\ ~At(w, "idle") /\ worker[w].row = row /\ n = worker[w].count + 1
                /\ StepFails(w) \/ WorkerCrashes(w)
<1>0. /\ queue[row] \in [0..MaxAttempts -> Nat] /\ 0 \in 0..MaxAttempts
      /\ queue \in [Rows -> [0..MaxAttempts -> Nat]]
    BY QueueCounts DEF TypeOK, BrokerTypeOK
<1>1. ASSUME NEW rows \in SUBSET Rows, Publish(rows)
      PROVE  queue[row][n] > 0 \/ n = 0
    <2>1. queue'[row] = [queue[row] EXCEPT ![0] = @ + 1] \/ queue'[row] = queue[row]
        BY <1>1 DEF Publish
    <2> QED
        BY <1>0, <2>1
<1>2. ASSUME NEW other \in Rows, NEW m \in 0..MaxAttempts, Take(other, m)
      PROVE  queue[row][n] > 0
    <2>1. /\ other # row => queue'[row] = queue[row]
          /\ other = row => queue'[row] = [queue[row] EXCEPT ![m] = @ - 1]
        BY <1>0, <1>2 DEF Take
    <2>2. CASE other = row /\ m = n
        BY <1>2, <2>2 DEF Take
    <2>3. CASE ~(other = row /\ m = n)
        BY <1>0, <2>1, <2>3
    <2> QED
        BY <2>2, <2>3
<1>3. ASSUME NEW w \in Workers, ~At(w, "idle"), GiveBack(w)
      PROVE  \/ queue[row][n] > 0
             \/ worker[w].row = row /\ n = worker[w].count + 1
    <2>1. worker[w].row \in Rows /\ worker[w].count \in 0..MaxAttempts
        BY <1>3, WorkerMoves
    <2>2. CASE UNCHANGED queue
        BY <2>2
    <2>3. CASE Requeue(worker[w].row, worker[w].count) /\ ~UNCHANGED queue
        <3>1. queue' = [queue EXCEPT ![worker[w].row] =
                          [queue[worker[w].row] EXCEPT ![worker[w].count + 1] = @ + 1]]
            BY <2>3 DEF Requeue
        <3>2. /\ worker[w].row # row => queue'[row] = queue[row]
              /\ worker[w].row = row =>
                    queue'[row] = [queue[row] EXCEPT ![worker[w].count + 1] = @ + 1]
            BY <1>0, <2>1, <3>1
        <3> QED
            BY <1>0, <3>2
    <2> QED
        BY <1>3, <2>2, <2>3 DEF GiveBack
<1>4. ASSUME NEW w \in Workers, WorkerNext(w)
      PROVE  \/ queue[row][n] > 0
             \/ n = 0
             \/ /\ ~At(w, "idle") /\ worker[w].row = row /\ n = worker[w].count + 1
                /\ StepFails(w) \/ WorkerCrashes(w)
    <2>1. CASE Deliver(w)
        BY <1>2, <2>1 DEF Deliver
    <2>2. CASE ClaimNext(w)
        <3>1. PICK s \in worker[w].todo : ClaimAndPublish(<<DocOf(w), s>>)
            BY <2>2 DEF ClaimNext
        <3>2. <<DocOf(w), s>> \in Rows
            BY <2>2, WorkerMoves, RowParts
            DEF ClaimNext, At, TypeOK, WorkerTypeOK, WorkerSessions
        <3> QED
            BY <1>1, <3>1, <3>2 DEF ClaimAndPublish
    <2>3. CASE StepFails(w) \/ WorkerCrashes(w)
        <3>1. ~At(w, "idle") /\ (UNCHANGED queue \/ GiveBack(w))
            BY <2>3 DEF StepFails, WorkerCrashes, At
        <3> QED
            BY <1>3, <2>3, <3>1
    <2>4. ~LoseConnection(w)
        BY DEF LoseConnection, NoOverlap, TypeOK, TransitionTypeOK
    <2> QED
        BY <1>4, <2>1, <2>2, <2>3, <2>4
        DEF WorkerNext, WorkerStep, CheckDocument, MarkRunning, SaveOutput, CallPartner,
            SaveJob, ReadReady, WorkerDerives, WorkerPersists, Acknowledge, brokerVars
<1>5. ASSUME NEW r \in Reapers, ReaperNext(r)
      PROVE  queue[row][n] > 0 \/ n = 0
    <2>1. CASE Republish(r)
        <3>1. PICK step \in reaper[r].batch : Publish({step.row})
            BY <2>1 DEF Republish
        <3>2. step.row \in Rows
            BY DEF TypeOK, ReaperTypeOK, ReaperSessions, LoadedRows
        <3> QED
            BY <1>1, <3>1, <3>2
    <2> QED
        BY <1>5, <2>1
        DEF ReaperNext, Wake, ReaperStep, ScanInFlight, ScanCallbacks, Scan, EndIteration,
            Fail, LeaveRunning, ReaperDerives, ReaperPersists, ReaperCrashes, brokerVars
<1>6. ASSUME NEW d \in Docs, Upload(d)
      PROVE  queue[row][n] > 0 \/ n = 0
    <2>1. {d} \X EntryNodes \in SUBSET Rows
        BY DEF Rows, EntryNodes
    <2> QED
        BY <1>1, <1>6, <2>1 DEF Upload
<1>7. ASSUME NEW h \in Hooks, HookNext(h)
      PROVE  UNCHANGED queue
    BY <1>7
    DEF HookNext, HookStep, Receive, Apply, HookDerives, HookPersists, HookCrashes, brokerVars
<1> QED
    BY <1>4, <1>5, <1>6, <1>7 DEF Next, Age, brokerVars, vars

(* Attempts only grow, and a copy returns with a counted failure or a   *)
(* crash.                                                               *)
LEMMA CountsKept ==
    ASSUME TypeOK, StartedInv, SingleInv, SessionsFresh, CountsExplained,
           [Next]_vars, NoOverlap', \A row \in Rows : RowChanges(row)
    PROVE  CountsExplained'
<1> SUFFICES ASSUME NEW row \in Rows
             PROVE  /\ \A n \in 0..MaxAttempts :
                          queue'[row][n] > 0 => n <= attempts'[row] + crashes'
                    /\ \A v \in Workers : ~At(v, "idle")' /\ worker'[v].row = row =>
                          worker'[v].count <= attempts'[row] + crashes'
    BY DEF CountsExplained
<1>1. /\ attempts[row] \in Nat /\ crashes \in Nat /\ crashes' \in {crashes, crashes + 1}
      /\ \A n \in 0..MaxAttempts : n \in Nat
    BY FaultsCounted DEF TypeOK, StoreTypeOK, TransitionTypeOK
<1>2. /\ attempts'[row] \in {attempts[row], attempts[row] + 1}
    <2>1. \A w \in Workers : worker[w].row = row /\ HandlerWrites(w, row) =>
            attempts'[row] \in {attempts[row], attempts[row] + 1}
        BY DEF HandlerWrites, Kept, SessionsFresh, Undecided, At
    <2> QED
        BY <2>1 DEF RowChanges, Kept
<1>3. ASSUME NEW n \in 0..MaxAttempts, queue'[row][n] > 0
      PROVE  n <= attempts'[row] + crashes'
    <2>1. CASE queue[row][n] > 0 \/ n = 0
        <3>1. n <= attempts[row] + crashes
            BY <1>1, <2>1 DEF CountsExplained
        <3> QED
            BY <1>1, <1>2, <3>1
    <2>2. ASSUME NEW w \in Workers, ~At(w, "idle"), worker[w].row = row,
                 n = worker[w].count + 1, StepFails(w) \/ WorkerCrashes(w)
          PROVE  n <= attempts'[row] + crashes'
        <3>1. worker[w].count <= attempts[row] + crashes /\ worker[w].count \in Nat
            BY <2>2, WorkerMoves DEF CountsExplained
        <3>2. CASE WorkerCrashes(w)
            <4>1. crashes' = crashes + 1
                BY <3>2 DEF WorkerCrashes, Crash
            <4> QED
                BY <1>1, <1>2, <2>2, <3>1, <4>1
        <3>3. CASE StepFails(w)
            <4>1. attempts'[row] = attempts[row] + 1
                BY <2>2, <3>3
                DEF StepFails, SessionsFresh, Undecided, At, TypeOK, StoreTypeOK
            <4> QED
                BY <1>1, <2>2, <3>1, <4>1
        <3> QED
            BY <2>2, <3>2, <3>3
    <2> QED
        BY <1>3, <2>1, <2>2, CopiesCome
<1>4. ASSUME NEW v \in Workers, ~At(v, "idle")', worker'[v].row = row
      PROVE  worker'[v].count <= attempts'[row] + crashes'
    <2>1. CASE /\ ~At(v, "idle") /\ worker[v].row = row
               /\ worker'[v].count = worker[v].count
        <3>1. worker[v].count <= attempts[row] + crashes /\ worker[v].count \in Nat
            BY <2>1, WorkerMoves DEF CountsExplained
        <3> QED
            BY <1>1, <1>2, <2>1, <3>1
    <2>2. CASE Deliver(v)
        <3>1. PICK other \in Rows, n \in 0..MaxAttempts :
                /\ Take(other, n)
                /\ \/ UNCHANGED worker
                   \/ worker'[v].row = other /\ worker'[v].count = n
            BY <2>2, Delivers
        <3>2. other = row /\ worker'[v].count = n /\ queue[row][n] > 0
            BY <1>4, <2>2, <3>1 DEF Deliver, At, Take
        <3>3. n <= attempts[row] + crashes
            BY <3>2 DEF CountsExplained
        <3> QED
            BY <1>1, <1>2, <3>2, <3>3
    <2>3. CASE ~WorkerNext(v)
        <3>1. worker'[v] = worker[v]
            BY <2>3, OwnStep
        <3> QED
            BY <1>4, <2>1, <3>1 DEF At
    <2>4. CASE ~At(v, "idle") /\ Stays(v)
        BY <1>4, <2>1, <2>4 DEF Stays, KeepsMessage
    <2>5. CASE Finish(v)
        BY <1>4, <2>5, Finishes DEF At, IdleWorker
    <2> QED
        BY <2>2, <2>3, <2>4, <2>5, WorkerHandles
<1> QED
    BY <1>3, <1>4

----
(* The calls of the partner. *)

(* A call is under way, or its job id is saved. *)
Calling(d) ==
    jobId[d] # NoJob \/ \E w \in Workers : At(w, "called") /\ DocOf(w) = d

(* Every other call was cut short by a crash. *)
CallsCounted ==
    \A d \in Docs :
        /\ IsFiniteSet(Issued(d))
        /\ Cardinality(Issued(d)) <= crashes + (IF Calling(d) THEN 1 ELSE 0)

(* Only a worker that is calling adds a job, one. *)
LEMMA JobsIssued ==
    ASSUME TypeOK, [Next]_vars, NEW d \in Docs, Issued(d)' # Issued(d)
    PROVE  \E w \in Workers :
                CallPartner(w) /\ DocOf(w) = d /\ \E j \in Jobs : Issued(d)' = Issued(d) \cup {j}
<1>1. PICK w \in Workers : CallPartner(w) /\ WorkerNext(w)
    <2>1. ~UNCHANGED jobDoc
        BY DEF Issued
    <2> QED
        BY <2>1
        DEF Next, Upload, Age, WorkerNext, WorkerStep, Deliver, CheckDocument, MarkRunning,
            SaveOutput, SaveJob, StepFails, ReadReady, ClaimNext, WorkerDerives,
            WorkerPersists, Acknowledge, WorkerCrashes, LoseConnection, HookNext, HookStep,
            Receive, Apply, HookDerives, HookPersists, HookCrashes, ReaperNext, Wake,
            ReaperStep, ScanInFlight, ScanCallbacks, Scan, EndIteration, Fail, Republish,
            LeaveRunning, ReaperDerives, ReaperPersists, ReaperCrashes, partnerVars, vars
<1>2. PICK j \in Jobs : StartJob(DocOf(w), j)
    BY <1>1 DEF CallPartner
<1>3. DocOf(w) = d /\ Issued(d)' = Issued(d) \cup {j}
    <2>1. DocOf(w) # d => Issued(d)' = Issued(d)
        BY <1>2, PartnerAssumption DEF StartJob, Issued, TypeOK, PartnerTypeOK
    <2>2. DocOf(w) = d => Issued(d)' = Issued(d) \cup {j}
        BY <1>2, PartnerAssumption DEF StartJob, Issued, TypeOK, PartnerTypeOK
    <2> QED
        BY <2>1, <2>2
<1> QED
    BY <1>1, <1>3

(* A worker that runs the external call finds no saved job id, and no   *)
(* other worker that calls for its document.                            *)
LEMMA CallsAlone ==
    ASSUME TypeOK, StartedInv, SingleInv, SessionsFresh, TableInv,
           NEW w \in Workers, CallPartner(w)
    PROVE  ~Calling(DocOf(w))
<1>1. /\ worker[w].row \in Rows /\ worker[w].row = <<DocOf(w), ExternalCall>>
      /\ ~At(w, "idle") /\ worker[w].pc = "run"
    BY WorkerMoves DEF CallPartner, At
<1>2. jobId[DocOf(w)] = NoJob
    BY <1>1 DEF SessionsFresh, Undecided, TableInv, SentSettled, Sent
<1>3. ASSUME NEW v \in Workers, At(v, "called"), DocOf(v) = DocOf(w)
      PROVE  FALSE
    <2>1. worker[v].row = <<DocOf(v), ExternalCall>> /\ ~At(v, "idle")
        BY <1>3, WorkerMoves DEF At, StartedInv, CallersStarted
    <2> QED
        BY <1>1, <1>3, <2>1 DEF SingleInv, OneHolder, At
<1> QED
    BY <1>2, <1>3 DEF Calling

(* A call ends with its job id saved, or with a crash. *)
LEMMA CallsEnd ==
    ASSUME TypeOK, StartedInv, ReadyInv, [Next]_vars, NEW d \in Docs, Calling(d),
           ~Calling(d)', NoOverlap', \A row \in Rows : Sent(row) => Sent(row)'
    PROVE  crashes' = crashes + 1
<1>1. jobId[d] = NoJob
    <2>1. <<d, ExternalCall>> \in Rows
        BY RowParts
    <2>2. jobId[d] # NoJob => jobId'[d] # NoJob
        BY <2>1 DEF Sent
    <2> QED
        BY <2>2 DEF Calling
<1>2. PICK w \in Workers : At(w, "called") /\ DocOf(w) = d
    BY <1>1 DEF Calling
<1>3. ~(worker'[w].pc = "called" /\ worker'[w].row = worker[w].row)
    BY <1>2 DEF Calling, At, DocOf
<1>4. WorkerNext(w)
    BY <1>2, <1>3, OwnStep DEF At
<1>5. ~SaveJob(w)
    <2> SUFFICES ASSUME SaveJob(w) PROVE FALSE
        OBVIOUS
    <2>1. worker[w].job # NoJob
        BY <1>2, StoreAssumption DEF ReadyInv, CallsMatch
    <2>2. jobId'[d] # NoJob
        BY <1>2, <2>1 DEF SaveJob, TypeOK, StoreTypeOK
    <2> QED
        BY <2>2 DEF Calling
<1>6. ~LoseConnection(w)
    BY DEF LoseConnection, NoOverlap, TypeOK, TransitionTypeOK
<1> QED
    BY <1>2, <1>4, <1>5, <1>6
    DEF WorkerNext, WorkerStep, Deliver, CheckDocument, MarkRunning, SaveOutput, CallPartner,
        StepFails, ReadReady, ClaimNext, WorkerDerives, WorkerPersists, Acknowledge,
        WorkerCrashes, Crash, At

(* The count holds. *)
LEMMA CallsKept ==
    ASSUME TypeOK, StartedInv, ReadyInv, SingleInv, SessionsFresh, TableInv, CallsCounted,
           [Next]_vars, NoOverlap', \A row \in Rows : Sent(row) => Sent(row)'
    PROVE  CallsCounted'
<1> SUFFICES ASSUME NEW d \in Docs
             PROVE  /\ IsFiniteSet(Issued(d)')
                    /\ Cardinality(Issued(d)') <= crashes' + (IF Calling(d)' THEN 1 ELSE 0)
    BY DEF CallsCounted
<1>1. /\ IsFiniteSet(Issued(d)) /\ Cardinality(Issued(d)) \in Nat
      /\ Cardinality(Issued(d)) <= crashes + (IF Calling(d) THEN 1 ELSE 0)
      /\ crashes \in Nat /\ crashes' \in {crashes, crashes + 1}
    BY FS_CardinalityType, FaultsCounted DEF CallsCounted, TypeOK, TransitionTypeOK
<1>2. CASE Issued(d)' = Issued(d)
    <2>1. Calling(d) => Calling(d)' \/ crashes' = crashes + 1
        BY CallsEnd
    <2> QED
        BY <1>1, <1>2, <2>1
<1>3. CASE Issued(d)' # Issued(d)
    <2>1. PICK w \in Workers, j \in Jobs :
            CallPartner(w) /\ DocOf(w) = d /\ Issued(d)' = Issued(d) \cup {j}
        BY <1>3, JobsIssued
    <2>2. ~Calling(d)
        BY <2>1, CallsAlone
    <2>3. Calling(d)'
        <3>1. worker'[w].pc = "called" /\ worker'[w].row = worker[w].row
            BY <2>1, Calls DEF KeepsMessage
        <3> QED
            BY <2>1, <3>1 DEF Calling, At, DocOf
    <2>4. IsFiniteSet(Issued(d)') /\ Cardinality(Issued(d)') <= Cardinality(Issued(d)) + 1
        <3>1. /\ IsFiniteSet(Issued(d) \cup {j})
              /\ Cardinality(Issued(d) \cup {j}) \in
                    {Cardinality(Issued(d)), Cardinality(Issued(d)) + 1}
            BY <1>1, FS_AddElement
        <3> QED
            BY <1>1, <2>1, <3>1
    <2>5. Cardinality(Issued(d)') \in Nat
        BY <2>4, FS_CardinalityType
    <2> QED
        BY <1>1, <2>2, <2>3, <2>4, <2>5
<1> QED
    BY <1>2, <1>3

----
(* The invariant: it is inductive as long as nothing overlaps, and each *)
(* part leans on the others. A row is written by the one worker that    *)
(* has its message, because reapers publish only what is free, because  *)
(* what they loaded is locked; and so on.                               *)
DeliveryInv ==
    /\ SingleInv /\ SessionsFresh /\ TableInv
    /\ HooksSent /\ BatchesLocked /\ LocksApart
    /\ CountsExplained /\ CallsCounted

(* Nothing is sent, held, loaded or counted at first. *)
LEMMA InitDelivery == Init => DeliveryInv
<1> SUFFICES ASSUME Init
             PROVE  DeliveryInv
    OBVIOUS
<1>1. SingleInv /\ SessionsFresh
    BY DEF Init, WorkerInit, IdleWorker, BrokerInit, SingleInv, NoRowWhenIdle, OneCopy,
           OneHolder, HeldNotQueued, SessionsFresh, Undecided, At
<1>2. TableInv
    <2>1. \A row \in Rows : ~Sent(row)
        BY DEF Init, StoreInit, Sent, Rows
    <2>2. \A row \in Rows : ~(attempts[row] >= MaxAttempts) /\ status[row] = "pending"
        BY BrokerAssumption DEF Init, StoreInit
    <2> QED
        BY <2>1, <2>2 DEF TableInv, SentSettled, AwaitingSent, ExhaustedFailed
<1>3. HooksSent /\ BatchesLocked /\ LocksApart
    BY DEF Init, HookInit, IdleHook, ReaperInit, IdleReaper, StoreInit, HooksSent,
           BatchesLocked, LocksApart
<1>4. CountsExplained
    BY DEF Init, BrokerInit, WorkerInit, IdleWorker, CountsExplained, At
<1>5. CallsCounted
    <2>1. \A d \in Docs : Issued(d) = {} /\ ~Calling(d)
        BY PartnerAssumption
        DEF Init, PartnerInit, StoreInit, WorkerInit, IdleWorker, Issued, Calling, At
    <2>2. crashes = 0
        BY DEF Init, TransitionInit
    <2> QED
        BY <2>1, <2>2, FS_EmptySet DEF CallsCounted
<1> QED
    BY <1>1, <1>2, <1>3, <1>4, <1>5 DEF DeliveryInv

(* Every step keeps it. *)
LEMMA NextKeepsDelivery ==
    ASSUME TypeOK, StartedInv, ReadyInv, DeliveryInv, [Next]_vars, NoOverlap'
    PROVE  /\ DeliveryInv'
           /\ \A row \in Rows : RowChanges(row) /\ (Sent(row) => Sent(row)')
<1> USE DEF DeliveryInv
<1>1. \A row \in Rows : RowChanges(row)
    BY TableChanges
<1>2. TableInv' /\ \A row \in Rows : Sent(row) => Sent(row)'
    BY <1>1, TableKept DEF SingleInv
<1>3. SessionsFresh' /\ CountsExplained'
    BY <1>1, SessionsStayFresh, CountsKept
<1>4. HooksSent' /\ CallsCounted'
    BY <1>2, HooksStaySent, CallsKept
<1>5. SingleInv' /\ BatchesLocked' /\ LocksApart'
    <2>1. ASSUME NEW w \in Workers, WorkerNext(w), UNCHANGED <<hook, reaper, backlogs>>
          PROVE  SingleInv' /\ BatchesLocked' /\ LocksApart'
        <3>1. \A row \in Rows : Started(row) /\ Free(row) => Free(row)'
            BY <2>1, WorkerKeepsFree
        <3>2. UNCHANGED <<reaper, locks>>
            BY <2>1
            DEF WorkerNext, WorkerStep, Deliver, CheckDocument, MarkRunning, SaveOutput,
                CallPartner, SaveJob, StepFails, ReadReady, ClaimNext, WorkerDerives,
                WorkerPersists, Acknowledge, WorkerCrashes, LoseConnection, storeVars
        <3> QED
            BY <1>2, <2>1, <3>1, <3>2, WorkerKeepsSingle, BatchesKept
    <2>2. ASSUME NEW r \in Reapers, ReaperNext(r), UNCHANGED <<worker, hook>>
          PROVE  SingleInv' /\ BatchesLocked' /\ LocksApart'
        BY <1>2, <2>2, ReaperKeepsSingle
    <2>3. ASSUME NEW d \in Docs, Upload(d), UNCHANGED <<worker, reaper>>
          PROVE  SingleInv' /\ BatchesLocked' /\ LocksApart'
        <3>1. UNCHANGED <<reaper, locks>>
            BY <2>3 DEF Upload
        <3> QED
            BY <1>2, <2>3, <3>1, UploadKeepsSingle, BatchesKept
    <2>4. CASE UNCHANGED <<worker, reaper, locks, queue>>
        <3>1. SingleInv' /\ \A row \in Rows : Free(row) => Free(row)'
            BY <2>4
            DEF SingleInv, NoRowWhenIdle, OneCopy, OneHolder, HeldNotQueued, At, Queued, Free
        <3> QED
            BY <1>2, <2>4, <3>1, BatchesKept
    <2>5. ASSUME NEW h \in Hooks, HookNext(h), UNCHANGED <<worker, reaper, backlogs>>
          PROVE  UNCHANGED <<worker, reaper, locks, queue>>
        BY <2>5
        DEF HookNext, HookStep, Receive, Apply, HookDerives, HookPersists, HookCrashes,
            storeVars, brokerVars
    <2> QED
        BY <2>1, <2>2, <2>3, <2>4, <2>5 DEF Next, Age, vars, storeVars, brokerVars
<1> QED
    BY <1>1, <1>2, <1>3, <1>4, <1>5

(* So it holds in every state without an overlap. *)
LEMMA DeliveryAlways == Spec => [](NoOverlap => DeliveryInv)
<1>1. TypeOK /\ StartedInv /\ ReadyInv /\ (NoOverlap => DeliveryInv) /\ [Next]_vars
        => (NoOverlap => DeliveryInv)'
    BY FaultsCounted, NextKeepsDelivery
<1>2. Init => (NoOverlap => DeliveryInv)
    BY InitDelivery
<1> QED
    BY <1>1, <1>2, TypeCorrect, ReadyAlways, PTL DEF Spec

(* A row has one delivery at a time, for every constant: its message is *)
(* not queued twice, not with two workers, and not both, whatever was   *)
(* lost, returned, crashed or republished by however many reapers.      *)
THEOREM DeliveredOnce == Spec => []SingleDelivery
<1>1. TypeOK /\ (NoOverlap => DeliveryInv) => SingleDelivery
    <2> SUFFICES ASSUME TypeOK, DeliveryInv
                 PROVE  NoOverlap => SingleDelivery
        BY DEF SingleDelivery
    <2>1. \A w \in Workers : worker[w].row \in Rows => ~At(w, "idle")
        BY NoRowIsNoRow DEF DeliveryInv, SingleInv, NoRowWhenIdle
    <2> QED
        BY <2>1 DEF DeliveryInv, SingleInv, OneCopy, OneHolder, HeldNotQueued, SingleDelivery
<1> QED
    BY <1>1, DeliveryAlways, TypeCorrect, PTL

(* The budget of attempts, for every constant: the row's counter        *)
(* decides, and the broker's delivery limit is the backstop of crashes. *)
THEOREM AttemptsDecide == Spec => []RetryBudget
<1>1. TypeOK /\ (NoOverlap => DeliveryInv) => RetryBudget
    <2> SUFFICES ASSUME TypeOK, DeliveryInv
                 PROVE  NoOverlap => RetryBudget
        BY DEF RetryBudget
    <2>1. \A w \in Workers : worker[w].row \in Rows => ~At(w, "idle")
        BY NoRowIsNoRow DEF DeliveryInv, SingleInv, NoRowWhenIdle
    <2> QED
        BY <2>1 DEF DeliveryInv, TableInv, ExhaustedFailed, CountsExplained, RetryBudget
<1> QED
    BY <1>1, DeliveryAlways, TypeCorrect, PTL

(* The partner gets one job for a document and one more for each crash, *)
(* for every constant: retries and republished messages do not call it  *)
(* again.                                                               *)
THEOREM CalledOnce == Spec => []CallsBounded
<1>1. TypeOK /\ (NoOverlap => DeliveryInv) => CallsBounded
    <2> SUFFICES ASSUME TypeOK, DeliveryInv, NEW d \in Docs
                 PROVE  Cardinality(Issued(d)) <= 1 + crashes
        BY DEF CallsBounded
    <2>1. /\ Cardinality(Issued(d)) \in Nat /\ crashes \in Nat
          /\ Cardinality(Issued(d)) <= crashes + (IF Calling(d) THEN 1 ELSE 0)
        BY FS_CardinalityType DEF DeliveryInv, CallsCounted, TypeOK, TransitionTypeOK
    <2> QED
        BY <2>1
<1> QED
    BY <1>1, DeliveryAlways, TypeCorrect, PTL

(* And none once a job id is saved: only a worker that found the row    *)
(* RUNNING calls, and the row of a saved id is past that.               *)
THEOREM SavedCallIsLast == Spec => NoCallAfterSave
<1>1. TypeOK /\ StartedInv /\ (NoOverlap => DeliveryInv) /\ [Next]_vars
        => [\A d \in Docs : NoOverlap /\ jobId[d] # NoJob => Issued(d)' = Issued(d)]_vars
    <2> SUFFICES ASSUME TypeOK, StartedInv, DeliveryInv, [Next]_vars, NEW d \in Docs,
                        jobId[d] # NoJob, Issued(d)' # Issued(d)
                 PROVE  FALSE
        OBVIOUS
    <2>1. PICK w \in Workers : CallPartner(w) /\ DocOf(w) = d
        BY JobsIssued
    <2> QED
        BY <2>1, CallsAlone DEF DeliveryInv, Calling
<1> QED
    BY <1>1, DeliveryAlways, ReadyAlways, TypeCorrect, PTL DEF Spec, NoCallAfterSave

====
