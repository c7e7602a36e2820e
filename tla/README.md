# Document pipeline: TLA+ models and proofs

The repository is a backend that takes uploaded documents through a small
pipeline (`ocr`, then `metadata` and `chunking`, then `external_call`) run by
worker processes over RabbitMQ, with PostgreSQL as the only durable state, a
partner that answers `external_call` on a signed webhook, and a reaper that looks
for steps nobody moves any more. This directory holds a specification of that
machinery, TLC configurations that check it on small instances, and theorems
checked by TLAPS for every value of the constants.

## 1. Inventory

| Component | State | Operations | Talks to |
|---|---|---|---|
| dependency graph (`app/pipeline/dag.py`) | constant `PREDECESSORS` | validate, `entry_nodes`, `ready_successors` | transitioner, upload |
| store (`app/models.py`, `app/transactions.py`, `app/db.py`) | `document.status`; per step `status`, `attempts`, `result`, `external_job_id`, `updated_at`; row locks | `claim_pending_step`, `lock_stale_steps`, `step_status_map`, `get_step_by_job_id`, updates by primary key | everyone |
| broker (`app/worker/broker.py`, `app/pipeline/publisher.py`) | one quorum queue per step, delivery counts, dead-letter queue | publish, deliver, ack, nack, redeliver | upload, worker, reaper |
| transitioner (`app/pipeline/transition.py`) | none of its own | `derive_document_status`, `claim_step`, `trigger_successors`, `recompute_document_status` | store, broker |
| worker (`app/worker/main.py`, `app/pipeline/handlers.py`, `steps.py`) | a message in hand, a session with rows loaded once | `handle`, `_on_failure`, `save_output`, the consumer callback | all of the above, partner |
| partner webhook (`app/api/webhooks.py`, `routes_impl/webhooks.py`, `webhook_security.py`) | a request's session | verify, `apply_partner_result` | store, transitioner |
| reaper (`app/worker/reaper.py`) | a session, its batch, its locks | `run_once` (two parts), `_fail`, `main` | store, broker, transitioner |
| upload, detail (`routes_impl/documents.py`) | none | `create_document`, `get_document_detail` | store, broker, storage |
| event stream (`app/events/notify.py`, `app/api/events.py`, `app/main.py`) | listener thread, subscribed queues of bounded length | NOTIFY with a commit, dispatch, subscribe, snapshot, send | store; everyone who changes a status |
| listing (`app/pagination.py`, `transactions.list_org_documents`, `app/api/documents.py`) | none; the client holds a cursor | a keyset page | store, authentication |
| authentication (`app/auth.py`, `app/api/auth.py`) | none; the client holds a token that expires | login, `get_current_user` | store |
| file storage (`app/storage.py`) | files | `save` | upload |
| configuration, seed, migrations | environment, tables | wiring | |

What makes it hard:

* **One process per session, and no lock spans two commits.** A handler loads its
  rows once (`expire_on_commit` is off), commits several times and writes by
  primary key; whatever another session committed in between is overwritten.
* **At-least-once delivery.** A message returns when a worker dies, when the
  handler nacks, and when the broker closes the connection of a worker that is
  merely slow; the reaper may publish a second copy of a message that is late.
* **Commit, then publish; commit, then recompute; call the partner, then commit.**
  A process may die between the two halves of each pair.
* **Two ends for the external call**, the webhook and the reaper's timeout, decided
  on a status read earlier.
* **Two channels to a client**: a snapshot read from the tables and a stream of deltas that
  were queued meanwhile, over a listener that may start late, die, or find the queue full.
* **Paging while others write**: timestamps are taken when a transaction starts, tie, and
  become visible in another order; cursors carry no tenant.
* **Fan-in**: `metadata` and `chunking` finish together, and `external_call` must be
  queued exactly once.

What makes each part correct: the graph never lets a step start early; a claim is won
once; a message is neither lost for ever nor, as long as nothing overlaps, in two
hands; a document is READY only on a signed report for a job of its own; its stored
status agrees with its steps when nobody works on it (only which of two outcomes of one call,
a report and its timeout, is recorded last is left open); every document ends READY or FAILED; a client that missed no event knows what the tables say; a walk through the pages
shows every document of the client's organisation once, and of no other. `PROJECT.json` lists the hazards with their lines and the properties aimed
at them.

## 2. Modules

```
Dag -> Store -> Broker -> Transition -> Worker, Webhook, Reaper, Documents -> Pipeline
          \--> Partner ----------------/                                        |
StepMachine (abstract) <------------- INSTANCE (StepsFollowLifecycle) ----------+
Pipeline -> MCPipeline (TLC)
Pipeline -> PipelineProofs -> SafetyProofs -> ReadyProofs
                           -> DeliveryProofs -> LifecycleProofs (TLAPS)
Pipeline -> EventStream -> MCEventStream (TLC)
EventStream, LifecycleProofs -> StreamProofs (TLAPS)
Listing  -> MCListing (TLC), ListingProofs (TLAPS)
Kahn (TLC) -> KahnProofs (TLAPS)
```

`Listing` and `Kahn` stand beside the pipeline: a page reads no step, and the graph is
validated once, when `dag.py` is imported. `EventStream` is composed with the whole pipeline,
since what it promises is about every transaction that changes a status.

| Module | Stands for |
|---|---|
| `Dag` | `DependencyGraph`; the graph is the constant `Predecessors`, `PREDECESSORS` the one the code declares; what `_validate` accepts is `DagAssumption` |
| `Kahn` | `DependencyGraph._validate` step by step: the dangling check, the counters, the queue, the verdict; started on any mapping of nodes to names |
| `Store` | the two tables and the queries on them; `stale` is the set of rows whose `updated_at` is past the cutoff, `locks` the row locks of `FOR UPDATE SKIP LOCKED` |
| `Broker` | `queue[row][n]`: copies of the message for `row` returned `n` times; `Publish` may lose a message (no publisher confirms), `Requeue` past `x-delivery-limit` dead-letters it |
| `Transition` | the transitioner, split where it queries and where it commits; it also holds the fault counters, and `claims`, a history of claims won |
| `Partner` | the partner, modelled from how `external_call` and the webhook use it |
| `Worker` | `StepHandler.handle` and the consumer callback, one record per worker; `pc` names the next statement group, the other fields are what the session loaded |
| `Webhook` | `POST /webhooks/partner`, one record per request being served |
| `Reaper` | `run_once` and `main`; the batch is the rows as loaded, part 1 and part 2 as in the code |
| `Documents` | `create_document`, and what `get_document_detail` returns as extracted data |
| `Pipeline` | the composition, the properties, the fairness |
| `EventStream` | `emit_event` in every transaction of `Pipeline`, the listener thread, the subscribers' queues, `stream_events` and its clients |
| `Listing` | documents by organisation, creation time and upload phase; the files; `login` and `get_current_user`; `list_documents` and the clients that page |
| `StepMachine` | what a reader of `docs/DESIGN.md` (dive H) expects of step statuses: no sessions, no messages, no retries |
| `PipelineProofs`, `SafetyProofs`, `ReadyProofs`, `DeliveryProofs`, `LifecycleProofs`, `StreamProofs`, `KahnProofs`, `ListingProofs` | theorems (section 4) |

### How actions correspond to code

A worker's life is
`Deliver` (handlers.py:92-100) -> `CheckDocument` (101-103) -> `MarkRunning` (105-109) ->
`SaveOutput` (81-88, 111-116), or `CallPartner` and then `SaveJob` (200-216), or
`StepFails` (131-151) -> `ReadReady`, `ClaimNext`... (transition.py:51-59) ->
`WorkerDerives`, `WorkerPersists` (61-70) -> `Acknowledge` (main.py:42-43). `WorkerCrashes`
is the process dying, or the handler raising and the callback rolling back and nacking,
after any of them; `LoseConnection` is the broker taking the message back while the
handler runs on. Every stop between two of these actions is a point where another
session may commit.

Sessions: `seen`, `status`, `attempts` and `inputs` of a worker are values loaded once and
never refreshed. `MarkRunning` writes nothing when the row was loaded RUNNING, because
SQLAlchemy then sees no change. `SetStatus` names the row only, as the ORM's UPDATE does.

Locks: `Writable` makes an UPDATE wait for the reaper's row locks; `Fail` releases all the
locks of its session, those of the rest of the batch included, because `_fail` commits
inside the loop.

The stream: `PipelineStep` is a step of `Pipeline` and the event its transaction emits.
`WorkerEmits`, `HookEmits` and `ReaperEmits` name it by where the session goes, for
each `emit_event` of the code; where the code emits nothing, on a retry or on an upload, they
are empty. An event is lost unless the listener is listening when it is committed.
A client subscribes (`Connect`), reads the document (`ReadDocument`) and then its steps
(`ReadSteps`) and is live; other sessions commit and events are queued for it in between.
`dropped` and `covered` are history variables: whether its queue was ever full, and whether the
listener listened when its snapshot was read.

The listing: an upload takes its `created_at` when its transaction starts (`Begin`; PostgreSQL's
`now()`), stores the file (`SaveFile`), and is visible from its `Commit`. A page is any set
`IsPage` allows, that is the newest `Limit` of the matching rows, with the key of its last row
as cursor if a further row was fetched. `walk` is the client's history: the first query's rows
(`start`), the pages before (`earlier`) and the last page; a client may resume from a cursor
another client was given, or log in as someone else between two pages.

### Abstractions, each of them named

* A claim and the publish that follows it are one action (`ClaimAndPublish`); dying
  between them is covered by a publish that loses the message followed by a crash.
  So is an API process that dies between the commit and the publish of an upload.
* Reads that are adjacent and followed by no commit are one action; `HookPersists` and
  `ReaperPersists` read the document in the action that writes it.
* Messages prefetched by a worker but not yet handled count as queued; their delivery
  count is not raised when that worker dies.
* A commit and the nack that follows it are one action (`StepFails` on a retry).
* The order of ready steps in `trigger_successors` and of rows in a batch is any order.
* Only reports for job ids the partner issued are modelled; unsigned requests are rejected
  before anything changes and are therefore no action. The audit row `webhook_event` and
  the timestamps that no decision reads are left out.
* The two cutoffs (`step_timeout_seconds`, `callback_sla_seconds`) are one set, `stale`,
  which any row in flight may join at any time. A row of a document not uploaded yet is
  represented as PENDING.
* Steps and documents are announced by name and value; payloads, keep-alive frames and the SSE
  format are left out, as is the hop from the listener thread to the event loop (dispatch and
  enqueue are one action: an event that was dispatched before a client subscribed was committed
  before its snapshot). Requests of another tenant are refused after the snapshot and left out.
  A client leaves only while it is live; that leaving earlier leaks its queue is a listed hazard.
* A cursor is its content; a malformed one is answered 400 without effect and is no action.
  An id is a number, compared as PostgreSQL compares uuids; a token is its user and expiry, and
  cannot be forged.
* A document, a step, a job and a payload are names; `result` says only whether one is
  stored.

### Overlap

When every message is where the broker last put it, a row has one delivery. Two things
break that in the code: a message that waits longer than `step_timeout_seconds` and
is published again by the reaper (`backlogs`), and a connection closed under a busy worker
(`disconnects`). Both are modelled and bounded. Properties that the code keeps only
without them say `NoOverlap`; the runs that allow them check what survives, and two
of the findings show what does not.

## 3. Runs

The runs of the pipeline and the stream have one document, one reaper and `MaxAttempts = 2` (so
that one retry and one final failure happen). All runs check for deadlock but `validate`: the
constructor ends.

| Run | Bounds | Checks |
|---|---|---|
| `delivery` | real graph, 2 workers, 1 request, 2 jobs, 1 lost publish, 1 crash, no overlap | `TypeOK`, `SingleDelivery`, `SettledInSync`, `ReadyIsComplete`, `RetryBudget`, `StepsFollowLifecycle` (refinement of `StepMachine`) |
| `fan_in` | real graph, 2 workers, 1 job, 1 backlog with up to 2 fresh copies of a message, no requests | `InputsReady`, `FanInOnce`, `FanInNotLost` |
| `callback` | external call alone, 2 workers, 1 request, 3 jobs, 1 crash, 1 closed connection | `ReadyIsVerified`, `CallsBounded`, `NoCallAfterSave` |
| `progress` | real graph, 1 worker, 1 request, 1 job, 1 lost publish, 1 crash, fairness | `SettlesUnlessCrash`, `StartedStepsEnd` |
| `validate` | 3 nodes and one unknown name, every mapping, every order of the queue, fairness | `TypeOK`, `ResultRight`, `Terminates` |
| `listing` | 4 documents, 2 organisations with a user each, 1 client, pages of 2, 2 instants, tokens that expire after one | `TypeOK`, `WalkComplete`, `PagesInOrder`, `TenantScoped`, `CommittedHasFile` |
| `stream` | `external_call` after one computed step, 1 worker, 1 request, 1 client with a queue of 1, no crash | `StreamTypeOK`, `StreamConverges` |
| `stranded` | real graph, 1 worker, 1 crash, fairness | `DocumentSettles` is violated |
| `second_call` | external call alone, 2 workers, 1 backlog | `NoSecondCall` is violated |
| `late_webhook` | external call alone, 1 worker, 1 request | `OutcomeIsFinal` is violated |
| `silent_retry` | external call alone, 1 worker, 1 client | `EveryChangeReported` is violated |
| `redelivery` | real graph, 2 workers, 1 closed connection | `RedeliveryHarmless` is violated |

Why the bounds are enough to be interesting: documents share no rows, so one document
with two workers has every race of the fan-in and of redelivery (what two documents add is
a reaper's batch, see the plan); two attempts reach both branches of `_on_failure`; one
lost message makes the reaper republish; one crash, at any point, reaches every half-done
pair of commits, and together with two attempts stays below the delivery limit; three jobs
leave one more than `CallsBounded` allows. In `fan_in` the external call gets no
answer, its property ends before one matters. Jobs also bound the calls: when they are used
up a worker may still fail the step, so no run deadlocks on them. Symmetry over
workers, requests and jobs is used in the safety runs only.

Three nodes give cycles of every length up to three, self-loops, dangling names, chains, forks
and joins; two instants make ties and late commits, and four documents with pages of two make
a walk of two full pages with or without a further row, and room for rows committed behind the
cursor and for the other organisation's. An instant of the clock is a token's lifetime and the
leeway of some seconds is less, hence `Leeway = 0`: a walk is cut by an expiry and goes on
after a new login, perhaps as somebody else. No property is about the expiry itself, which is
one guard. A queue of one event is full as soon as two arrive.
In `stream` the graph has one computed step so that success, retry, failure, the claim of
a successor, both ends of the external call and both document verdicts are all announced.

The actions are those of the code's behaviour under the bounds named in the .cfg: `MaxLosses`,
`MaxCrashes`, `MaxBacklogs`, `MaxDisconnects`, `MaxCopies`, `MaxTime`.

What each property says is in the comment above it in its module. The mutants (operators
such as `ClaimableUnlessDone`, `RepublishInFlight`, `CrashAfterEarlyAck`) are plausible bugs
in the mapped code; each property fails when its mutant takes the place of the definition.

### Fairness

`FairSpec` assumes that each worker, request and reaper takes its next step if it can
(weak fairness: the processes run, and `main` of the reaper loops for ever), that a row in
flight that nobody touches becomes stale (the clock), and that a write waiting for a row
lock is eventually served (strong fairness of `WorkerWrites`, `HookWrites`, `ReaperWrites`:
PostgreSQL queues the waiter, and a later `SKIP LOCKED` scan passes over the row). With weak
fairness alone TLC shows a worker starved by a reaper that scans the same stale
row again and again, which the lock queue rules out. Nothing is assumed of the partner, of
new requests, crashes, losses or disconnections: they may happen or not.

`Kahn!FairSpec` assumes that the constructor, a loop in one thread, goes on while it can.

### What the stream promises, and what not

`StreamConverges` is about a client that is live, whose snapshot was read while the listener was
listening, whose queue was never full, and without overlapping deliveries: what it will know
once everything queued has arrived is what the tables say, whatever was committed between
subscribing, the two reads of the snapshot and the first event. Each condition is a gap the
model has and the code does not close: the API serves requests while its listener is still
connecting; a full queue drops the event and nothing sends a new snapshot before the client
reconnects; the listener thread does not come back after its connection is lost; and an
overlapping worker announces RUNNING for a row that is DONE. The exception it makes for a step
that waits for its retry is the finding of `silent_retry`.

### What the violation runs show

* `stranded`: DONE is committed before successors are triggered and the document status is
  recomputed; a redelivery after a crash in between is acknowledged as terminal, so
  the document stays processing. DESIGN.md:50-51 says crashes must not strand a document.
  The same gap exists after ERROR in a worker, in the webhook and in the reaper.
* `second_call`: the reaper republishes a QUEUED step whose message is only late, and two workers
  call the partner without any crash; DESIGN.md:239-241 says it never causes a second call.
* `late_webhook`: a webhook that read AWAITING_CALLBACK before the reaper's timeout
  committed overwrites ERROR with DONE; DESIGN.md:316-317 says it is ignored. This is why
  `StepMachine!Resolve` lets the outcome of the external call change: the refinement does not
  say that it is final, and would not hold if it did.
* `silent_retry`: a failed attempt hands the step back as QUEUED without an event, so connected
  clients go on showing it as running; DESIGN.md:31 asks for every step change to be reported.
* `redelivery`: a second delivery of a computed step that overlaps the first one can fail and
  overwrite DONE with ERROR; DESIGN.md:263-264 says it does no harm.

## 4. Proofs

Assumptions are the named `ASSUME`s of the modules: the graph is finite and acyclic, the
bounds are naturals, `NoJob` and `NoDoc` are not values, and a handler reads results of
predecessors or of their predecessors only (`WorkerAssumption`). Number of documents, jobs,
workers, requests, reapers, clients and every fault bound are arbitrary, in the theorems about
`NoOverlap` properties too: there `NoOverlap` is a hypothesis on the state, as in the property,
so a behaviour that overlaps later is covered up to that point.

Three theorems assume more, and say so. `CallIsLast` (no step waits for `external_call`) is
true of `PREDECESSORS`; without it the webhook, which applies the outcome and triggers nothing,
would leave successors unclaimed. `ImplementsLifecycle` assumes `MaxBacklogs = 0` and
`MaxDisconnects = 0`, as the `delivery` run does, because a refinement of the whole
behaviour has no place for a hypothesis on states; `StepsMoveUntilOverlap` is the same
statement for all bounds, step by step, until something overlaps.

| Theorem | Says |
|---|---|
| `PipelineProofs!TypeCorrect` | `Spec => []TypeOK` |
| `SafetyProofs!ClaimedOnce` | `Spec => []FanInOnce` |
| `SafetyProofs!ClaimedInTheEnd` | `CallIsLast` gives `Spec => []FanInNotLost` |
| `SafetyProofs!InputsComeFirst` | `Spec => []InputsReady` |
| `ReadyProofs!ReadyOnReport` | `Spec => []ReadyIsVerified` |
| `ReadyProofs!ReadyWithData` | `Spec => []ReadyIsComplete` |
| `DeliveryProofs!DeliveredOnce` | `Spec => []SingleDelivery` |
| `DeliveryProofs!AttemptsDecide` | `Spec => []RetryBudget` |
| `DeliveryProofs!CalledOnce` | `Spec => []CallsBounded` |
| `DeliveryProofs!SavedCallIsLast` | `Spec => NoCallAfterSave` (an action property) |
| `LifecycleProofs!StepsMoveUntilOverlap` | every step is one of `StepMachine` or leaves the rows, while `NoOverlap` |
| `LifecycleProofs!ImplementsLifecycle` | `Spec => StepsFollowLifecycle`, the refinement, where nothing overlaps |
| `LifecycleProofs!StatusFollowsSteps` | `Spec => []SettledInSync` |
| `StreamProofs!StreamTyped` | `StreamSpec => []StreamTypeOK` |
| `StreamProofs!StreamFits` | `StreamSpec => []StreamConverges` |
| `StreamProofs!OneEventAtATime` | no step of the pipeline announces two events |
| `KahnProofs!CountersTyped` | `Spec => []TypeOK` (of `Kahn`) |
| `KahnProofs!ValidationRight` | `Spec => []ResultRight` |
| `ListingProofs!PagesTyped` | `Spec => []TypeOK` (of `Listing`) |
| `ListingProofs!NothingSkipped` | `Spec => []WalkComplete` |
| `ListingProofs!NothingRepeated` | `Spec => []PagesInOrder` |
| `ListingProofs!TenantsApart` | `Spec => []TenantScoped` |
| `ListingProofs!FileComesFirst` | `Spec => []CommittedHasFile` |

*Types.* One lemma per process (`WorkerTypes`, `HookTypes`, `ReaperTypes`, `UploadTypes`,
`AgeTypes`), one step per action, over lemmas about the helpers (`PublishTypeOK`,
`ClaimAndPublishTypeOK`, `SessionTypeOK`...).

*Claims and inputs.* Neither property is inductive. A claim is won on a PENDING row, so it
is enough that no row becomes PENDING again; uploading writes PENDING, so it must be
known that nothing remembers a row before its document is uploaded. `StartedInv` says
that: every message, session, batch, result, job id and claim is about a row that
is no longer PENDING (`Started`), and every such row's document exists. `NextKeepsStarted`
proves it preserved together with `Forward`: starts, results and uploads are never taken back.
`OrderInv` adds the order of the graph: a started step has the results of its predecessors
(`ResultsFirst`), DONE comes with a result, and the steps a worker is about to claim are
ready. On delivery the row has started, so its predecessors have results, hence
had started, hence theirs have results: all that a handler reads. Both invariants were
checked by TLC on the instances of `fan_in` and `callback` before they were proved.

*Fan-in, not zero times.* Without crashes a claim is forgotten only if the last finisher
loses it. `BecomesDone` says who makes a row DONE: a worker that then holds the row at
`trigger`, or, for the external call, the webhook, which `CallIsLast` makes harmless. From there
`WillClaim` follows the worker: it reads the ready steps after its own commit, so it sees the
other finisher's DONE or is seen by it, and keeps what it has still to claim (`TodoHeld`)
until each is claimed by somebody.

*Ready.* `ReadyInv` follows the report backwards: a job id saved for a document was issued
for it, a request holds at most one document, whose job was reported completed if the
report says so, DONE of the external call rests on such a report and its stored result
(`Backed`), and so does every verdict `ready` a session has derived but not written yet. With
`OrderInv` a READY document then has the results its external call was made from, which is
`ReadyIsComplete`.

*Delivery.* The four properties that say `NoOverlap` rest on one invariant, `DeliveryInv`,
inductive while nothing overlaps. None of its parts is inductive alone:
a row has one copy of its message or one holder (`SingleInv`), because a reaper publishes only
rows that nobody has, which it knows because what it loaded is still true under its locks
(`BatchesLocked`, `LocksApart`), because the only other writer is the holder of the message,
whose session agrees with the row (`SessionsFresh`), because there is one holder. `TableInv`
ties a row's status to its attempts and to the saved job id; `CountsExplained` gives each
return of a message a failure or a crash, and `CallsCounted` each job but one a crash.
`RowChanges` sums up how one row may change in one step; the proof that every action obeys it
(`NextKeepsDelivery`) is what the lifecycle and the status proofs start from.

*Lifecycle.* `RowChanges` names the old status of every write, so each write is an action
of `StepMachine`, given that a claimed step's predecessors are DONE (`TodoDone`), and
that entry steps start with their document (`EntryStarted`).

*Status.* A document is decided (`Decided`) once a step is ERROR or the external call DONE, and
`derive_document_status` makes a verdict of exactly that (`DerivesDecided`). A decision is never
taken back (`DecisionsStay`), though between ERROR and DONE of the external call it may change.
`SyncInv` says that a stored verdict has a decision behind it and that a decision has led to
a stored verdict or to a session that will write one (`DecisionStored`), and what each session
that works on the document has seen and is going to write: who recomputes after an outcome has a
verdict, and a worker that derived PROCESSING had seen PROCESSING, so it writes nothing and
cannot undo a verdict that came meanwhile (`OnlyVerdictsWritten`). The mutant `PersistAlways`
drops that comparison, and the race appears. Where a completed report is stored two outcomes
of one call may be under way, the report and the timeout or a second report, and the later
status may meet the earlier verdict; `SettledInSync` then asks for a verdict only. It used
to ask for equality unless the external call is DONE, until the search for this invariant showed
TLC a state where a timeout wrote ERROR after the report's DONE.

*Stream.* Of each key a client will know the last event under way, or its snapshot. `StreamInv`
says that the last event about a key, in the channel, is right; where the channel has none, the
last one in the client's queue; where that has none, the client's view. It is kept because
every step of the pipeline is one of five kinds (`EveryStepAnnounces`): nothing changes; a row
gets a status and its event says so; a document does; a running row is handed back for a retry
and nothing is said; a document nobody can watch yet is uploaded. This uses `DeliveryInv`: only
without overlap is RUNNING announced for a row that is running. That no step announces two
events, so that the model's choice of one of `Emitted` loses none, is `OneEventAtATime`.

*Kahn.* `SortInv` keeps the counters: a node's is the number of its predecessors not popped yet
(`CountersAgree`), and every set with a popped node has a member without predecessors in it
(`PoppedGrounded`). So a graph whose nodes are all popped has no cycle; and if some are not when
the queue is empty, each of these has a predecessor among them, which is a cycle as
`Cyclic` defines it. The theorem is for any finite set of nodes and any order of the queue.

*Listing.* `WalkInv` relates a walk to its cursor: all that was shown precedes the cursor, every
document of `start` that was not shown follows it, and all of it is committed and of the
walk's organisation. Uploads keep it (`WalksUnmoved`: the key and organisation of a
committed document never change), a first page establishes it (`WalkBegins`) and a
further page keeps it (`WalkGoesOn`), over the order of keys (`KeysOrdered`) and what a page cuts off
(`PageCuts`). That a stored file precedes its commit is the strengthening `StoredFirst`.

*What was checked before.* `StartedInv`, `OrderInv`, `DeliveryInv`, `LifecycleInv`, `SyncInv` and
`StreamInv` were invariants of TLC runs, on instances like those of section 3, while
they were found; the runs kept are those of the properties.

*Model-checked only.* Every safety and action property of the passing runs, and the refinement,
is a theorem. Liveness under fairness (`SettlesUnlessCrash`, `StartedStepsEnd`, `Terminates`)
is outside the prover's reach and stays with TLC on the instances of section 3, and so do the
five violations, which are about one behaviour each.

## 5. Not modelled

Configuration, secrets, logging, the local-only signing helper, the seed and the migrations:
wiring that runs once, without state the pipeline reads later. The audit table
`webhook_event` is written and never read. Broker failures other than lost publishes and redeliveries, and
database failures other than those that make a handler raise, are left out. So is a
rollback that raises inside the callback's `except`, which makes the outer handler
acknowledge the message. `Transition` and the workers run on one graph: `terminal_nodes`
and `predecessors_of` have no caller in the program.

## 6. Plan

Done: the pipeline's core, the event stream composed with it, the listing with
authentication and file storage, the validation of the graph; and all their safety
properties as theorems. What is left, in this order:

1. Two documents in one reaper batch (locks released by the first `_fail`), and a run
   past the delivery limit, where a RUNNING step is dead-lettered.
2. Proofs: what survives overlap, per row (`SingleDelivery` of a row that no backlog or closed
   connection touched); the safety half of the liveness properties (an error always leaves
   somebody who will write FAILED, unless a process crashed).
3. Crashes and overlapping deliveries under the stream, in instances small enough to check; the
   convergence of a stream with its snapshot as an abstract specification.
