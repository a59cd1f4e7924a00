# Featherlane in TLA+

Featherlane records what an AI agent does (OpenTelemetry spans), freezes the
spans of one *evaluation run* into an evidence bundle and evaluates a pinned
policy pack on it. The pack itself comes from documents that are uploaded, extracted by a
worker, reviewed by people and compiled. This directory models the parts of the
code where that can go wrong without any single function being wrong: several
processes, Postgres rows and job tables, with nothing but compare-and-set
updates, row locks and leases between them; and the computations whose answer
everything else hangs on: the causal order, the verdict, the coverage of an
extraction, the exit code.

## The system

| Component | State it keeps | Operations |
|---|---|---|
| Job queue (`governance-persistence/src/evaluation_runs.rs`, `jobs` table) | one row per job: status, attempts, `available_at`, lease | `enqueue`, `claim_due`, `complete_job`, `fail_job`, `reschedule_job` |
| Run lifecycle (`governance-domain/src/evaluation_run.rs`) | state, completion reason, settle window, hard deadline | `transition_to`, `begin_settling` |
| Run lane (`governance-application/src/evaluation_runs.rs`) | the `eval_runs` row, `ingested_spans`, `evidence_bundles`, the stored summary | `IngestTelemetryBatch`, `CompleteEvaluationRun`, `CancelEvaluationRun`, `FinalizeEvaluationRun`, `EvaluateFinalizedRun` |
| Worker (`apps/governance-worker/src/main.rs`) | the job in hand | claim, dispatch, timeout, idle timeout, retry, terminal failure |
| Telemetry gateway (`apps/governance-telemetry-gateway`) | none | authenticate, decode, ingest |
| API (`apps/governance-api`) | none | create, complete, cancel, keys, policies, imports, sources |
| Span normalization (`governance-telemetry`) | none | limits, redaction, correlation, causal order, trace quality |
| Evaluator (`governance-evaluator`) | none | `evaluate_rule`, `evaluate_pack` |
| Policy packs (`governance-persistence/src/lib.rs`) | packs with their rules, sources and obligations | save as draft, approve, disable, enable |
| Policy imports (`policy_import*.rs` of application, persistence, API and worker) | the import row, its candidates and their reviews, the extraction queue | upload, retry, attach OCR; parse, extract; review, add by hand, verify; compile |
| Policy collections (`policy_collections.rs`) | collections and their members | create, clone, add, remove, compile all members into one pack |
| Source connections (`source_connections.rs` of persistence and API) | connection, OAuth state and subscription rows, sealed credentials | authorize, callback, refresh tokens, disconnect, select |
| Source ingestion (`source_ingestion.rs`, `source_acquisition.rs`) | batches and their items, two job queues | upload, paste, address, selection, sync; acquire, extract, recompute |
| Document extraction (`governance-ingestion`) | none of its own | chunk, ask a provider, ground, validate, account for coverage |
| Targets and ingest keys (`lib.rs`, `evaluation_runs.rs` of persistence) | versions of an agent with one column of settings, key rows | register, configure, check, rotate, revoke, resolve |
| Inline evaluation (`RunTargetEvaluation`, `governance-targets`) | the exchange under way | reset, exchange, finalize, evaluate, save |
| Command line (`apps/gov-eval`) | deadline and flags | start, complete, wait, run, evaluate |
| Web console, connectors, document parsers | none of their own | reading and presenting, external services |

How they interact: the gateway and the API write the run's row and enqueue jobs;
the worker claims jobs, reads and writes the same row, and enqueues the job of
the next stage. There is no message between processes but a row in a table.
Every database call is a separate statement or transaction; between two calls of
one process any other process may run, and a process may stop.

What is hard about it:

* `update_run` writes *all* columns from a copy read earlier; the guard is the
  state and `updated_at` of that copy. `updated_at` is also set to receipt times
  of spans, so it is not a version number.
* A job is held by a lease. The fence is the attempt number, which
  `reschedule_job` gives back.
* A state write and the enqueue that follows from it are two statements.
* Spans keep arriving while a run settles and is frozen.
* A review, a verification or a compilation reads in one statement and writes in
  another; only some of these writes look again at what was read.
* The stages (finalize, evaluate) are retried after errors and run twice when a
  lease ends under a slow worker.
* Spans of one trace may name two runs, or none; two requests may create the run
  of one session; a request may stop after it stored a span and before it told
  the run.
* Parents, links and clocks come from instrumented code and may contradict each
  other.
* An item of a batch is written by the request that made it and by two kinds of
  workers, each with a copy it read before; a credential is refreshed while a
  person disconnects the account.
* Two people rotate a key while a third revokes.
* A client polls with a deadline, and reads a run and its summary in two
  statements.

What makes the components correct:

* Queue: at most one worker's answer for a job takes effect; waiting work is
  never ended by anybody who does not hold it; what ended stays ended.
* Lifecycle: the run only moves forward and leaves no terminal state; the first
  completion signal stands.
* Evidence: the bundle is exactly what was accepted, written once, and nothing
  is accepted once it exists. Verdict: computed from the bundle, given once.
* Progress: a run is never forgotten and ends.
* Ingest: a trace has one owner and a session one live run; the counter of a run
  is its evidence; an answered terminal span closes its run.
* Order and verdict: causes come first whenever there is an order, a cycle is
  reported, a verdict follows from the whole bundle, and missing or insufficient
  evidence is no pass.
* Sources: a state is used once; a credential opens for its row only; a lineage
  does not fork; what a batch reports is what its items are.
* Keys: one key at most identifies an agent.
* Client: the exit code is true of the run, and a wait ends at its deadline.
* Policy: a document is extracted by one worker at a time; every compiled rule
  was approved in the wording compiled; what was compiled, and what a pack
  says, never changes; no pack with an unreviewed obligation is approved.

## Modules

| Module | Models |
|---|---|
| `DurableJobs` | the job table: one action per database call of `enqueue`, `claim_due` and the three answers; leases, worker stops, the clock |
| `RunLifecycle` | the pure rules of the domain type, as operators on the row |
| `EvidenceContract` | abstract: what a run promises its reader |
| `EvaluationRuns` | one run with all processes that touch it; extends the queue and the lifecycle |
| `SpanIngest` | export requests span by span: which run a span belongs to, creation of passive runs, ownership of traces, resent spans; uses the lifecycle |
| `TargetRegistry` | versions of an agent with their boundary and capability report; ingest keys |
| `CausalOrder` | the loop of `causal_order` |
| `SpanGraph` | definitions: the order of a set of spans and its defects, as functions of the spans |
| `TraceEvidence` | definitions: spans or observations to an evidence bundle; uses `SpanGraph` |
| `Evaluator` | definitions: rules and packs on a bundle |
| `SpanEvidence` | the judgement of a correlated run; composes `TraceEvidence` and `Evaluator` |
| `InlineEvaluation` | the synchronous lane; composes the same two |
| `CommandLine` | `gov-eval` against a run that moves; uses the lifecycle |
| `PolicyPacks` | the tables of packs, sources and obligations: what a save needs, and the decisions on a pack |
| `PolicyImports` | imports, candidates, the extraction worker, reviewers, single and collection compilation; extends `PolicyPacks` |
| `CollectionVersions` | creating and cloning versions of a collection while others change them |
| `Extraction` | from the segments of a document to candidates and coverage |
| `SourceConnections` | OAuth states, the connection row, its sealed credential, subscriptions |
| `SourceIngestion` | batches, items, acquisition and extraction workers, lineages; extends `SourceConnections` |
| `Rows` | the constant `None`, a missing row or column, shared by the components an instance composes |
| `EvaluationRunsProofs` | theorems of the run lane and its queue |
| `SpanIngestProofs` | theorems of ingest and of the registry |
| `PolicyReviewProofs` | theorems of the policy lane: packs, reviews, extraction |
| `SourceIngestionProofs` | theorems of connections, batches, items and lineages |
| `DocumentProofs` | theorems of extraction and of collection versions |
| `SpanGraphProofs`, `CausalOrderProofs` | what the order of spans is, and that the loop computes it |
| `EvidenceProofs` | theorems of verdicts, inline runs and exit codes |
| `RefundSpans`, `RefundTarget`, `IngestRequests`, `SourceRequests` | inputs: what is exported, answered, sent and asked for in the instances |
| `MCDurableJobs`, `MCEvaluationRuns`, `MCSpanIngest`, `MCPolicyImports`, `MCEvidence`, `MCSourceIngestion`, `MCIntake` | instances for TLC; the last extends the one before it |

### `DurableJobs`

`jobs[k]` is the newest row of dedupe key `k`. The partial unique index
`uq_jobs_live_dedupe` allows one pending or running row per key, so older rows
are dead; they are reachable only through `EnqueueBump`, whose update is by row
id, and the model keeps row numbers for that. `claim[w]` is the `ClaimedJob` a
worker holds in memory, `enq[p]` the place of a producer inside `enqueue`
(find, bump, insert, find again after a refused insert). A lease is a flag that
an event clears: it may outlast or fall short of any amount of work. The backoff
`2^attempts` is one positive delay. `MaxTime`, `MaxClaims` and `MaxRows` are
bounds: the clock stops, a row is claimed that many times, a key gets that many
rows.

### `EvaluationRuns`

Processes are the workers, the requests in flight (`Batches`) and the API calls
(`Calls`); `pc` names the next database call of each. Whatever a process
remembers between two calls is a variable: `seen` (the state and `updated_at` an
update expects), `row` (the row about to be written), `batch` (the accumulated
`CorrelatedRunBatch`), `work` (the worker's locals). Two calls are never merged
into one step, and the calls of one transaction are never split.

| Action | Code |
|---|---|
| `SendBatch`, `Authorize`, `Insert*` | gateway request, `authorized_runs` cache, `insert_span` |
| `ReconcileRead`, `ReconcileWrite` | the compare-and-set loop of `reconcile_correlated_run` |
| `CallComplete`, `CallCompleteWrite`, `CallCancel`, `CallCancelWrite` | the two use cases of the API |
| `WorkerClaim`, `ProcessTimeout`, `ProcessIdleTimeout`, `WorkerReschedule`, `TimeoutComplete*` | worker dispatch and the timeouts |
| `Finalize*`, `ToFinalizing`, `ListSpans`, `InsertBundle`, `ToEvaluating` | `FinalizeEvaluationRun` |
| `Evaluate*`, `SaveSummary`, `RereadRun`, `ToCompleted` | `EvaluateFinalizedRun` |
| `WorkerFinish`, `WorkerFail`, `MarkFailed*` | `handle_job_result` |
| `EnqueueCall`, `EnqueueAnswered` | the `enqueue` of any of them |
| `WorkerCrash`, `RequestCrash`, `WorkerError`, `WorkerRescheduleLost`, `LeaseRunsOut` | faults |

Abstractions. A span is a model value that is absent, assigned or late. Evidence
is the set of spans of the bundle with the completion: the bundle's hash leaves
out the finalization time, so two bundles of the same spans and completion are
the same. A verdict is the evidence it was computed from, because
`evaluate_pack` is a function of bundle and pinned rules. A second summary always
differs from the stored one, because rule results carry fresh identifiers. An
`updated_at` value names the write that produced it: an API write, a worker's
claim, or the *n*-th span of a request, the last one on purpose shared by
`insert_span` and the reconciliation that reuses its receipt time. Stamps are
only compared for equality. `EvidenceContract` knows none of this: spans are
accepted until closing, evidence is published once and is what was accepted, one
verdict is given on it, and completion needs the verdict.

### `PolicyPacks` and `PolicyImports`

`call[p]` is where API request `p` stands, together with the rows it read on
the way and has not yet used; `work[w]` is the same for a worker. One statement,
or one transaction that begins by locking the row of the import or collection,
is one step. So `Review`, `ReadCandidate`, `SaveReview`, `RefreshRead`,
`RefreshList` and `SetReviewState` are the six database calls of one review
request, and any other request or worker may come between two of them.

| Action | Code |
|---|---|
| `CreateImport`, `SourceStored`, `SourceNotStored`, `JobQueued`, `JobRefused`, `BatchJobRefused`, `MarkRefused`, `Retry`, `AttachOcr`, `ActivateOcr` | uploading, queueing, retrying and OCR (API and `CreatePolicyImport`) |
| `TakeJob`, `SetupFails`, `BeginParsing`, `ParseFails`, `MarkParsed`, `ExtractFails`, `ReplaceCandidates`, `MarkFailed` | `ProcessPolicyImport` in the worker |
| `Review`, `ReadCandidate`, `SaveReview`, `AddManual`, `SaveManual`, `VerifySource`, `RefreshRead`, `RefreshList`, `SetReviewState` | review requests, each with its refresh of the readiness |
| `Compile`, `CompileList`, `CompileSave` | `compile_policy_import` |
| `AddMember`, `RemoveMember`, `Gather`, `GatherImport`, `GatherCandidates`, `CollectionSave` | membership and `compile_policy_collection` |
| `ImportPack`, `ApproveRead`, `ApproveWrite`, `Disable`, `Enable` | `save_bundle` and the decisions of an administrator |
| `ImportWorkerStops`, `CallStops` | a process stops between two statements |

Abstractions. A rule is named by import, candidate and the stamp of the
candidate's row, and therefore stands for one wording; a review records the rule
it decided on. `updated_at` is a number raised by every write, compared only for
equality. What the model extracts, whether its mapping is usable and whether
coverage is complete are free choices, and so is every decision of a reviewer. A
source is its id with the import it was made from; an obligation is its source
id with its key, which a collection forms differently from a single compilation.
A collection is named by the key and version it reserves. The initial states
contain imports that have already come through extraction and review, some of
them members of a collection, besides those still to be uploaded, so that
compilation and its races are reached in few steps. `PolicyFaults` has a second
member, "lost": the queue took the job but the answer was lost. It is not in the
passing run, because `mark_failure` then writes `failed_retryable` over whatever
the worker has made of the import meanwhile.

### `SpanIngest` and `TargetRegistry`

`req[q]` is an export request with the rest of its batch, the boundary it read
once, the authorizations it cached and the runs it met. `NextSpan`, `Resolve`,
`ReadPack`, `CreateRun`, `Winner`, `EnqueueTimeout`, `Authorize` and the five
outcomes of `insert_span` are the database calls of `IngestTelemetryBatch` and
`CreateEvaluationRun`; the transaction of `insert_span` is one step because it
begins with the lock of the trace. `Reconcile` is the compare-and-set loop in one
step; its reads and writes are in `EvaluationRuns`. What happens to a run later
is `MoveRun`. A payload is what an exporter sends: span, whether it can be
converted, run id, session and terminal attribute. The boundary changes under
requests that have read it, and the default pack is approved and withdrawn.

`TargetRegistry` has the requests of the console. A rotation holds an advisory
lock from `BeginRotation` to `CommitRotation` or `RollBack`; what it wrote before
the commit shows to nobody, but `RevokeFound` waits for the rows it updates.
Configuring a boundary and checking a connection read the settings column in one
statement and write it in another; the later write wins, with the other's part
as it was read.

### `CausalOrder`, `SpanGraph`, `TraceEvidence`, `Evaluator`, `SpanEvidence`

A span of `CausalOrder` is the rank of its identity; start time and the position
in which it was read are separate, since `sort_key` uses all three. One action is
one iteration of the loop; `ReturnCycle` appends what the loop did not reach and
reports the defect. `SpanGraph` has the same order as a recursive function of the
spans, for use inside other definitions; that the loop returns it is the property
`ReturnsSpanOrder`. `TraceEvidence` has the classification of spans, redaction,
the quality of a trace and both finalizers. `Evaluator` is `evaluate_rule` and
`evaluate_pack` with matching, the early returns and the four assertions.
`SpanEvidence` stores spans one after the other (`Store`), closes the run (`Close`),
freezes the bundle and evaluates;
the reference definitions of its properties (`CausallyBefore`, `Kept`, `Broken`)
quantify over sets and triggers and use neither the order nor the early returns.
Attributes are functions from the keys that are present; the content of inputs
and outputs is kept parsed.

### `InlineEvaluation` and `CommandLine`

`InlineEvaluation` sends the events of a scenario; a target answers anything
`Responses` allows, or fails at any exchange. Nothing is stored before `Save`.
`CommandLine` runs a pipeline of `gov-eval` commands (`StartRun`, `Complete`,
`Judge`, and the steps of `Wait`). The run it speaks of is a
row that `LaneMoves` and `LaneJudges` change at any moment, also between
`ReadRun` and `ReadSummary`. Time is discrete: a request that is given up
costs its patience, a pause the lesser of the interval and what remains.

### `Extraction` and `CollectionVersions`

A document is the lengths of its segments, an excerpt a range in one of them, so
that "every character once" can be said. `Chunked` is the cutting of
`chunking.rs` with its two ways (fill a chunk, cut a segment that fits none), and
`Taken` its state after each number of segments;
`ChunkAnswered`, `ProviderBusy` and `ProviderFails` are one request to the provider,
`Extracted` the validation and the write of the candidates with their coverage.
The label around a segment has one length; in the code it is 47 characters and
the number of the segment.
`Scan` is the model used in development. `CollectionVersions` has the requests
that create, clone, extend, shorten and compile versions of one key; a clone adds
member after member in statements of its own, and the position of a member is
the number of members at that time, under a unique index.

### `SourceConnections` and `SourceIngestion`

A callback consumes its state, exchanges the code, looks for a connection and
saves one; a credential is named by the connection id it was sealed for. The
actors of `SourceIngestion` are workers and requests, `at[a]` the statement of
each. `update_item` reads and writes a row in two statements (`ReadItem`,
`WriteItem`), and whoever ends an item recomputes its batch (`Recompute`). A
remote item goes through `TakeAcquisition`, `ReadCredential`, `SaveRefreshed`,
`Fetch`, `ListSubscriptions`, `ReserveRevision`, `CreateImport`, `Stored`,
`Record`, `AddMember`, `Queue`; extraction through `TakeExtraction`,
`BeginExtraction`, `FinishExtraction`. Workers may stop anywhere (`Stop`), a
queue may refuse, the remote file changes. A version stands for external revision
and content at once; a lineage is named by its first import; review and
extraction are those of `PolicyImports` in one step each. An extraction ends in
one of six ways (`Outcomes`): with the candidates of all chunks; with those of some,
`partial`; without a text; with an error that the import is told, to be retried or
for good; or with an error it is not told (`unmarked`: what `execute` returns by `?`,
or a `mark_failure` that fails). `partial` is not an error. The import is written
`failed_retryable`, the call succeeds, and both workers derive the status of the
item from `needs_ocr` alone: the item is ready for review, and its batch counts it
as succeeded and may be complete, while its import has to be retried and refuses
reviews until then. `stored` remembers which candidates an import has. Batches,
files and what arrives together come from `SourceRequests`.

### Conventions

Definitions marked "Faulty variant" are not part of the model. Each is the form
a plausible mistake would give the definition that follows it; replacing the
definition by it must break the property that is meant to notice.

## Runs

A run whose module has several *lanes* composes components that share no state:
a behaviour takes one of them and the others rest in their initial state, so one
run checks each component on its own instance.

| Run | Instance | Shows |
|---|---|---|
| `runs_crash` | 2 workers, a request of two spans; two crashes or database errors anywhere, or one lease lost under a live worker | types; the fence of the queue; rows that ended stay; evidence complete, verdict from evidence; the lane implements `EvidenceContract` |
| `runs_progress` | a request of two spans sent up to twice, span cap 1, a complete and a cancel call, fairness | the run ends; the first completion stands; no stale copy takes the run back |
| `runs_idle` | two requests without a terminal span, a lost reschedule answer, no stops | a run is never forgotten; what a stop between two statements leaves behind is `runs_stranded` |
| `intake` | lane *requests*: two callbacks, or the requests of one scenario (select twice, two syncs, sync and revision, batches of documents, a text, an address) with two workers of which one may stop and any outcome of an extraction; lane *extract*: documents of up to three segments; lane *versions*: three versions, two requests; lane *ingest*: two requests or calls, two runs, three spans of two traces, one session, one change of the boundary or the pack; lane *keys*: three console requests, two versions, three keys | types; states used once, sealed credentials; batches report their items; linear lineages; reviewable items; truthful coverage; faithful clones; one owner per trace, one live run per session, counter and cap, answered means closing; one active key |
| `evidence` | lane *order*: three spans with any parents and up to two links, read in any order; lane *spans*: an approval, a refund and a third span in all relations, three ways to close, four rules; lane *inline*: three scenarios, all answers; lane *pipeline*: three pipelines, deadline 1 or 3, interval 1 or 2 | linear extension and cycles; the loop returns the order the bundle is built with; verdicts follow from the bundle and from causes, not clocks; insufficient evidence is no pass; an open end is no final output; exit codes are true; a wait ends |
| `policy_lane` | one document with two extracted candidates and a collection of it, 2 workers, 2 requests, 3 administrators, processes that stop | one extraction at a time; compiled rules were approved as compiled; compiled imports and saved packs stay; collections are compiled from their current reviews; approved packs are reviewed |
| `runs_stranded` | a worker crash | *violated*: a run can settle for ever |
| `runs_abandoned` | a cancel call | *violated*: a cancelled run gets a verdict |
| `policy_race` | 2 requests | *violated*: a pack is compiled from a review that no longer stands |
| `policy_versions` | 2 requests, two collections of one document | *violated*: the second collection cannot be compiled |
| `ingest_resend` | 2 requests | *violated*: resending a span does not assign it |
| `source_disconnect` | a worker and a disconnect | *violated*: a refresh brings a removed credential back |

The six violations are described under "findings" in `PROJECT.json` with the
sentence of the documentation, comment or test each contradicts.

Further configurations can be run by hand and are not among the runs:
`MCDurableJobs.cfg` (the queue alone, three workers and two producers),
`MCRunsVerdict.cfg` (`VerdictColumnAgrees` on the instance of `runs_crash`),
`MCIntakeTypes.cfg` (`TypesOK`, `IntakeTypeOK`, `DeadlineIsSet`, `LastAdvances`)
and `MCEvidenceTypes.cfg` (`OrderTypeOK`, `RunsTypeOK`, `EverySpanOnce`,
`FailureCited`, `OpenEndNeverPasses`, `Returns` and the invariant `LoopInv`) on the
instances of `intake` and `evidence`, and three that are
violated: `MCDurableJobsLossy.cfg` (a lost reschedule answer breaks the fence),
`MCRunsSettle.cfg` (a repeated signal can move the end of a settle window back)
and `MCSourceStranded.cfg` (a sync of a changed file into the collection of its
compiled predecessor leaves the new import queued for ever).

Why the bounds suffice. Attempts: two, so that a job can fail, be retried and
fail for good, and be claimed again after a lost lease. Time:
one or two instants after the start are enough to be before, at and after each
deadline; the deadlines (settle, idle, hard) coincide or differ by instance. The
clock stops when everything is due. Two spans are the least for a bundle that
misses one; two compare-and-set attempts stand for the eight of the code, and
exhausting them is one of the behaviours. Two faults or one lost lease per
behaviour (`OneTrouble`): the second fault may hit the retry of what the first interrupted.
Workers are symmetric and only safety runs use that.

`intake`, lanes *requests*, *extract* and *versions*: one file is what two
selections or syncs can fight over; two versions of it are a revision and its
successor. A scenario holds the requests that meet; requests that share no file,
batch or subscription are not combined. `OneStops`: one of the two workers may
stop, the other goes on, so that what was left half done meets a worker.
`OneUpset`: when a file is selected again, either it changes or a worker stops;
`AccountKept`: the account is not disconnected any more from then on. Both happen
under the first selection and in the other scenarios. Segments of 1 and 2
characters under a budget of 5 and a label of 1 share a chunk or do not, one of 5
has to be cut; documents of three segments overflow three chunks.

`intake`, lanes *ingest* and *keys*: two requests are enough for every race
about one trace, one session or one run; three spans of two traces let a trace be
claimed by two runs and a cap of two be reached; a second run id lets a cancelled
run be replaced. `MaxSends` and `MaxChanges`: both requests are sent or created
once, or one of them twice, and the boundary or the pack changes once. Three
console requests are a rotation, another rotation and a revocation.

`evidence`: three spans with two links have every kind of cycle and of conflict
of parents, links and clocks that the properties, which are about two spans and a
third between them, can tell apart; the proofs below are for any number. Four rules
have each kind of assertion and each policy for missing evidence. Deadline 3 with
patience 2 lets a request, a retry and a pause meet the deadline from either
side.

`policy_lane`: between the write of a review and its refresh the status of the
import is stale, and the second request is the compilation or the review that
meets it; two workers are needed to extract twice; three administrators, to
approve, disable and enable. Two candidates are the least of which one is
approved and one rejected. Each request is made once, so no counter needs a
bound. The collection has one member: the snapshot check is a conjunction over
members, and the race is between one member's rows and the request that read
them.

Deadlock is not checked: a run that has ended with an empty queue and all
requests answered rests, and so does a document whose requests are done.

### Fairness

`FairSpec` assumes that the clock advances, that a worker polls and goes on with
the job it holds (the loop of `main.rs` never waits for anything but the
database), that a received request and a received API call are carried on by
their server, and that the lease of a worker that is gone runs out. Nobody has
to send telemetry, send it again or call the API, and no fault has to happen.
`evidence` assumes that the ordering loop goes on (it is one function) and that a
`gov-eval` that waits goes on: its requests have a timeout and its pauses a
length. Nothing is assumed of the run it waits for.

## Proofs

All theorems are for every value of the constants: any number of workers,
requests, calls, spans, attempts, sessions, imports, collections, packs, batches,
items, files, keys, console requests, segments, rules, observations and commands.
Nothing is assumed but the named assumptions of the modules, which TLC evaluates
on every run of the module or, for the components of `MCEvidence`, as the
assumptions `OfSpans`, `OfAnswers` and `OfCommands` of that instance:

| Assumption | Says |
|---|---|
| `JobsAssumption` | the bounds are natural numbers, the backoff is positive, `NoClaim` is no claim |
| `RunsAssumption` | the keys are the four job kinds; workers, requests and calls are disjoint; a request has a span; `NoCompletion` and `None` are no values |
| `IngestAssumption` | payloads are sequences of well-formed spans; finitely many spans; `None` is no row, run or session |
| `PolicyAssumption` | a collection is one of the packs; requests and imports have different names; the `No...` are no rows |
| `ConnectionAssumption`, `IngestionAssumption` | an item has one place in one batch; a revision is uploaded alone; items of selections and syncs, and no others, have a file; no batch is empty; `None` is no row |
| `SpansAssumption` | finitely many spans named by numbers, apart from `None` and `Unknown` |
| `RegistryAssumption` | `None` is no request |
| `ExtractionAssumption` | the limits are numbers, a label fits the characters kept free for it (47 and a number in 64) and those fit the budget (12000); a document is a sequence of lengths; a provider chooses among finitely many candidates |
| `EvidenceAssumption` | finitely many spans named by numbers, each with a start time; a rule has assertions of the four kinds and a policy for missing evidence |
| `InlineAssumption` | an answer is a sequence of events with a type and attributes |
| `CommandAssumption` | a script is a sequence of the four commands, deadlines and intervals are numbers, `None` is no verdict |

Two hypotheses of theorems are more than types, `NothingStops` and
`"lost" \notin PolicyFaults`; both are needed, and explained below. (`VersionsTypes`
also says that `None` is neither true nor false.)

**Queue.** `FencedLease` is not inductive. What keeps two claims apart is that a
claim never carries a later row or attempt than the table
(`ClaimsBehindTable`), and that two claims of the same row and attempt never
coexist while that row is running under it. `EvaluationRunsProofs` proves this
strengthening for every action; the hard case is `RescheduleJob`, which takes
the attempt number back and is safe only because it leaves the row pending.

**Run lane.** `RunsInv` is the inductive invariant. Its parts:

* `TypeOK` and `RowsNumbered` (a live row has a number);
* `HeldRow`: the row a process is about to write is a lawful successor of the
  version it saw, if that version is still current;
* `WorkerPlace`, `BatchPlace`: where a process stands agrees with its claim and
  its counters;
* `HeldEvidence`: a worker between `ListSpans` and `ToEvaluating` holds exactly
  the accepted spans, and the run is past accepting;
* `HeldVerdict`: a worker that computed a verdict did so from the bundle;
* `StoreInv`: `EvidenceIsComplete` and `VerdictFromEvidence`.

The key fact is monotony: once a run stops accepting it never accepts again, so
the accepted set and the completion are frozen, and whatever any worker listed
before stays right, however late it stores it. One lemma per action shows that
`RunsInv` is kept; `StoreSteps` sums up what a step can do to the stored rows,
and the action properties and the refinement follow from it.

**Run lane: nobody forgets it.** `NeverForgotten` says that a run which is not
terminal has a process at work or a job that waits or runs. `Watched` says who, for each
state of the run: the row of the job of that stage, the process about to
enqueue it, or a process that will write the run and whose copy is current. It
needs `Stages`: a worker is where the key of its job puts it, a job of a later
stage does not exist before the run reached that stage, and so a job is only
completed when the run is past what it was for. A step that writes the run brings
its new watcher along; any other step leaves the version, so that whoever held a
current copy still does. The hypothesis `NothingStops` (no crash, and no failed
database call of a job) is the finding of `runs_stranded` turned around: between
`update_run` and the `enqueue` that follows, the only watcher is the process itself.
Lost leases, lost answers, timeouts and compare-and-set conflicts are all allowed.

**Span ingest.** That a trace has one owner and a session one live run depends on
what a request remembers between its statements. `IngestInv` is the types with
`RowsInv` and, for every request, `RequestInv`. `RowsInv` has the four properties
and what ties them: `OneLiveRun` is the partial unique index on external ids;
`SpansKnown` says that a span which names no run sits in a run of its session;
together they give `SessionIsOneRun`. The owner of a trace is settled under its
lock, in the step that inserts.
`PlaceInv` says what a request holds of the span at hand (the session it looks up
is the one of that span; a run it inserts into exists). `MemoryInv` is why
`AnsweredMeansClosing` holds: a run whose terminal span a request has counted is
closing already, or is among the runs the request will reconcile with that
signal before it answers. A request that stops loses its memory and with it the
right to answer. `CountIsEvidence` needs a count of a finite set to rise by one
when a span is inserted and by none when it is a duplicate.

**Policy lane: packs.** `ApprovedIsReviewed` is not inductive: `approve` reads the
pack and writes it in two steps, and the write looks at nothing. `PacksInv` adds
`GrantedIsReviewed`: an approval that was granted and not yet written is of a
pack that is saved and reviewed. That stays true because a saved row is never
replaced and a decision writes its status only. `StepOfPacks` sums up the whole
lane: a step leaves the packs alone, saves one where there was none, or is a
decision. Any action that a later version of the lane adds has to be placed under
one of these three.

**Policy lane: reviews.** `PackRulesReviewed` and `CollectionFaithful` are about
what a compilation read. `LaneInv` therefore says for every request what it holds
and what of that still stands (`CallInv`): a row it read is the row of the table
unless the stamp has passed it, the candidates listed after it are those of the
table while that stamp stays, and each is as listed while its own stamp stays.
Both hold with a lost answer of the queue as well.

`OneExtraction` and `CompiledImmutable` have the hypothesis
`"lost" \notin PolicyFaults`, and it is needed. If the queue takes a job and the
API does not learn of it, `mark_failure` writes `failed_retryable` over whatever
the worker has made of the import meanwhile, a compiled one included; and with a
retry after that write there are two jobs of one import, for two workers.
The passing run has the same restriction. Under it `HolderInv` is inductive: one
holder, a queued job or a worker or the request about to enqueue, has an import
that is not yet extracted (`OneHolder`, `HeldStatus`), so no holder has a
compiled one, and whatever else writes an import looks at its status.

**Sources.** An actor of `SourceIngestion` carries what it will do next through the
statements that set an item's status, and that may hold the right to extract an
import, or the rest of the items of a request. `Core(x)` finds it: what the actor
does once its settings are done. `Forms` lists what an actor can be at all, and
`Knowledge` what it knows of the rows. `Owners` is the heart: at most one
actor, or one queued job, has an item; an item not yet imported has no import,
and an item in extraction has an import in the status its owner left it in.
`Passes` states what a step may do with an owner: keep the item, drop it, or turn
it into a job. Since only an owner writes an import, apart from the compilation of a
reviewed one, and no owner holds a reviewed or compiled one, those statuses last,
and with them the parent of every revision (`LineageIsLinear`). What lasts as well
is that candidates were stored, although a partially extracted import is retried
and may fail while its item waits for review: `CandidatesKnown` says that an item
ready for review has them, and that they are those of all chunks exactly in the
statuses open to review; `Knows`, that an actor about to set an item to review has
an import with candidates. `ReviewableItem` follows. That no two imports have one
number in a lineage is the unique index, which is in the guard of the insert.

`ReportedIsTrue` is about a batch that rests: nobody is at work on it, and it
reports ended; then what it says was counted from its items as they are. `Reported`
replaces "nobody is at work" by who still owes a recount (`Owes`): the request of
the batch itself, or a worker that has ended an item of it, or that will after an
extraction that failed. The difficulty is a batch counted as ended while a second
actor sets an item back: `Youth` says that an item which an actor has not yet
brought to extraction has the status that actor left it in, and that nobody else is
closing it; so an item in an early status keeps its batch open (`BatchesKept`).
`OwnItems` keeps a request to its own batch. `Settled` allows workers that stopped at
another batch. One that stopped at the batch itself may have ended an item and not
counted it, so nothing is said of that batch.

**Order of spans.** `SpanGraph` computes two recursive functions over finite sets.
`SpanGraphProofs` shows what they return for every finite set of spans, by a
smallest counterexample (a minimal member of a set of subsets, `FiniteMinimal`)
where the library's induction theorems cannot be used: a sorted list without
repetition, and an order each of whose prefixes is closed under causes
(`PrefixesClosed`). `LoopReturnsSpanOrder` then follows the loop: what it has
placed, continued by the recursion from there, is always the answer, whatever
order the spans were read in.

**Causal order.** `LoopInv` is inductive together with the types and with
`CauseInv`: the counter of a span is the number of its causes without a place, the
ready set is exactly what the counters allow, and what is placed has its causes
before it. That a decrement matches the counter rests on the causes of a span
being a set: a parent that is also a link counts once. `CyclesReported` needs
both directions: when the loop ends early, the spans without a place are a set in
which each waits for another; and no member of such a set is ever placed.

**Verdicts.** `EvidenceInv` is small: the bundle is what the spans stored at the
completion make, the summary is what the rules make of it. The rest is about
what these functions return. A rule passes exactly when it is kept
(`PassIsKept`: no check decides otherwise, and the first that decides exists
because positions are numbers). A cause stands before its effect in every bundle
that reports no cycle, and a bundle that reports one is insufficient; so an
approval caused by a call is never counted before it, and one that caused it
always is. That a prohibited event is never forgiven compares two bundles: one
more span may move others, but an event matched in the first is matched in the
second.

**Inline runs and exit codes.** A stored inline run is the evaluation of what was
observed (`InlineInv`), a list of observations (`Observed`) each of which becomes
one event. So without a terminal answer nothing in the evidence is a final output,
and where an event names a state, the observation was not one either. Any answers
are allowed, those included in which the start of an agent names a state: that state
stays. A `gov-eval` command reads the run and its summary in two statements;
`CommandInv` says what it has read and what of that still stands: the run moves one
way, ends once and keeps its verdict (`SeenStands`), so a completed run seen in the
first statement has its summary in the second. `ClockInv` bounds a wait: every
request and pause fits in what remains.

**Documents.** `Loop`: after *n* segments every character of them is in exactly one
place of the chunks and the open chunk, none of which is over the budget, unless
`whole` is false. The cut of a long segment is arithmetic: the pieces are
consecutive, none is longer than the budget leaves, and the last ends where
the segment does. The induction on *n* is again a least counterexample
(`LeastNumber`), and that a recursive function on `0..n` exists at all is shown the
same way (`RecursionExists`). `ImportInv` carries this to the import: a chunk is
answered, failed or still to be asked, and what is stored as complete has no
failed one.

**Collections.** A clone adds the members it read one by one while others add,
remove and clone. Unless something was removed from a version, its positions are
below its number of members (`Increasing`), so what a clone adds next comes after what
it added before (`AddedStay`); and a member it added leaves by a removal only.

**Registry.** `OneActiveKey` is not inductive: a second rotation could insert its
key beside the first. `KeysInv` adds that only the holder of the lock is inside a
rotation and that one about to commit has revoked every key still active,
although revocations go on without the lock.

Proved:

| Component | Properties | Module |
|---|---|---|
| Queue | types, `FencedLease`, `PendingOnlyClaimed`, `EndedRowsStay` | `EvaluationRunsProofs` |
| Run lane | types, `EvidenceIsComplete`, `VerdictFromEvidence`, `LifecycleAdvances`, `FirstCompletionStands`, the refinement `KeepsContract`; if nothing stops, `NeverForgotten` | `EvaluationRunsProofs` |
| Ingest | types, `TraceHasOneOwner`, `SessionIsOneRun`, `CountIsEvidence`, `AnsweredMeansClosing` | `SpanIngestProofs` |
| Registry | `OneActiveKey` | `SpanIngestProofs` |
| Policy packs | `ApprovedIsReviewed`, `ContentStays` | `PolicyReviewProofs` |
| Policy reviews | types, `PackRulesReviewed`, `CollectionFaithful`; without a lost answer `OneExtraction`, `CompiledImmutable` | `PolicyReviewProofs` |
| Sources | types, `StateUsedOnce`, `SealedForOwner`, `LineageIsLinear`, `ReviewableItem`, `ReportedIsTrue` | `SourceIngestionProofs` |
| Extraction | types, `CoverageIsTruthful` | `DocumentProofs` |
| Collection versions | types, `CloneIsFaithful` | `DocumentProofs` |
| Causal order | types, `LoopInv`, `LinearExtension`, `CycleReported`, `ReturnsSpanOrder` | `CausalOrderProofs` |
| Correlated runs | types, `VerdictJustified`, `InsufficientNeverPasses`, `ApprovalNotAfterwards`, `CausalApprovalCounts`, `ViolationNeverForgiven`, `FailureCited` | `EvidenceProofs` |
| Inline runs | `FinalOutputIsFinal`, `OpenEndNeverPasses` | `EvidenceProofs` |
| Command line | types, `ExitIsTrue`; the safety half of `WaitEnds`, that no wait passes its deadline | `EvidenceProofs` |

Only model-checked: `EventuallyTerminal` and that a wait ends (`WaitEnds`), which
are liveness under fairness and beyond the prover; and, on the instances run by
hand, `DeadlineIsSet`, `LastAdvances`, `VerdictColumnAgrees` and the types of the
inline lane and of the registry. Every property that a passing run checks is proved
but for those two.

## Not modelled

Decoding of requests and documents (PDF, DOCX, HTML), the HTTP of drivers,
providers and connectors, validation of manifests, addresses and packs,
cryptography: data transformation or external services, of which the model keeps
the outcomes. The web console, listings, the dashboard, browsing of accounts and
`list-policies` only read. Idempotency keys of uploads; object storage
(content-addressed and never updated).

Modelled, but without a property. That configuring a boundary and
checking a connection overwrite each other, and that a revocation leaves the key
of a rotation that overtook it active: no document promises otherwise. That an
import whose worker stopped stays parsing or extracting, that an item whose
import was retried keeps its old status, and that a batch with a stopped worker
runs for ever: there is no way out in the code, and the hazards say so. That the
heuristic model stops at its limit and still reports every chunk as processed. That
a state named on an event which is no final output, or by an earlier answer when
the last one is terminal with another state, satisfies the terminal assertion. That
a pack in which every rule blocks nothing and turns missing evidence into a
failure passes any trace, an insufficient one included: no rule is inconclusive
then, and `InsufficientNeverPasses` has a rule of another kind as its precondition
(`MissingTerminalNeverPasses`, the sentence of the integration guide, is without it
and does not hold for such packs).

## Plan

1. Proofs: `VerdictColumnAgrees` with a freshness invariant of stamps;
   `LastAdvances`; what of `NeverForgotten` remains when a worker stops, with the
   windows of `runs_stranded` named one by one.
2. Progress: an import under workers that do not stop is extracted or failed, and
   a batch whose workers do not stop ends; needs the fairness of both queues.
3. Composition: `SpanIngest` with the queue, so that the timeout of a passive run
   is the job of `DurableJobs`; `CommandLine` with `EvaluationRuns` in the place
   of its moving row.
4. Policy lane: two imports in one collection, members whose position is taken,
   decisions on a pack that overtake each other, the lost answer of the queue.
