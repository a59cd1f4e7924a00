---------------------------- MODULE EvaluationRuns ----------------------------
(****************************************************************************)
(* One correlated evaluation run from its creation to a terminal state: the *)
(* gateway requests that ingest its spans, the API calls that complete or   *)
(* cancel it and the workers that time it out, finalize and evaluate it,    *)
(* all against one eval_runs row and the queue of DurableJobs.              *)
(*                                                                          *)
(* Every database call is one step; between two calls any other process may *)
(* run, and a process may stop.  update_run writes the whole row and is     *)
(* guarded by the state and the updated_at that were read before.           *)
(*                                                                          *)
(* Simplifications: a span is stored whole or not at all; evidence is the   *)
(* set of spans a bundle was built from together with the completion; a     *)
(* verdict is the evidence it was computed from, because evaluate_pack is a *)
(* function of the bundle and the pinned policy.  Spans of other runs and   *)
(* of no run are left to the ingest path.                                   *)
(****************************************************************************)
EXTENDS DurableJobs, RunLifecycle, Sequences, FiniteSets

CONSTANTS
    Spans,           \* the spans instrumented code may export for this run
    TerminalSpans,   \* the spans that carry the terminal attribute
    Batches,         \* OTLP export requests
    BatchSpans,      \* BatchSpans[b]: the spans of request b, in order
    Calls,           \* complete and cancel calls of the API
    CancelCalls,     \* the calls that cancel
    CallCompletion,  \* reason and terminal state a complete call carries
    CallSettle,      \* settle_seconds of a complete call
    Completions,     \* every completion that occurs
    SettleSeconds,   \* settle window the gateway applies
    IdleSeconds,     \* idle timeout of the target
    MaxSpans,        \* max_spans_per_run
    CasAttempts,     \* compare-and-set attempts of one reconciliation
    MaxSends,        \* bound: times an exporter sends the same request
    FaultKinds,      \* the kinds of fault that happen: "crash", "error", "lost"
    MaxFaults,       \* bound: faults of these kinds
    MaxSlow,         \* bound: leases that run out under a live worker
    None             \* SQL NULL

JobKinds == {"timeout", "idle", "finalize", "evaluate"}

Actors == Workers \cup Batches \cup Calls

Stamp == {None} \cup Claims \cup [by : Actors, n : Nat]

(* What a bundle was built from. *)
Bundle == [spans : SUBSET Spans, completion : {NoCompletion} \cup Completions]

ASSUME RunsAssumption ==
    /\ Keys = JobKinds
    /\ Producers = Actors
    /\ Workers \cap Batches = {}
    /\ Workers \cap Calls = {}
    /\ Batches \cap Calls = {}
    /\ TerminalSpans \subseteq Spans
    /\ BatchSpans \in [Batches -> Seq(Spans)]
    /\ \A b \in Batches : BatchSpans[b] # <<>>
    /\ CancelCalls \subseteq Calls
    /\ CallCompletion \in [Calls -> Completions]
    /\ CallSettle \in [Calls -> Nat]
    /\ {"terminal_event", "idle_timeout", "max_duration"} \subseteq Completions
    /\ NoCompletion \notin Completions
    /\ HardDeadline \in Time
    /\ SettleSeconds \in Nat
    /\ IdleSeconds \in Nat \ {0}
    /\ MaxSpans \in Nat
    /\ CasAttempts \in Nat \ {0}
    /\ MaxSends \in Nat
    /\ MaxFaults \in Nat
    /\ MaxSlow \in Nat
    /\ IsFiniteSet(Spans)
    /\ \A E \in SUBSET Spans : E # None
    /\ \A B \in Bundle : B # None

VARIABLES
    run,      \* the eval_runs row
    spans,    \* spans[s]: "absent", "assigned" or "late"
    bundle,   \* the row of evidence_bundles, or None
    summary,  \* the summary column of the run, or None
    pc,       \* pc[a]: the next database call of process a
    seen,     \* seen[a]: state and updated_at that a's update expects
    row,      \* row[a]: the row a is about to write
    batch,    \* batch[b]: progress of request b
    work,     \* work[w]: what worker w remembers between calls
    faults,   \* crashes and errors so far
    slow      \* leases lost by live workers so far

store == <<run, spans, bundle, summary>>
memory == <<seen, row, batch, work>>
budgets == <<faults, slow>>
vars == <<now, jobs, claim, enq, run, spans, bundle, summary,
          pc, seen, row, batch, work, faults, slow>>

NewRun == [state |-> "created", completion |-> NoCompletion, settleUntil |-> 0,
           lastSeen |-> 0, spanCount |-> 0, verdict |-> None, updatedAt |-> None]

NotSeen == [state |-> "created", updatedAt |-> None]

NewBatch == [next |-> 1, merged |-> FALSE, inserted |-> FALSE, terminal |-> FALSE,
             last |-> 0, at |-> 0, tries |-> 0, sends |-> 0]

NoWork == [completion |-> NoCompletion, until |-> 0, evidence |-> {}]

Assigned == {s \in Spans : spans[s] = "assigned"}

----------------------------------------------------------------------------
(* Reading and writing the run *)

Goto(a, label) == pc' = [pc EXCEPT ![a] = label]

(* Remember the run's version and prepare the row r. *)
Prepare(a, r) ==
    /\ seen' = [seen EXCEPT ![a] = [state |-> run.state, updatedAt |-> run.updatedAt]]
    /\ row' = [row EXCEPT ![a] = r]

Forget(a) ==
    /\ seen' = [seen EXCEPT ![a] = NotSeen]
    /\ row' = [row EXCEPT ![a] = NewRun]

(* Faulty variant of Unchanged: a blind write. *)
BlindWrite(a) == TRUE

(* The filter of update_run. *)
Unchanged(a) ==
    /\ run.state = seen[a].state
    /\ run.updatedAt = seen[a].updatedAt

UpdateRun(a, written, lost) ==
    IF Unchanged(a) THEN run' = row[a] /\ Goto(a, written)
                    ELSE run' = run /\ Goto(a, lost)

(* update_run followed by enqueue of a job, two calls. *)
UpdateThenEnqueue(a, key, at, lost) ==
    /\ UpdateRun(a, "enqueue", lost)
    /\ enq' = IF Unchanged(a) THEN [enq EXCEPT ![a] = Request(key, at)] ELSE enq

EnqueueAnswered(a, ok, error) ==
    /\ pc[a] = "enqueue"
    /\ enq[a].step \in {"done", "error"}
    /\ enq' = [enq EXCEPT ![a] = NoRequest]
    /\ Goto(a, IF enq[a].step = "done" THEN ok ELSE error)
    /\ Forget(a)
    /\ UNCHANGED <<now, jobs, claim, store, batch, work, budgets>>

----------------------------------------------------------------------------
(* The gateway: IngestTelemetryBatch *)

(* An exporter sends a request, or sends it again: after a failure, or      *)
(* because the first answer got lost.                                       *)
SendBatch(b) ==
    /\ pc[b] \in {"ready", "done", "failed"}
    /\ batch[b].sends < MaxSends
    /\ batch' = [batch EXCEPT ![b] = [NewBatch EXCEPT !.sends = batch[b].sends + 1]]
    /\ Goto(b, "authorize")
    /\ UNCHANGED <<now, jobs, claim, enq, store, seen, row, work, budgets>>

(* Looked up once per request and run, then cached. *)
Authorize(b) ==
    /\ pc[b] = "authorize"
    /\ Goto(b, IF run.spanCount < MaxSpans THEN "insert" ELSE "done")
    /\ UNCHANGED <<now, jobs, claim, enq, store, memory, budgets>>

CurrentSpan(b) == BatchSpans[b][batch[b].next]

SpanStamp(b, n) == [by |-> b, n |-> n]

(* Go on to the next span; merged tells whether this span's outcome counts  *)
(* towards the run's lifecycle (inserted or duplicate).                     *)
SpanDone(b, merged, inserted) ==
    LET counted == IF merged
                   THEN [batch[b] EXCEPT
                           !.merged = TRUE, !.last = batch[b].next, !.at = now,
                           !.inserted = @ \/ inserted,
                           !.terminal = @ \/ CurrentSpan(b) \in TerminalSpans]
                   ELSE batch[b]
        isLast == batch[b].next = Len(BatchSpans[b])
    IN  /\ batch' = [batch EXCEPT ![b] = [counted EXCEPT !.next = @ + 1]]
        /\ Goto(b, IF ~isLast THEN "insert"
                   ELSE IF counted.merged THEN "reconcile" ELSE "done")

InsertDuplicate(b) ==
    /\ pc[b] = "insert"
    /\ spans[CurrentSpan(b)] # "absent"
    /\ SpanDone(b, TRUE, FALSE)
    /\ UNCHANGED <<now, jobs, claim, enq, store, seen, row, work, budgets>>

InsertLate(b) ==
    /\ pc[b] = "insert"
    /\ spans[CurrentSpan(b)] = "absent"
    /\ ~AcceptsSpans(run.state)
    /\ spans' = [spans EXCEPT ![CurrentSpan(b)] = "late"]
    /\ SpanDone(b, FALSE, FALSE)
    /\ UNCHANGED <<now, jobs, claim, enq, run, bundle, summary, seen, row, work, budgets>>

InsertRefused(b) ==
    /\ pc[b] = "insert"
    /\ spans[CurrentSpan(b)] = "absent"
    /\ AcceptsSpans(run.state)
    /\ run.spanCount >= MaxSpans
    /\ SpanDone(b, FALSE, FALSE)
    /\ UNCHANGED <<now, jobs, claim, enq, store, seen, row, work, budgets>>

(* The span and the run's counters are written under the run's row lock. *)
InsertAccepted(b) ==
    /\ pc[b] = "insert"
    /\ spans[CurrentSpan(b)] = "absent"
    /\ AcceptsSpans(run.state)
    /\ run.spanCount < MaxSpans
    /\ spans' = [spans EXCEPT ![CurrentSpan(b)] = "assigned"]
    /\ run' = [run EXCEPT !.lastSeen = now, !.spanCount = @ + 1,
                          !.updatedAt = SpanStamp(b, batch[b].next)]
    /\ SpanDone(b, TRUE, TRUE)
    /\ UNCHANGED <<now, jobs, claim, enq, bundle, summary, seen, row, work, budgets>>

(* What reconciliation makes of the run; the row itself when nothing        *)
(* changes.  Its clock is the receipt time of the request's latest span.    *)
Reconciled(b) ==
    LET stamp == SpanStamp(b, batch[b].last)
        until == SettleEnd(Cap(batch[b].at + SettleSeconds))
    IN  IF batch[b].terminal /\ run.state \in {"created", "collecting"}
        THEN BeginSettling(run, "terminal_event",
                           Cap(batch[b].at + SettleSeconds), stamp)
        ELSE IF run.state = "created"
        THEN TransitionTo(run, "collecting", stamp)
        ELSE IF /\ run.state = "settling" /\ batch[b].inserted
                /\ run.settleUntil < until
        THEN [run EXCEPT !.settleUntil = until, !.updatedAt = stamp]
        ELSE run

(* Faulty variant of Schedule: a run that settles gets no finalize job. *)
ScheduleIdleOnly(b, r) ==
    /\ enq' = IF r.state = "collecting"
              THEN [enq EXCEPT ![b] = Request("idle", Cap(batch[b].at + IdleSeconds))]
              ELSE enq
    /\ Goto(b, IF r.state = "collecting" THEN "enqueue" ELSE "done")

(* The job that goes with the reconciled run r. *)
Schedule(b, r) ==
    /\ enq' = CASE r.state = "settling" ->
                     [enq EXCEPT ![b] = Request("finalize", r.settleUntil)]
                [] r.state = "collecting" ->
                     [enq EXCEPT ![b] = Request("idle", Cap(batch[b].at + IdleSeconds))]
                [] OTHER -> enq
    /\ Goto(b, IF r.state \in {"settling", "collecting"} THEN "enqueue" ELSE "done")

ReconcileRead(b) ==
    /\ pc[b] = "reconcile"
    /\ IF Reconciled(b) = run
       THEN Schedule(b, run) /\ UNCHANGED <<seen, row>>
       ELSE Prepare(b, Reconciled(b)) /\ Goto(b, "reconcile_write") /\ enq' = enq
    /\ UNCHANGED <<now, jobs, claim, store, batch, work, budgets>>

ReconcileWrite(b) ==
    /\ pc[b] = "reconcile_write"
    /\ IF Unchanged(b)
       THEN /\ run' = row[b]
            /\ Schedule(b, row[b])
            /\ batch' = batch
       ELSE /\ Goto(b, IF batch[b].tries + 1 < CasAttempts THEN "reconcile"
                                                          ELSE "failed")
            /\ batch' = [batch EXCEPT ![b].tries = @ + 1]
            /\ UNCHANGED <<run, enq>>
    /\ Forget(b)
    /\ UNCHANGED <<now, jobs, claim, spans, bundle, summary, work, budgets>>

BatchStep(b) ==
    \/ Authorize(b)
    \/ InsertDuplicate(b) \/ InsertLate(b) \/ InsertRefused(b) \/ InsertAccepted(b)
    \/ ReconcileRead(b) \/ ReconcileWrite(b)
    \/ EnqueueAnswered(b, "done", "failed")

----------------------------------------------------------------------------
(* The API: CompleteEvaluationRun and CancelEvaluationRun *)

CallStamp(c) == [by |-> c, n |-> 0]

(* get_run and begin_settling, by an API call or a timeout. *)
CompleteRead(a, c, until, stamp, next, refused) ==
    IF CanBeginSettling(run, c)
    THEN Prepare(a, BeginSettling(run, c, until, stamp)) /\ Goto(a, next)
    ELSE UNCHANGED <<seen, row>> /\ Goto(a, refused)

CallComplete(c) ==
    /\ pc[c] = "ready"
    /\ c \notin CancelCalls
    /\ CompleteRead(c, CallCompletion[c], Cap(now + CallSettle[c]),
                    CallStamp(c), "complete_write", "done")
    /\ UNCHANGED <<now, jobs, claim, enq, store, batch, work, budgets>>

CallCompleteWrite(c) ==
    /\ pc[c] = "complete_write"
    /\ UpdateThenEnqueue(c, "finalize", row[c].settleUntil, "done")
    /\ Forget(c)
    /\ UNCHANGED <<now, jobs, claim, spans, bundle, summary, batch, work, budgets>>

CallCancel(c) ==
    /\ pc[c] = "ready"
    /\ c \in CancelCalls
    /\ IF CanEnter(run.state, "cancelled")
       THEN Prepare(c, TransitionTo(run, "cancelled", CallStamp(c)))
            /\ Goto(c, "cancel_write")
       ELSE UNCHANGED <<seen, row>> /\ Goto(c, "done")
    /\ UNCHANGED <<now, jobs, claim, enq, store, batch, work, budgets>>

CallCancelWrite(c) ==
    /\ pc[c] = "cancel_write"
    /\ UpdateRun(c, "done", "done")
    /\ Forget(c)
    /\ UNCHANGED <<now, jobs, claim, enq, spans, bundle, summary, batch, work, budgets>>

(* A call that has been received goes on; whether it is made is the user's. *)
CallStep(c) ==
    CallCompleteWrite(c) \/ CallCancelWrite(c) \/ EnqueueAnswered(c, "done", "done")

----------------------------------------------------------------------------
(* The worker: claim a job, dispatch it, record its result *)

FirstCall ==
    [timeout |-> "timeout", idle |-> "idle_timeout",
     finalize |-> "finalize", evaluate |-> "evaluate"]

WorkerClaim(w, k) ==
    /\ pc[w] = "idle"
    /\ ClaimDue(w, k)
    /\ Goto(w, FirstCall[k])
    /\ work' = [work EXCEPT ![w] = [NoWork EXCEPT
                   !.completion = IF k = "timeout" THEN "max_duration" ELSE @]]
    /\ UNCHANGED <<store, seen, row, batch, budgets>>

(* Faulty variant of Collecting: a run without telemetry is passed over. *)
CollectingOnly == run.state = "collecting"

Collecting == run.state \in {"created", "collecting"}

ProcessTimeout(w) ==
    /\ pc[w] = "timeout"
    /\ Goto(w, IF Collecting THEN "complete" ELSE "finish")
    /\ UNCHANGED <<now, jobs, claim, enq, store, memory, budgets>>

ProcessIdleTimeout(w) ==
    /\ pc[w] = "idle_timeout"
    /\ LET deadline == Cap(run.lastSeen + IdleSeconds)
       IN  \/ /\ ~Collecting
              /\ Goto(w, "finish")
              /\ work' = work
           \/ /\ Collecting
              /\ deadline <= now
              /\ Goto(w, "timeout")
              /\ work' = [work EXCEPT ![w].completion = "idle_timeout"]
           \/ /\ Collecting
              /\ deadline > now
              /\ Goto(w, "reschedule")
              /\ work' = [work EXCEPT ![w].until = deadline]
    /\ UNCHANGED <<now, jobs, claim, enq, store, seen, row, batch, budgets>>

WorkerReschedule(w) ==
    /\ pc[w] = "reschedule"
    /\ RescheduleJob(w, work[w].until)
    /\ Goto(w, "idle")
    /\ work' = [work EXCEPT ![w] = NoWork]
    /\ UNCHANGED <<store, seen, row, batch, budgets>>

TimeoutComplete(w) ==
    /\ pc[w] = "complete"
    /\ CompleteRead(w, work[w].completion, now, claim[w], "complete_write", "fail")
    /\ UNCHANGED <<now, jobs, claim, enq, store, batch, work, budgets>>

TimeoutCompleteWrite(w) ==
    /\ pc[w] = "complete_write"
    /\ UpdateThenEnqueue(w, "finalize", row[w].settleUntil, "fail")
    /\ Forget(w)
    /\ UNCHANGED <<now, jobs, claim, spans, bundle, summary, batch, work, budgets>>

(* Faulty variant of FinalizeStart: the state decides, not the bundle. *)
FinalizeStartByState(w) ==
    /\ pc[w] = "finalize"
    /\ Goto(w, IF run.state = "finalizing" THEN "finalize_replay" ELSE "finalize_read")
    /\ UNCHANGED <<now, jobs, claim, enq, store, memory, budgets>>

(* FinalizeEvaluationRun: a bundle that exists is only carried forward. *)
FinalizeStart(w) ==
    /\ pc[w] = "finalize"
    /\ Goto(w, IF bundle # None THEN "finalize_replay" ELSE "finalize_read")
    /\ UNCHANGED <<now, jobs, claim, enq, store, memory, budgets>>

FinalizeReplay(w) ==
    /\ pc[w] = "finalize_replay"
    /\ IF run.state = "finalizing"
       THEN Prepare(w, TransitionTo(run, "evaluating", claim[w]))
            /\ Goto(w, "to_evaluating")
       ELSE UNCHANGED <<seen, row>> /\ Goto(w, "finish")
    /\ UNCHANGED <<now, jobs, claim, enq, store, batch, work, budgets>>

(* Faulty variant of FinalizeRead: spans are listed before the run is       *)
(* written back as finalizing.                                              *)
FinalizeReadUnfrozen(w) ==
    /\ pc[w] = "finalize_read"
    /\ IF \/ run.state = "settling" /\ run.settleUntil <= now
          \/ run.state = "finalizing"
       THEN Prepare(w, TransitionTo(run, "finalizing", claim[w])) /\ Goto(w, "list_spans")
       ELSE UNCHANGED <<seen, row>> /\ Goto(w, "fail")
    /\ UNCHANGED <<now, jobs, claim, enq, store, batch, work, budgets>>

FinalizeRead(w) ==
    /\ pc[w] = "finalize_read"
    /\ \/ /\ run.state = "settling"
          /\ run.settleUntil <= now
          /\ Prepare(w, TransitionTo(run, "finalizing", claim[w]))
          /\ Goto(w, "to_finalizing")
       \/ /\ run.state = "finalizing"
          /\ Prepare(w, run)
          /\ Goto(w, "list_spans")
       \/ /\ \/ run.state = "settling" /\ run.settleUntil > now
             \/ run.state \notin {"settling", "finalizing"}
          /\ Goto(w, "fail")
          /\ UNCHANGED <<seen, row>>
    /\ UNCHANGED <<now, jobs, claim, enq, store, batch, work, budgets>>

ToFinalizing(w) ==
    /\ pc[w] = "to_finalizing"
    /\ UpdateRun(w, "list_spans", "fail")
    /\ UNCHANGED <<now, jobs, claim, enq, spans, bundle, summary, memory, budgets>>

ListSpans(w) ==
    /\ pc[w] = "list_spans"
    /\ work' = [work EXCEPT ![w].evidence = Assigned]
    /\ Goto(w, "insert_bundle")
    /\ UNCHANGED <<now, jobs, claim, enq, store, seen, row, batch, budgets>>

(* finalize_observed_spans hashes everything but the finalization time, so  *)
(* a bundle of the same spans and completion is the same bundle.            *)
Evidence(w) == [spans |-> work[w].evidence, completion |-> row[w].completion]

InsertBundle(w) ==
    /\ pc[w] = "insert_bundle"
    /\ IF bundle \in {None, Evidence(w)}
       THEN /\ bundle' = Evidence(w)
            /\ seen' = [seen EXCEPT ![w] = [state |-> row[w].state,
                                            updatedAt |-> row[w].updatedAt]]
            /\ row' = [row EXCEPT ![w] =
                  TransitionTo([row[w] EXCEPT !.spanCount = Cardinality(work[w].evidence)],
                               "evaluating", claim[w])]
            /\ Goto(w, "to_evaluating")
       ELSE UNCHANGED <<bundle, seen, row>> /\ Goto(w, "fail")
    /\ UNCHANGED <<now, jobs, claim, enq, run, spans, summary, batch, work, budgets>>

ToEvaluating(w) ==
    /\ pc[w] = "to_evaluating"
    /\ UpdateThenEnqueue(w, "evaluate", now, "fail")
    /\ Forget(w)
    /\ UNCHANGED <<now, jobs, claim, spans, bundle, summary, batch, work, budgets>>

(* EvaluateFinalizedRun: a summary that exists is only carried forward. *)
EvaluateStart(w) ==
    /\ pc[w] = "evaluate"
    /\ Goto(w, IF summary # None THEN "evaluate_replay" ELSE "evaluate_pack")
    /\ UNCHANGED <<now, jobs, claim, enq, store, memory, budgets>>

EvaluateReplay(w) ==
    /\ pc[w] = "evaluate_replay"
    /\ IF run.state = "evaluating"
       THEN Prepare(w, TransitionTo([run EXCEPT !.verdict = summary],
                                    "completed", claim[w]))
            /\ Goto(w, "to_completed")
       ELSE UNCHANGED <<seen, row>> /\ Goto(w, "finish")
    /\ UNCHANGED <<now, jobs, claim, enq, store, batch, work, budgets>>

EvaluatePack(w) ==
    /\ pc[w] = "evaluate_pack"
    /\ IF bundle # None
       THEN /\ work' = [work EXCEPT ![w].evidence = bundle.spans]
            /\ Goto(w, "save_summary")
       ELSE work' = work /\ Goto(w, "fail")
    /\ UNCHANGED <<now, jobs, claim, enq, store, seen, row, batch, budgets>>

(* Rule results have fresh identifiers, so a summary computed twice differs *)
(* from the stored one.  The run's state is not looked at.                  *)
SaveSummary(w) ==
    /\ pc[w] = "save_summary"
    /\ IF summary = None
       THEN /\ summary' = work[w].evidence
            /\ run' = [run EXCEPT !.verdict = work[w].evidence, !.updatedAt = claim[w]]
            /\ Goto(w, "reread")
       ELSE UNCHANGED <<summary, run>> /\ Goto(w, "fail")
    /\ UNCHANGED <<now, jobs, claim, enq, spans, bundle, memory, budgets>>

RereadRun(w) ==
    /\ pc[w] = "reread"
    /\ IF CanEnter(run.state, "completed")
       THEN Prepare(w, TransitionTo([run EXCEPT !.verdict = work[w].evidence],
                                    "completed", claim[w]))
            /\ Goto(w, "to_completed")
       ELSE UNCHANGED <<seen, row>> /\ Goto(w, "fail")
    /\ UNCHANGED <<now, jobs, claim, enq, store, batch, work, budgets>>

ToCompleted(w) ==
    /\ pc[w] = "to_completed"
    /\ UpdateRun(w, "finish", "fail")
    /\ Forget(w)
    /\ UNCHANGED <<now, jobs, claim, enq, spans, bundle, summary, batch, work, budgets>>

ClearWorker(w) ==
    /\ Forget(w)
    /\ work' = [work EXCEPT ![w] = NoWork]

WorkerFinish(w) ==
    /\ pc[w] = "finish"
    /\ CompleteJob(w)
    /\ Goto(w, "idle")
    /\ ClearWorker(w)
    /\ UNCHANGED <<store, batch, budgets>>

(* The run is failed only by the worker whose terminal failure was recorded. *)
WorkerFail(w) ==
    /\ pc[w] = "fail"
    /\ FailJob(w)
    /\ Goto(w, IF Holds(w) /\ FailureIsTerminal(w) THEN "mark_failed" ELSE "idle")
    /\ ClearWorker(w)
    /\ UNCHANGED <<store, batch, budgets>>

MarkFailedRead(w) ==
    /\ pc[w] = "mark_failed"
    /\ IF IsTerminal(run.state)
       THEN UNCHANGED <<seen, row>> /\ Goto(w, "idle")
       ELSE Prepare(w, TransitionTo(run, "failed", CallStamp(w)))
            /\ Goto(w, "mark_failed_write")
    /\ UNCHANGED <<now, jobs, claim, enq, store, batch, work, budgets>>

MarkFailedWrite(w) ==
    /\ pc[w] = "mark_failed_write"
    /\ UpdateRun(w, "idle", "idle")
    /\ Forget(w)
    /\ UNCHANGED <<now, jobs, claim, enq, spans, bundle, summary, batch, work, budgets>>

WorkerStep(w) ==
    \/ \E k \in Keys : WorkerClaim(w, k)
    \/ ProcessTimeout(w) \/ ProcessIdleTimeout(w) \/ WorkerReschedule(w)
    \/ TimeoutComplete(w) \/ TimeoutCompleteWrite(w)
    \/ FinalizeStart(w) \/ FinalizeReplay(w) \/ FinalizeRead(w) \/ ToFinalizing(w)
    \/ ListSpans(w) \/ InsertBundle(w) \/ ToEvaluating(w)
    \/ EvaluateStart(w) \/ EvaluateReplay(w) \/ EvaluatePack(w) \/ SaveSummary(w)
    \/ RereadRun(w) \/ ToCompleted(w)
    \/ EnqueueAnswered(w, "finish", "fail")
    \/ WorkerFinish(w) \/ WorkerFail(w) \/ MarkFailedRead(w) \/ MarkFailedWrite(w)

----------------------------------------------------------------------------
(* Faults *)

Resting == {"idle", "ready", "done", "failed"}

Fault == faults < MaxFaults /\ faults' = faults + 1 /\ slow' = slow

(* A process stops between two database calls.  A worker's job stays        *)
(* running until its lease ends.                                            *)
ProcessStops(a, label) ==
    /\ pc[a] \notin Resting
    /\ Fault
    /\ Goto(a, label)
    /\ Forget(a)
    /\ enq' = [enq EXCEPT ![a] = NoRequest]
    /\ UNCHANGED <<now, jobs, store, batch>>

WorkerCrash(w) ==
    /\ "crash" \in FaultKinds
    /\ ProcessStops(w, "idle")
    /\ Release(w)
    /\ work' = [work EXCEPT ![w] = NoWork]

RequestCrash(a) ==
    /\ "crash" \in FaultKinds
    /\ ProcessStops(a, "failed")
    /\ UNCHANGED <<claim, work>>

(* A database call of a job fails: the job is failed, not abandoned. *)
WorkerError(w) ==
    /\ "error" \in FaultKinds
    /\ pc[w] \notin {"fail", "finish", "mark_failed", "mark_failed_write"}
    /\ ProcessStops(w, "fail")
    /\ UNCHANGED <<claim, work>>

(* The answer to a reschedule is lost on its way to the worker. *)
WorkerRescheduleLost(w) ==
    /\ "lost" \in FaultKinds
    /\ pc[w] = "reschedule"
    /\ RescheduleReplyLost(w, work[w].until)
    /\ Fault
    /\ Goto(w, "fail")
    /\ UNCHANGED <<store, memory>>

(* A lease runs out: after its worker is gone, or under a slow worker. *)
LeaseRunsOut(k) ==
    /\ LeaseExpires(k)
    /\ IF \E w \in Workers : Holds(w) /\ claim[w].key = k
       THEN slow < MaxSlow /\ slow' = slow + 1
       ELSE slow' = slow
    /\ UNCHANGED <<store, pc, memory, faults>>

ClockTick == Tick /\ UNCHANGED <<store, pc, memory, budgets>>

EnqueueCall(a) == EnqueueProgress(a) /\ UNCHANGED <<store, pc, memory, budgets>>

----------------------------------------------------------------------------
(* create_run_with_job stores the run and its timeout job in one transaction. *)
Init ==
    /\ now = 0
    /\ jobs = [k \in Keys |-> IF k = "timeout" THEN NewRow(1, HardDeadline) ELSE NoRow]
    /\ claim = [w \in Workers |-> NoClaim]
    /\ enq = [p \in Producers |-> NoRequest]
    /\ run = NewRun
    /\ spans = [s \in Spans |-> "absent"]
    /\ bundle = None
    /\ summary = None
    /\ pc = [a \in Actors |-> IF a \in Workers THEN "idle" ELSE "ready"]
    /\ seen = [a \in Actors |-> NotSeen]
    /\ row = [a \in Actors |-> NewRun]
    /\ batch = [b \in Batches |-> NewBatch]
    /\ work = [w \in Workers |-> NoWork]
    /\ faults = 0
    /\ slow = 0

Next ==
    \/ \E b \in Batches : SendBatch(b) \/ BatchStep(b)
    \/ \E c \in Calls : CallComplete(c) \/ CallCancel(c) \/ CallStep(c)
    \/ \E w \in Workers : WorkerStep(w)
    \/ \E a \in Actors : EnqueueCall(a)
    \/ \E w \in Workers : WorkerCrash(w) \/ WorkerError(w) \/ WorkerRescheduleLost(w)
    \/ \E a \in Batches \cup Calls : RequestCrash(a)
    \/ \E k \in Keys : LeaseRunsOut(k)
    \/ ClockTick

Spec == Init /\ [][Next]_vars

(* What the deployment provides: the clock advances, worker processes keep  *)
(* polling and finishing their calls, a request that has been received is   *)
(* carried on by its server, and an abandoned lease runs out.  Nobody has   *)
(* to send telemetry or call the API, and no fault has to happen.           *)
Fairness ==
    /\ WF_vars(ClockTick)
    /\ \A w \in Workers : WF_vars(WorkerStep(w))
    /\ \A b \in Batches : WF_vars(BatchStep(b))
    /\ \A c \in Calls : WF_vars(CallStep(c))
    /\ \A a \in Actors : WF_vars(EnqueueCall(a))
    /\ \A k \in Keys : WF_vars(LeaseRunsOut(k)
                               /\ ~\E w \in Workers : Holds(w) /\ claim[w].key = k)

FairSpec == Spec /\ Fairness

----------------------------------------------------------------------------
(* Properties *)

Run == [state : RunStates, completion : {NoCompletion} \cup Completions,
        settleUntil : Time, lastSeen : Time, spanCount : Nat,
        verdict : {None} \cup SUBSET Spans, updatedAt : Stamp]

Labels == Resting \cup
    {"authorize", "insert", "reconcile", "reconcile_write", "enqueue",
     "complete_write", "cancel_write", "timeout", "idle_timeout", "reschedule",
     "complete", "finalize", "finalize_replay", "finalize_read", "to_finalizing",
     "list_spans", "insert_bundle", "to_evaluating", "evaluate",
     "evaluate_replay", "evaluate_pack", "save_summary", "reread",
     "to_completed", "finish", "fail", "mark_failed", "mark_failed_write"}

Version == [state : RunStates, updatedAt : Stamp]

Progress == [next : Nat, merged : BOOLEAN, inserted : BOOLEAN, terminal : BOOLEAN,
             last : Nat, at : Time, tries : Nat, sends : Nat]

Work == [completion : {NoCompletion} \cup Completions, until : Time,
         evidence : SUBSET Spans]

StoreTypeOK ==
    /\ run \in Run
    /\ spans \in [Spans -> {"absent", "assigned", "late"}]
    /\ bundle \in {None} \cup Bundle
    /\ summary \in {None} \cup SUBSET Spans

MemoryTypeOK ==
    /\ pc \in [Actors -> Labels]
    /\ seen \in [Actors -> Version]
    /\ row \in [Actors -> Run]
    /\ batch \in [Batches -> Progress]
    /\ work \in [Workers -> Work]

BudgetTypeOK == faults \in 0 .. MaxFaults /\ slow \in 0 .. MaxSlow

TypeOK == JobsTypeOK /\ StoreTypeOK /\ MemoryTypeOK /\ BudgetTypeOK

(* The bundle holds every span that was accepted for the run and no other,  *)
(* and its recorded completion; no span is accepted once it exists, however *)
(* ingestion, lease losses and repeated finalizations interleave.           *)
EvidenceIsComplete ==
    bundle # None =>
        /\ bundle.spans = Assigned
        /\ bundle.completion = run.completion
        /\ ~AcceptsSpans(run.state)

(* A verdict is only ever computed from the run's bundle, and a run is      *)
(* evaluating or completed only with its bundle, completed only with its    *)
(* summary, although the stages are separate jobs, retried, delayed and     *)
(* executed twice, and cancellation may come between any two of them.       *)
VerdictFromEvidence ==
    /\ summary # None => bundle # None /\ summary = bundle.spans
    /\ run.state \in {"evaluating", "completed"} => bundle # None
    /\ run.state = "completed" => summary # None

(* The verdict column agrees with the stored summary, although update_run   *)
(* writes it from whatever copy of the row its caller read: no stale copy   *)
(* erases a verdict or brings one that was never stored.                    *)
VerdictColumnAgrees == run.verdict = summary

(* No write of a stale copy of the row takes the run back, past a stage or  *)
(* out of a terminal state.                                                 *)
LifecycleAdvances == [][CanEnter(run.state, run'.state)]_vars

(* The completion signal that came first stands, whichever of the terminal  *)
(* span, the API and the two timeouts it came from; a terminal run is never *)
(* given another one.                                                       *)
FirstCompletionStands ==
    [][/\ run.completion # NoCompletion => run'.completion = run.completion
       /\ IsTerminal(run.state) => run'.completion = run.completion]_vars

(* How the contract sees the run. *)
Outcome ==
    CASE run.state = "completed"             -> "completed"
      [] run.state \in {"cancelled", "failed"} -> "abandoned"
      [] OTHER                               -> "running"

Contract == INSTANCE EvidenceContract WITH
    accepted <- Assigned,
    open     <- AcceptsSpans(run.state),
    evidence <- IF bundle = None THEN None ELSE bundle.spans,
    verdict  <- summary,
    outcome  <- Outcome

(* Every behaviour of the run lane is one the contract allows: ingestion,   *)
(* finalization by any number of workers, lost leases, crashes, retries and *)
(* cancellation never publish partial evidence, judge anything but it, or   *)
(* give evidence or verdict a second value.                                 *)
KeepsContract == Contract!ContractSpec

(* Every run reaches a terminal state. *)
EventuallyTerminal == <>IsTerminal(run.state)

(* A run that is not terminal is never forgotten: a job for it is waiting   *)
(* or running, or some process is still on its way to enqueue one or to     *)
(* fail the run, although compare-and-set conflicts, exhausted retries and  *)
(* lost answers end single attempts.                                        *)
NeverForgotten ==
    IsTerminal(run.state) \/ (\E k \in Keys : Live(k))
                          \/ (\E a \in Actors : pc[a] \notin Resting)

(* A cancelled or failed run shows no policy verdict. *)
AbandonedHasNoVerdict ==
    run.state \in {"cancelled", "failed"} => run.verdict = None

(* Finalization starts only when the stored settle window has passed. *)
SettleWindowKept ==
    [][run.state = "settling" /\ run'.state = "finalizing"
          => run.settleUntil <= now]_vars
================================================================================
