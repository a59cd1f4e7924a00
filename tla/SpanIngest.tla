------------------------------- MODULE SpanIngest -------------------------------
(****************************************************************************)
(* From an export request to the rows of spans and runs: which run a span   *)
(* belongs to, when a passive run is created for an external session, and   *)
(* what a resent span does.  IngestTelemetryBatch handles one span after    *)
(* the other and then reconciles the runs it met; CreateEvaluationRun is    *)
(* used by it and by the API.                                               *)
(*                                                                          *)
(* One target.  A span is named <<trace, number>>.  What an exporter sends  *)
(* of it is a payload [span, valid, run, session, terminal]: whether it can *)
(* be converted within the limits, the canonical run id, the value of the   *)
(* external id attribute the boundary may name, and the value of its        *)
(* terminal attribute.  What happens to a run after it settles is the       *)
(* business of EvaluationRuns: here a run that is being finalized or is     *)
(* completed is "finalizing" and one that failed is "cancelled".  The       *)
(* compare-and-set loop of the reconciliation is one step; EvaluationRuns   *)
(* has its reads and writes.                                                *)
(****************************************************************************)
EXTENDS Rows, Naturals, Sequences, FiniteSets

CONSTANTS
    Exporters,   \* export requests and API calls in flight
    Spans,      \* names of spans
    Runs,       \* ids of runs
    Sessions,   \* external run ids
    Sent,       \* what exporters send: sequences of payloads
    Configs,    \* [reads, pack]: telemetry boundaries of the target
    MaxSpans,   \* max_spans_per_run
    MaxSends,   \* bound: requests sent
    MaxChanges  \* bound: changes of the configuration and of the pack

RunStates == {"created", "collecting", "settling", "finalizing", "cancelled"}

Payloads ==
    [run : Runs \cup {None}, session : Sessions \cup {None}, span : Spans,
     terminal : BOOLEAN, valid : BOOLEAN]

RunRows == [count : Nat, session : Sessions \cup {None}, state : RunStates]

SpanRows == [content : Payloads, late : BOOLEAN, owner : Runs \cup {None}]

ASSUME IngestAssumption ==
    /\ None \notin Runs \cup Sessions \cup RunRows \cup SpanRows \cup Sent
    /\ Sent \subseteq Seq(Payloads)
    /\ MaxSpans \in Nat /\ MaxSends \in Nat /\ MaxChanges \in Nat
    /\ IsFiniteSet(Spans)

Lifecycle == INSTANCE RunLifecycle WITH HardDeadline <- 0, NoCompletion <- None
AcceptsSpans(state) == Lifecycle!AcceptsSpans(state)

VARIABLES
    config,    \* the telemetry boundary of the target
    approved,  \* whether the default policy pack is approved
    run,       \* run[r]: [state, session, count], or None
    timeout,   \* runs with a live timeout job
    stored,    \* stored[s]: [owner, late, content], or None
    req,       \* req[q]: the request and where it is
    answered,  \* runs for which an answered request counted a terminal span
    sends,     \* requests sent so far
    changes    \* changes of configuration and pack so far

env == <<config, approved, changes>>
spansVars == <<config, approved, run, timeout, stored, req, answered, sends, changes>>

IdleRequest == [pc |-> "idle"]

SpansInit ==
    /\ config \in Configs
    /\ approved = TRUE
    /\ run = [r \in Runs |-> None]
    /\ timeout = {}
    /\ stored = [s \in Spans |-> None]
    /\ req = [q \in Exporters |-> IdleRequest]
    /\ answered = {}
    /\ sends = 0
    /\ changes = 0

-----------------------------------------------------------------------------
(* Runs and spans as the tables hold them. *)

(* get_run_by_external_id; uq_eval_runs_external_boundary has at most one.  *)
LiveRuns(session) ==
    {r \in Runs : /\ run[r] # None
                  /\ run[r].session = session
                  /\ run[r].state \notin {"cancelled", "failed"}}

(* The span as it is stored: attributes nobody allowed are dropped.         *)
Sanitized(p, cfg) ==
    IF cfg.reads THEN p ELSE [p EXCEPT !.session = None, !.terminal = FALSE]

Current(q) == Sanitized(Head(req[q].batch), req[q].cfg)

Trace(s) == s[1]
TraceOwners(t) == {stored[s].owner : s \in {s \in Spans : Trace(s) = t /\ stored[s] # None}} \ {None}

-----------------------------------------------------------------------------
(* A request. *)

RequestAt(q, pc) == req[q].pc = pc
RequestGoto(q, pc) == req' = [req EXCEPT ![q].pc = pc]
RequestGotoWith(q, pc, r) == req' = [req EXCEPT ![q].pc = pc, ![q].run = r]

(* The span at hand is done: it counts as rejected or not.                  *)
SpanDone(q, rejected, seen) ==
    req' = [req EXCEPT ![q].pc = "span",
                       ![q].run = None,
                       ![q].batch = Tail(@),
                       ![q].counted = IF ~rejected /\ Current(q).terminal
                                      THEN @ \cup ({req[q].run} \ {None}) ELSE @,
                       ![q].seen = seen]

(* The answer is an error, or there is none. *)
RequestFails(q) ==
    /\ req' = [req EXCEPT ![q] = IdleRequest]
    /\ UNCHANGED <<env, run, timeout, stored, answered, sends>>

(* ingest: the boundary is read once for the request. *)
Send(q, b) ==
    /\ RequestAt(q, "idle")
    /\ sends < MaxSends
    /\ sends' = sends + 1
    /\ req' = [req EXCEPT ![q] =
                    [pc |-> "span", sent |-> b, batch |-> b, cfg |-> config, session |-> None,
                     run |-> None, authorized |-> [r \in {} |-> TRUE],
                     seen |-> [r \in {} |-> FALSE], counted |-> {}]]
    /\ UNCHANGED <<env, run, timeout, stored, answered>>

(* create_evaluation of the API, with an external id or without. *)
CallCreate(q, session) ==
    /\ RequestAt(q, "idle")
    /\ sends < MaxSends
    /\ sends' = sends + 1
    /\ req' = [req EXCEPT ![q] =
                    [pc |-> "pack", sent |-> None, batch |-> <<>>, cfg |-> config,
                     session |-> session, run |-> None, authorized |-> [r \in {} |-> TRUE],
                     seen |-> [r \in {} |-> FALSE], counted |-> {}]]
    /\ UNCHANGED <<env, run, timeout, stored, answered>>

(* A span that cannot be converted, exceeds a limit or names a run that is  *)
(* not an id is rejected alone.                                             *)
SkipSpan(q) ==
    /\ RequestAt(q, "span")
    /\ req[q].batch # <<>>
    /\ ~Current(q).valid
    /\ req' = [req EXCEPT ![q].batch = Tail(@)]
    /\ UNCHANGED <<env, run, timeout, stored, answered, sends>>

(* The next span: it names a run, a session, or neither. *)
NextSpan(q) ==
    /\ RequestAt(q, "span")
    /\ req[q].batch # <<>>
    /\ Current(q).valid
    /\ IF Current(q).run # None
       THEN RequestGotoWith(q, "authorize", Current(q).run)
       ELSE IF Current(q).session # None
       THEN req' = [req EXCEPT ![q].pc = "resolve", ![q].session = Current(q).session]
       ELSE RequestGotoWith(q, "insert", None)
    /\ UNCHANGED <<env, run, timeout, stored, answered, sends>>

(* resolve_passive_run: the live run of the session, or a new one. *)
Resolve(q) ==
    /\ RequestAt(q, "resolve")
    /\ \/ \E r \in LiveRuns(req[q].session) : RequestGotoWith(q, "authorize", r)
       \/ /\ LiveRuns(req[q].session) = {}
          /\ RequestGoto(q, IF req[q].cfg.pack THEN "pack" ELSE "insert")
    /\ UNCHANGED <<env, run, timeout, stored, answered, sends>>

-----------------------------------------------------------------------------
(* CreateEvaluationRun. *)

(* What follows the creation: the span for the gateway, the answer for the  *)
(* API.                                                                     *)
Created(q, r) ==
    IF req[q].sent = None THEN req' = [req EXCEPT ![q] = IdleRequest]
    ELSE RequestGotoWith(q, "authorize", r)

(* ensure_publishable: InvalidRequest is the answer to the whole request.   *)
ReadPack(q) ==
    /\ RequestAt(q, "pack")
    /\ approved
    /\ RequestGoto(q, "create")
    /\ UNCHANGED <<env, run, timeout, stored, answered, sends>>

PackRefused(q) ==
    /\ RequestAt(q, "pack")
    /\ ~approved
    /\ req' = [req EXCEPT ![q] = IdleRequest]
    /\ UNCHANGED <<env, run, timeout, stored, answered, sends>>

NewRun(session) == [state |-> "created", session |-> session, count |-> 0]

\* Faulty variant of SessionFree: nothing forbids a second run of a session.
SessionIgnored(session) == TRUE

(* The unique index lets this session have a new run. *)
SessionFree(session) == session = None \/ LiveRuns(session) = {}

(* create_run_with_job: run and timeout job in one transaction. *)
CreateRun(q) ==
    /\ RequestAt(q, "create")
    /\ SessionFree(req[q].session)
    /\ \E r \in Runs :
        /\ run[r] = None
        /\ run' = [run EXCEPT ![r] = NewRun(req[q].session)]
        /\ timeout' = timeout \cup {r}
        /\ Created(q, r)
    /\ UNCHANGED <<env, stored, answered, sends>>

(* The insert is refused by the index or fails: is there a winner?          *)
CreateRefused(q) ==
    /\ RequestAt(q, "create")
    /\ req[q].session # None
    /\ RequestGoto(q, "winner")
    /\ UNCHANGED <<env, run, timeout, stored, answered, sends>>

(* The live run of the session takes the place of the new one.              *)
Winner(q) ==
    /\ RequestAt(q, "winner")
    /\ \/ \E r \in LiveRuns(req[q].session) : RequestGotoWith(q, "timeout", r)
       \/ /\ LiveRuns(req[q].session) = {}
          /\ req' = [req EXCEPT ![q] = IdleRequest]
    /\ UNCHANGED <<env, run, timeout, stored, answered, sends>>

EnqueueTimeout(q) ==
    /\ RequestAt(q, "timeout")
    /\ timeout' = timeout \cup {req[q].run}
    /\ Created(q, req[q].run)
    /\ UNCHANGED <<env, run, stored, answered, sends>>

-----------------------------------------------------------------------------
(* The span of a run, or of none. *)

(* Read once for a request and run, however many spans follow.              *)
Permitted(q, r) ==
    IF r \in DOMAIN req[q].authorized THEN req[q].authorized[r]
    ELSE run[r] # None /\ run[r].count < MaxSpans

AuthorizeSpan(q) ==
    /\ RequestAt(q, "authorize")
    /\ LET r == req[q].run
           known == [x \in DOMAIN req[q].authorized \cup {r} |-> Permitted(q, x)]
       IN  req' = IF Permitted(q, r)
                  THEN [req EXCEPT ![q].pc = "insert", ![q].authorized = known]
                  ELSE [req EXCEPT ![q].pc = "span", ![q].run = None,
                                   ![q].batch = Tail(@),
                                   ![q].authorized = known]
    /\ UNCHANGED <<env, run, timeout, stored, answered, sends>>

(* correlated_runs: the run is to be reconciled, with a terminal span if    *)
(* one was met.                                                             *)
Met(q) ==
    LET r == req[q].run
        before == r \in DOMAIN req[q].seen /\ req[q].seen[r]
    IN  [x \in DOMAIN req[q].seen \cup {r} |->
            IF x = r THEN before \/ Current(q).terminal ELSE req[q].seen[x]]

\* Faulty variant of MetAgain: a span that was stored before needs nothing.
MetNothing(q) == req[q].seen

(* A duplicate counts for the lifecycle: the request that stored the span   *)
(* may have stopped before it reconciled the run.                           *)
MetAgain(q) == IF req[q].run = None THEN req[q].seen ELSE Met(q)

(* insert_span is one transaction under the lock of the trace. *)
InsertKnown(q) ==
    /\ RequestAt(q, "insert")
    /\ stored[Current(q).span] # None
    /\ IF stored[Current(q).span].content = Current(q)
       THEN SpanDone(q, FALSE, MetAgain(q))
       ELSE SpanDone(q, TRUE, req[q].seen)
    /\ UNCHANGED <<env, run, timeout, stored, answered, sends>>

\* Faulty variant of OwnerAgrees: the row of the run is all that is looked at.
OwnerIgnored(q) == TRUE

OwnerAgrees(q) == TraceOwners(Trace(Current(q).span)) \subseteq {req[q].run}

FullRun(r) == AcceptsSpans(run[r].state) /\ run[r].count >= MaxSpans

InsertRefused(q) ==
    /\ RequestAt(q, "insert")
    /\ stored[Current(q).span] = None
    /\ req[q].run # None
    /\ ~OwnerAgrees(q) \/ FullRun(req[q].run)
    /\ SpanDone(q, TRUE, req[q].seen)
    /\ UNCHANGED <<env, run, timeout, stored, answered, sends>>

SpanRow(q, late) == [owner |-> req[q].run, late |-> late, content |-> Current(q)]

InsertUnassigned(q) ==
    /\ RequestAt(q, "insert")
    /\ stored[Current(q).span] = None
    /\ req[q].run = None
    /\ stored' = [stored EXCEPT ![Current(q).span] = SpanRow(q, FALSE)]
    /\ SpanDone(q, FALSE, req[q].seen)
    /\ UNCHANGED <<env, run, timeout, answered, sends>>

(* A late span is stored for diagnosis and counted as rejected. *)
InsertLate(q) ==
    /\ RequestAt(q, "insert")
    /\ stored[Current(q).span] = None
    /\ req[q].run # None
    /\ OwnerAgrees(q)
    /\ ~AcceptsSpans(run[req[q].run].state)
    /\ stored' = [stored EXCEPT ![Current(q).span] = SpanRow(q, TRUE)]
    /\ SpanDone(q, TRUE, req[q].seen)
    /\ UNCHANGED <<env, run, timeout, answered, sends>>

\* Faulty variant of InsertAssigned: the cap was checked when the request
\* was authorized.
InsertAssignedUncapped(q) ==
    /\ RequestAt(q, "insert")
    /\ stored[Current(q).span] = None
    /\ req[q].run # None
    /\ OwnerAgrees(q)
    /\ AcceptsSpans(run[req[q].run].state)
    /\ stored' = [stored EXCEPT ![Current(q).span] = SpanRow(q, FALSE)]
    /\ run' = [run EXCEPT ![req[q].run].count = @ + 1]
    /\ SpanDone(q, FALSE, Met(q))
    /\ UNCHANGED <<env, timeout, answered, sends>>

InsertAssigned(q) ==
    /\ RequestAt(q, "insert")
    /\ stored[Current(q).span] = None
    /\ req[q].run # None
    /\ OwnerAgrees(q)
    /\ AcceptsSpans(run[req[q].run].state) /\ ~FullRun(req[q].run)
    /\ stored' = [stored EXCEPT ![Current(q).span] = SpanRow(q, FALSE)]
    /\ run' = [run EXCEPT ![req[q].run].count = @ + 1]
    /\ SpanDone(q, FALSE, Met(q))
    /\ UNCHANGED <<env, timeout, answered, sends>>

-----------------------------------------------------------------------------
(* After the spans, the runs. *)

Reconciled(state, terminal) ==
    IF terminal /\ state \in {"created", "collecting"} THEN "settling"
    ELSE IF state = "created" THEN "collecting"
    ELSE state

Reconcile(q) ==
    /\ RequestAt(q, "span")
    /\ req[q].batch = <<>>
    /\ \E r \in DOMAIN req[q].seen :
        /\ run' = [run EXCEPT ![r].state = Reconciled(@, req[q].seen[r])]
        /\ req' = [req EXCEPT ![q].seen = [x \in DOMAIN @ \ {r} |-> @[x]]]
    /\ UNCHANGED <<env, timeout, stored, answered, sends>>

Answer(q) ==
    /\ RequestAt(q, "span")
    /\ req[q].batch = <<>>
    /\ DOMAIN req[q].seen = {}
    /\ answered' = answered \cup req[q].counted
    /\ req' = [req EXCEPT ![q] = IdleRequest]
    /\ UNCHANGED <<env, run, timeout, stored, sends>>

(* The gateway stops, or a call to the database answers an error. *)
RequestStops(q) == ~RequestAt(q, "idle") /\ RequestFails(q)

SpansStep(q) ==
    \/ SkipSpan(q) \/ NextSpan(q) \/ Resolve(q)
    \/ ReadPack(q) \/ PackRefused(q)
    \/ CreateRun(q) \/ CreateRefused(q) \/ Winner(q) \/ EnqueueTimeout(q)
    \/ AuthorizeSpan(q)
    \/ InsertKnown(q) \/ InsertRefused(q)
    \/ InsertUnassigned(q) \/ InsertLate(q) \/ InsertAssigned(q)
    \/ Reconcile(q) \/ Answer(q) \/ RequestStops(q)

-----------------------------------------------------------------------------
(* The lane moves a run on; administrators change configuration and pack.   *)

MoveRun(r) ==
    /\ run[r] # None
    /\ \E t \in {"settling", "finalizing", "cancelled"} :
        /\ Lifecycle!Allowed(run[r].state, t)
        /\ run' = [run EXCEPT ![r].state = t]
    /\ UNCHANGED <<env, timeout, stored, req, answered, sends>>

ChangeBoundary(c) ==
    /\ changes < MaxChanges
    /\ c # config
    /\ c.pack => approved
    /\ config' = c
    /\ changes' = changes + 1
    /\ UNCHANGED <<approved, run, timeout, stored, req, answered, sends>>

SwitchPack ==
    /\ changes < MaxChanges
    /\ approved' = ~approved
    /\ changes' = changes + 1
    /\ UNCHANGED <<config, run, timeout, stored, req, answered, sends>>

SpansNext ==
    \/ \E q \in Exporters :
        \/ \E b \in Sent : Send(q, b)
        \/ \E e \in Sessions \cup {None} : CallCreate(q, e)
        \/ SpansStep(q)
    \/ \E r \in Runs : MoveRun(r)
    \/ \E c \in Configs : ChangeBoundary(c)
    \/ SwitchPack

SpansSpec == SpansInit /\ [][SpansNext]_spansVars

-----------------------------------------------------------------------------
(* Properties. *)

StoredSpans == {s \in Spans : stored[s] # None}
EvidenceOf(r) == {s \in StoredSpans : stored[s].owner = r /\ ~stored[s].late}

Flags == UNION {[known -> BOOLEAN] : known \in SUBSET Runs}

RequestRows ==
    [authorized : Flags, batch : Seq(Payloads), cfg : Configs, counted : SUBSET Runs,
     pc : {"span", "resolve", "pack", "create", "winner", "timeout", "authorize", "insert"},
     run : Runs \cup {None}, seen : Flags, sent : Sent \cup {None},
     session : Sessions \cup {None}]

(* Type invariant. *)
IngestTypeOK ==
    /\ config \in Configs /\ approved \in BOOLEAN
    /\ run \in [Runs -> RunRows \cup {None}]
    /\ timeout \subseteq Runs
    /\ stored \in [Spans -> SpanRows \cup {None}]
    /\ req \in [Exporters -> RequestRows \cup {IdleRequest}]
    /\ answered \subseteq Runs
    /\ sends \in 0..MaxSends /\ changes \in 0..MaxChanges

(* All correlated spans of a trace belong to one run, whatever they name    *)
(* and however their requests interleave: insert_span compares the owner of *)
(* the trace under its lock.                                                *)
TraceHasOneOwner ==
    \A s, t \in StoredSpans :
        /\ stored[s].owner # None /\ stored[t].owner # None /\ Trace(s) = Trace(t)
        => stored[s].owner = stored[t].owner

(* The spans that name a session and no run are collected in one place: two *)
(* requests that create the run of a session at once do not split it, and   *)
(* only a cancelled or failed run is replaced.                              *)
SessionIsOneRun ==
    \A s, t \in StoredSpans :
        LET a == stored[s]
            b == stored[t]
        IN  /\ a.owner # None /\ b.owner # None
            /\ a.content.run = None /\ b.content.run = None
            /\ a.content.session = b.content.session
            /\ run[a.owner].state # "cancelled" /\ run[b.owner].state # "cancelled"
            => a.owner = b.owner

(* span_count is the number of spans the evidence will list, and requests   *)
(* that were authorized before the run was full do not exceed the cap.      *)
CountIsEvidence ==
    \A r \in Runs : run[r] # None =>
        /\ run[r].count = Cardinality(EvidenceOf(r))
        /\ run[r].count <= MaxSpans

(* A run is never without its timeout job: one that is open ends by it even *)
(* when the process that created it stops.                                  *)
DeadlineIsSet ==
    \A r \in Runs : run[r] # None /\ run[r].state \in {"created", "collecting"} => r \in timeout

(* An exporter whose terminal span was counted for a run need not send it   *)
(* again: once the request is answered the run is closing, also when an     *)
(* earlier request had stored the span and stopped.                         *)
AnsweredMeansClosing ==
    \A r \in answered : run[r].state \notin {"created", "collecting"}

(* The remedy of the integration guide for a span that was stored           *)
(* unassigned: resend it with a run id, or create the run of its session.   *)
(* A span that is taken from a request for a run that is open, has room and *)
(* may have the trace is a span of that run afterwards.                     *)
ResendAssigns ==
    [][\A q \in Exporters :
        (/\ RequestAt(q, "insert") /\ req'[q].pc = "span"
         /\ req[q].run # None
         /\ AcceptsSpans(run[req[q].run].state)
         /\ run[req[q].run].count < MaxSpans
         /\ OwnerAgrees(q))
        => stored'[Current(q).span].owner = req[q].run]_spansVars
================================================================================
