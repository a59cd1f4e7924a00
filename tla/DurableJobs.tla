------------------------------ MODULE DurableJobs ------------------------------
(****************************************************************************)
(* The durable job table of governance-persistence and the part of the      *)
(* worker that claims, finishes and retries jobs.                           *)
(*                                                                          *)
(* A key stands for one (organization, kind, dedupe_key) triple.  The       *)
(* partial index uq_jobs_live_dedupe keeps at most one pending or running   *)
(* row per key, so the model keeps the newest row of each key and numbers   *)
(* the rows; an older row is dead and no statement can change its status.   *)
(*                                                                          *)
(* Simplifications: the payload and the error texts are left out; the clock *)
(* stops at MaxTime, the instant by which everything is due; the            *)
(* exponential backoff is one positive delay; a lease ends by an event of   *)
(* its own instead of a deadline, so that it may outlast or fall short of   *)
(* any amount of work; SKIP LOCKED lets a claim return any due row.         *)
(****************************************************************************)
EXTENDS Naturals

CONSTANTS
    Keys,         \* dedupe keys
    Workers,      \* worker processes
    Producers,    \* processes that call enqueue
    MaxTime,      \* bound: last instant of the clock
    MaxAttempts,  \* job_max_attempts of the worker's configuration
    MaxClaims,    \* bound: attempts a row can reach
    MaxRows,      \* bound: rows ever inserted for one key
    Backoff,      \* delay before a failed job is due again
    NoClaim       \* a worker that holds no job

Time == 0 .. MaxTime

VARIABLES
    now,    \* the clock every process reads
    jobs,   \* jobs[k]: the newest row of key k
    claim,  \* claim[w]: the ClaimedJob worker w is processing
    enq     \* enq[p]: where producer p is inside enqueue

jobVars == <<now, jobs, claim, enq>>

Status == {"none", "pending", "running", "completed", "failed"}

EnqueueStep == {"idle", "find", "bump", "insert", "refind", "done", "error"}

Job == [row : 0 .. MaxRows, status : Status, attempts : 0 .. MaxClaims,
        availableAt : Time, leased : BOOLEAN]

Claims == [key : Keys, row : 1 .. MaxRows, attempt : 1 .. MaxClaims]

Requests == [step : EnqueueStep, key : Keys, at : Time,
             row : 0 .. MaxRows, to : Time]

ASSUME JobsAssumption ==
    /\ MaxTime \in Nat
    /\ MaxAttempts \in Nat \ {0}
    /\ MaxClaims \in Nat
    /\ MaxRows \in Nat \ {0}
    /\ Backoff \in Nat \ {0}
    /\ Keys # {}
    /\ NoClaim \notin Claims

Cap(t) == IF t <= MaxTime THEN t ELSE MaxTime

Later(s, t) == IF s >= t THEN s ELSE t

----------------------------------------------------------------------------
(* Rows *)

Live(k) == jobs[k].status \in {"pending", "running"}

NoRow == [row |-> 0, status |-> "none", attempts |-> 0,
          availableAt |-> 0, leased |-> FALSE]

NewRow(n, at) == [row |-> n, status |-> "pending", attempts |-> 0,
                  availableAt |-> at, leased |-> FALSE]

(* Faulty variant of Due: the status filter of claim_due is missing. *)
DueAnyStatus(k) == ~jobs[k].leased /\ jobs[k].availableAt <= now

(* The filter of claim_due: pending and available, or a lease run out. *)
Due(k) ==
    \/ jobs[k].status = "pending" /\ jobs[k].availableAt <= now
    \/ jobs[k].status = "running" /\ ~jobs[k].leased

(* Faulty variant of Holds: without the attempt number. *)
HoldsAnyAttempt(w) ==
    /\ claim[w] # NoClaim
    /\ jobs[claim[w].key].row = claim[w].row
    /\ jobs[claim[w].key].status = "running"

(* The filter of complete_job, fail_job and reschedule_job: the row is      *)
(* running under the attempt number the worker was given.                   *)
Holds(w) ==
    /\ claim[w] # NoClaim
    /\ jobs[claim[w].key].row = claim[w].row
    /\ jobs[claim[w].key].status = "running"
    /\ jobs[claim[w].key].attempts = claim[w].attempt

----------------------------------------------------------------------------
(* enqueue: find a live row and raise its available_at, otherwise insert;   *)
(* every database call is a step of its own.                                *)

NoRequest == [step |-> "idle", key |-> CHOOSE k \in Keys : TRUE, at |-> 0,
              row |-> 0, to |-> 0]

Request(k, at) == [NoRequest EXCEPT !.step = "find", !.key = k, !.at = at]

Enqueue(p, k, at) ==
    /\ enq[p].step = "idle"
    /\ enq' = [enq EXCEPT ![p] = Request(k, at)]
    /\ UNCHANGED <<now, jobs, claim>>

(* The value written by the bump is computed from the row as it was read. *)
EnqueueFound(p) ==
    [enq[p] EXCEPT !.step = "bump", !.row = jobs[enq[p].key].row,
                   !.to = Later(jobs[enq[p].key].availableAt, enq[p].at)]

EnqueueFind(p) ==
    /\ enq[p].step = "find"
    /\ enq' = [enq EXCEPT ![p] = IF Live(enq[p].key)
                                 THEN EnqueueFound(p)
                                 ELSE [@ EXCEPT !.step = "insert"]]
    /\ UNCHANGED <<now, jobs, claim>>

(* The update is by row id: it also hits a row that is no longer live. *)
EnqueueBump(p) ==
    /\ enq[p].step = "bump"
    /\ jobs' = IF jobs[enq[p].key].row = enq[p].row
               THEN [jobs EXCEPT ![enq[p].key].availableAt = enq[p].to]
               ELSE jobs
    /\ enq' = [enq EXCEPT ![p].step = "done"]
    /\ UNCHANGED <<now, claim>>

(* The unique index refuses the insert when another producer was faster. *)
EnqueueInsert(p) ==
    /\ enq[p].step = "insert"
    /\ \/ /\ Live(enq[p].key)
          /\ enq' = [enq EXCEPT ![p].step = "refind"]
          /\ jobs' = jobs
       \/ /\ ~Live(enq[p].key)
          /\ jobs[enq[p].key].row < MaxRows
          /\ jobs' = [jobs EXCEPT ![enq[p].key] = NewRow(@.row + 1, enq[p].at)]
          /\ enq' = [enq EXCEPT ![p].step = "done"]
    /\ UNCHANGED <<now, claim>>

EnqueueRefind(p) ==
    /\ enq[p].step = "refind"
    /\ enq' = [enq EXCEPT ![p] = IF Live(enq[p].key)
                                 THEN EnqueueFound(p)
                                 ELSE [@ EXCEPT !.step = "error"]]
    /\ UNCHANGED <<now, jobs, claim>>

EnqueueReturns(p) ==
    /\ enq[p].step \in {"done", "error"}
    /\ enq' = [enq EXCEPT ![p] = NoRequest]
    /\ UNCHANGED <<now, jobs, claim>>

EnqueueProgress(p) ==
    EnqueueFind(p) \/ EnqueueBump(p) \/ EnqueueInsert(p) \/ EnqueueRefind(p)

----------------------------------------------------------------------------
(* The worker's side *)

ClaimDue(w, k) ==
    /\ claim[w] = NoClaim
    /\ Due(k)
    /\ jobs[k].attempts < MaxClaims
    /\ jobs' = [jobs EXCEPT ![k].status = "running", ![k].leased = TRUE,
                            ![k].attempts = @ + 1]
    /\ claim' = [claim EXCEPT ![w] = [key |-> k, row |-> jobs[k].row,
                                      attempt |-> jobs[k].attempts + 1]]
    /\ UNCHANGED <<now, enq>>

Release(w) == claim' = [claim EXCEPT ![w] = NoClaim]

CompleteJob(w) ==
    /\ claim[w] # NoClaim
    /\ jobs' = IF Holds(w)
               THEN [jobs EXCEPT ![claim[w].key].status = "completed",
                                 ![claim[w].key].leased = FALSE]
               ELSE jobs
    /\ Release(w)
    /\ UNCHANGED <<now, enq>>

FailureIsTerminal(w) == claim[w].attempt >= MaxAttempts

FailJob(w) ==
    /\ claim[w] # NoClaim
    /\ jobs' = IF Holds(w)
               THEN [jobs EXCEPT
                       ![claim[w].key].status =
                           IF FailureIsTerminal(w) THEN "failed" ELSE "pending",
                       ![claim[w].key].availableAt = Cap(now + Backoff),
                       ![claim[w].key].leased = FALSE]
               ELSE jobs
    /\ Release(w)
    /\ UNCHANGED <<now, enq>>

(* Rescheduling hands the attempt back: the row returns to attempt - 1. *)
Rescheduled(w, at) ==
    IF Holds(w)
    THEN [jobs EXCEPT ![claim[w].key].status = "pending",
                      ![claim[w].key].availableAt = at,
                      ![claim[w].key].leased = FALSE,
                      ![claim[w].key].attempts = claim[w].attempt - 1]
    ELSE jobs

RescheduleJob(w, at) ==
    /\ claim[w] # NoClaim
    /\ jobs' = Rescheduled(w, at)
    /\ Release(w)
    /\ UNCHANGED <<now, enq>>

(* The update commits but its answer is lost: the worker sees an error,     *)
(* keeps its claim and goes on to fail the job.                             *)
RescheduleReplyLost(w, at) ==
    /\ claim[w] # NoClaim
    /\ jobs' = Rescheduled(w, at)
    /\ UNCHANGED <<now, claim, enq>>

LeaseExpires(k) ==
    /\ jobs[k].status = "running"
    /\ jobs[k].leased
    /\ jobs' = [jobs EXCEPT ![k].leased = FALSE]
    /\ UNCHANGED <<now, claim, enq>>

WorkerStops(w) ==
    /\ claim[w] # NoClaim
    /\ Release(w)
    /\ UNCHANGED <<now, jobs, enq>>

Tick ==
    /\ now < MaxTime
    /\ now' = now + 1
    /\ UNCHANGED <<jobs, claim, enq>>

----------------------------------------------------------------------------
JobsInit ==
    /\ now = 0
    /\ jobs = [k \in Keys |-> NoRow]
    /\ claim = [w \in Workers |-> NoClaim]
    /\ enq = [p \in Producers |-> NoRequest]

JobsNext ==
    \/ \E p \in Producers, k \in Keys, at \in Time : Enqueue(p, k, at)
    \/ \E p \in Producers : EnqueueProgress(p) \/ EnqueueReturns(p)
    \/ \E w \in Workers, k \in Keys : ClaimDue(w, k)
    \/ \E w \in Workers : CompleteJob(w) \/ FailJob(w) \/ WorkerStops(w)
    \/ \E w \in Workers, at \in Time : RescheduleJob(w, at)
    \/ \E k \in Keys : LeaseExpires(k)
    \/ Tick

JobsSpec == JobsInit /\ [][JobsNext]_jobVars

(* The same queue when a committed reschedule may be reported as an error. *)
LossySpec ==
    JobsInit /\ [][\/ JobsNext
                   \/ \E w \in Workers, at \in Time :
                         RescheduleReplyLost(w, at)]_jobVars

----------------------------------------------------------------------------
JobsTypeOK ==
    /\ now \in Time
    /\ jobs \in [Keys -> Job]
    /\ claim \in [Workers -> Claims \cup {NoClaim}]
    /\ enq \in [Producers -> Requests]

(* At most one worker's completion, failure or reschedule of a job can      *)
(* take effect: the attempt number fences a worker whose lease ran out,     *)
(* although reschedule_job gives attempt numbers back.                      *)
FencedLease ==
    \A v, w \in Workers :
        v # w /\ Holds(v) /\ Holds(w) => claim[v].key # claim[w].key

(* What makes the fence work: a claim never carries a later row or attempt  *)
(* than the table, and a claim equal to a running row is the only one.      *)
ClaimsBehindTable ==
    \A w \in Workers :
        claim[w] # NoClaim =>
            LET k == claim[w].key
            IN  /\ claim[w].row <= jobs[k].row
                /\ claim[w].row = jobs[k].row =>
                      claim[w].attempt <= jobs[k].attempts

(* A row waiting for its retry only ever becomes running: no late answer of *)
(* a superseded worker may end or bury a job that somebody still has to do. *)
PendingOnlyClaimed ==
    [][\A k \in Keys : jobs[k].status = "pending" =>
          /\ jobs'[k].status \in {"pending", "running"}
          /\ jobs'[k].row = jobs[k].row]_jobVars

(* A finished or failed row stays as it ended; work for the key returns     *)
(* only as a new row.                                                       *)
EndedRowsStay ==
    [][\A k \in Keys : jobs[k].status \in {"completed", "failed"} =>
          \/ jobs'[k].status = jobs[k].status /\ jobs'[k].row = jobs[k].row
          \/ jobs'[k].status = "pending" /\ jobs'[k].row = jobs[k].row + 1
       ]_jobVars
================================================================================
