-------------------------- MODULE EvaluationRunsProofs --------------------------
(****************************************************************************)
(* The run lane, with its job queue, for any number of workers, requests,   *)
(* calls, spans, retries, crashes and lost leases.                          *)
(*                                                                          *)
(* Three arguments, in this order: the fence of the queue's leases; what    *)
(* the evidence of a run may be; and that an unfinished run always has      *)
(* somebody left to move it.                                                *)
(*                                                                          *)
(* The invariants that matter to a reader are not inductive: they depend on *)
(* what the processes remember between two database calls.  RunsInv says    *)
(* what a remembered row may be.  It rests on one observation: a process    *)
(* that read the run after its completion was recorded holds a row with     *)
(* that completion for ever, and one that read it before can only write     *)
(* while the run is still created or collecting, whatever the time stamps   *)
(* say.  That is why a reused updated_at cannot break the evidence.         *)
(****************************************************************************)
EXTENDS EvaluationRuns, FiniteSetTheorems, TLAPS

----------------------------------------------------------------------------
(****************************************************************************)
(* The fence of the job queue holds for any number of keys, workers,        *)
(* producers, attempts and rows.  FencedLease alone is not inductive: that  *)
(* a new claim is the only current one rests on every older claim being     *)
(* behind the table, and that a reschedule may take an attempt number back  *)
(* rests on the rescheduling worker being the only current one.             *)
(****************************************************************************)

(* Rows that exist are numbered from 1. *)
RowsNumbered == \A k \in Keys : jobs[k].status # "none" => jobs[k].row >= 1

FenceInv == JobsTypeOK /\ RowsNumbered /\ ClaimsBehindTable /\ FencedLease

(* Clipping an instant at the end of the clock gives an instant. *)
LEMMA CapType == \A t \in Nat : Cap(t) \in Time
  BY JobsAssumption DEF Cap, Time

LEMMA NoRequestType == NoRequest \in Requests
  <1>1. (CHOOSE k \in Keys : TRUE) \in Keys
    BY JobsAssumption
  <1>2. QED
    BY <1>1, JobsAssumption DEF NoRequest, Requests, EnqueueStep, Time

(* The queue starts empty. *)
LEMMA FenceInit == JobsInit => FenceInv
  <1> SUFFICES ASSUME JobsInit PROVE FenceInv
    OBVIOUS
  <1>1. JobsTypeOK
    BY NoRequestType, JobsAssumption
       DEF JobsInit, JobsTypeOK, NoRow, Job, Time, Status
  <1>2. RowsNumbered
    BY DEF JobsInit, RowsNumbered, NoRow
  <1>3. ClaimsBehindTable /\ FencedLease
    BY DEF JobsInit, ClaimsBehindTable, FencedLease, Holds
  <1>4. QED
    BY <1>1, <1>2, <1>3 DEF FenceInv

(* A claim names a key of the queue and carries natural numbers. *)
LEMMA ClaimFacts ==
    ASSUME JobsTypeOK, NEW w \in Workers, claim[w] # NoClaim
    PROVE  /\ claim[w] \in Claims
           /\ claim[w].key \in Keys
           /\ claim[w].row \in Nat
           /\ claim[w].attempt \in Nat \ {0}
           /\ claim[w].attempt - 1 \in 0 .. MaxClaims
           /\ jobs[claim[w].key] \in Job
  <1>1. claim[w] \in Claims
    BY DEF JobsTypeOK
  <1>2. QED
    BY <1>1, JobsAssumption DEF Claims, JobsTypeOK

----------------------------------------------------------------------------
(* Types.  They hold of every action, the lost reply included. *)

LEMMA EnqueueKeepsTypes ==
    ASSUME JobsTypeOK, RowsNumbered, NEW p \in Producers,
           EnqueueProgress(p) \/ EnqueueReturns(p)
                \/ \E k \in Keys, at \in Time : Enqueue(p, k, at)
    PROVE  JobsTypeOK' /\ RowsNumbered'
  <1>1. ASSUME NEW k \in Keys, NEW at \in Time, Enqueue(p, k, at)
        PROVE  JobsTypeOK' /\ RowsNumbered'
    <2>1. Request(k, at) \in Requests
      BY NoRequestType DEF Request, Requests, EnqueueStep
    <2>2. QED
      BY <1>1, <2>1 DEF Enqueue, JobsTypeOK, RowsNumbered
  <1>2. enq[p] \in Requests /\ enq[p].key \in Keys /\ jobs[enq[p].key] \in Job
    BY DEF JobsTypeOK, Requests
  <1>3. CASE EnqueueFind(p) \/ EnqueueRefind(p)
    <2>1. EnqueueFound(p) \in Requests
      BY <1>2 DEF EnqueueFound, Requests, EnqueueStep, Later, Job, Time
    <2>2. QED
      BY <1>2, <1>3, <2>1
         DEF EnqueueFind, EnqueueRefind, JobsTypeOK, RowsNumbered, Requests, EnqueueStep
  <1>4. CASE EnqueueBump(p)
    BY <1>2, <1>4 DEF EnqueueBump, JobsTypeOK, RowsNumbered, Requests, EnqueueStep, Job
  <1>5. CASE EnqueueInsert(p)
    <2>1. CASE Live(enq[p].key)
      BY <1>2, <1>5, <2>1
         DEF EnqueueInsert, JobsTypeOK, RowsNumbered, Requests, EnqueueStep
    <2>2. CASE ~Live(enq[p].key)
      <3> DEFINE k == enq[p].key
      <3>1. /\ jobs[k].row < MaxRows
            /\ jobs' = [jobs EXCEPT ![k] = NewRow(jobs[k].row + 1, enq[p].at)]
            /\ enq' = [enq EXCEPT ![p].step = "done"]
            /\ UNCHANGED <<now, claim>>
        BY <1>5, <2>2 DEF EnqueueInsert
      <3>2. NewRow(jobs[k].row + 1, enq[p].at) \in Job
        BY <1>2, <3>1, JobsAssumption DEF NewRow, Job, Requests, Status
      <3>3. JobsTypeOK'
        BY <1>2, <3>1, <3>2 DEF JobsTypeOK, Requests, EnqueueStep
      <3>4. RowsNumbered'
        BY <1>2, <3>1, JobsAssumption DEF RowsNumbered, NewRow, JobsTypeOK, Job
      <3>5. QED
        BY <3>3, <3>4
    <2>3. QED
      BY <2>1, <2>2
  <1>6. CASE EnqueueReturns(p)
    BY <1>6, NoRequestType DEF EnqueueReturns, JobsTypeOK, RowsNumbered
  <1>7. QED
    BY <1>1, <1>3, <1>4, <1>5, <1>6 DEF EnqueueProgress

LEMMA ClaimKeepsTypes ==
    ASSUME JobsTypeOK, RowsNumbered, NEW w \in Workers, NEW k \in Keys, ClaimDue(w, k)
    PROVE  JobsTypeOK' /\ RowsNumbered' /\ claim'[w] \in Claims /\ claim'[w] # NoClaim
  <1>1. jobs[k] \in Job /\ jobs[k].status # "none" /\ jobs[k].attempts < MaxClaims
    BY DEF JobsTypeOK, ClaimDue, Due
  <1>2. /\ jobs[k].row \in 1 .. MaxRows
        /\ jobs[k].attempts + 1 \in 1 .. MaxClaims
    BY <1>1, JobsAssumption DEF RowsNumbered, Job
  <1>3. [key |-> k, row |-> jobs[k].row, attempt |-> jobs[k].attempts + 1] \in Claims
    BY <1>2 DEF Claims
  <1>4. claim' \in [Workers -> Claims \cup {NoClaim}] /\ claim'[w] \in Claims
    BY <1>3 DEF ClaimDue, JobsTypeOK
  <1>5. jobs' \in [Keys -> Job] /\ RowsNumbered'
    BY SMTT(30), <1>1, <1>2 DEF ClaimDue, JobsTypeOK, RowsNumbered, Job, Status
  <1>6. QED
    BY <1>4, <1>5, JobsAssumption DEF ClaimDue, JobsTypeOK

(* Whatever a worker does about its job. *)
Answer(w) ==
    \/ CompleteJob(w) \/ FailJob(w) \/ WorkerStops(w)
    \/ \E at \in Time : RescheduleJob(w, at)

LEMMA AnswerKeepsTypes ==
    ASSUME JobsTypeOK, RowsNumbered, NEW w \in Workers,
           Answer(w) \/ \E at \in Time : RescheduleReplyLost(w, at)
    PROVE  JobsTypeOK' /\ RowsNumbered'
  <1>1. claim[w] # NoClaim /\ (Release(w) \/ claim' = claim) /\ UNCHANGED <<now, enq>>
    BY DEF Answer, CompleteJob, FailJob, WorkerStops, RescheduleJob, RescheduleReplyLost
  <1>2. claim' \in [Workers -> Claims \cup {NoClaim}]
    BY <1>1 DEF Release, JobsTypeOK
  <1>3. /\ claim[w].key \in Keys /\ jobs[claim[w].key] \in Job
        /\ claim[w].attempt - 1 \in 0 .. MaxClaims
    BY <1>1, ClaimFacts
  <1>4. CASE CompleteJob(w)
    BY SMTT(30), <1>1, <1>2, <1>3, <1>4
       DEF CompleteJob, JobsTypeOK, RowsNumbered, Job, Status, Holds
  <1>5. CASE FailJob(w)
    <2>1. Cap(now + Backoff) \in Time
      BY CapType, JobsAssumption DEF JobsTypeOK, Time
    <2>2. QED
      BY <1>1, <1>2, <1>3, <1>5, <2>1
         DEF FailJob, JobsTypeOK, RowsNumbered, Job, Status, Holds
  <1>6. ASSUME NEW at \in Time, RescheduleJob(w, at) \/ RescheduleReplyLost(w, at)
        PROVE  JobsTypeOK' /\ RowsNumbered'
    <2>1. jobs' = Rescheduled(w, at)
      BY <1>6 DEF RescheduleJob, RescheduleReplyLost
    <2>2. jobs' \in [Keys -> Job]
      BY <1>3, <2>1 DEF Rescheduled, JobsTypeOK, Job, Status
    <2>3. \A k \in Keys : \/ jobs'[k] = jobs[k]
                          \/ /\ jobs[k].status = "running"
                             /\ jobs'[k].row = jobs[k].row
      BY <1>3, <2>1 DEF Rescheduled, JobsTypeOK, Job, Holds
    <2>4. RowsNumbered'
      BY <2>3 DEF RowsNumbered
    <2>5. QED
      BY <1>1, <1>2, <2>2, <2>4 DEF JobsTypeOK
  <1>7. CASE WorkerStops(w)
    BY <1>1, <1>2, <1>7 DEF WorkerStops, JobsTypeOK, RowsNumbered
  <1>8. QED
    BY <1>4, <1>5, <1>6, <1>7 DEF Answer

LEMMA LeaseKeepsTypes ==
    ASSUME JobsTypeOK, RowsNumbered, NEW k \in Keys, LeaseExpires(k)
    PROVE  JobsTypeOK' /\ RowsNumbered'
  BY DEF LeaseExpires, JobsTypeOK, RowsNumbered, Job

LEMMA TickKeepsTypes ==
    ASSUME JobsTypeOK, RowsNumbered, Tick
    PROVE  JobsTypeOK' /\ RowsNumbered'
  BY JobsAssumption DEF Tick, Time, JobsTypeOK, RowsNumbered

----------------------------------------------------------------------------
(* What a producer does inside enqueue keeps the fence. *)
LEMMA EnqueueKeepsFence ==
    ASSUME FenceInv, NEW p \in Producers,
           EnqueueProgress(p) \/ EnqueueReturns(p)
                \/ \E k \in Keys, at \in Time : Enqueue(p, k, at)
    PROVE  FenceInv'
  <1> USE DEF FenceInv
  <1>1. JobsTypeOK' /\ RowsNumbered'
    BY EnqueueKeepsTypes
  <1>2. enq[p].key \in Keys /\ jobs[enq[p].key] \in Job
    BY DEF JobsTypeOK, Requests
  <1>3. \A w \in Workers : claim[w] # NoClaim =>
           claim[w] \in Claims /\ claim[w].key \in Keys /\ claim[w].row \in Nat
    BY ClaimFacts
  <1>4. CASE \A k \in Keys : /\ jobs'[k].row = jobs[k].row
                             /\ jobs'[k].status = jobs[k].status
                             /\ jobs'[k].attempts = jobs[k].attempts
    <2>1. claim' = claim
      BY SMTT(30) DEF EnqueueProgress, EnqueueReturns, Enqueue, EnqueueFind, EnqueueRefind,
             EnqueueBump, EnqueueInsert
    <2>2. QED
      BY <1>1, <1>3, <1>4, <2>1 DEF ClaimsBehindTable, FencedLease, Holds
  <1>5. CASE EnqueueInsert(p) /\ ~Live(enq[p].key)
    <2> DEFINE k == enq[p].key
    <2>1. /\ jobs' = [jobs EXCEPT ![k] = NewRow(jobs[k].row + 1, enq[p].at)]
          /\ claim' = claim
      BY <1>5 DEF EnqueueInsert
    <2>2. jobs'[k].row = jobs[k].row + 1 /\ jobs[k].row \in Nat
      BY <1>2, <2>1, JobsAssumption DEF NewRow, JobsTypeOK, Job
    <2>3. \A w \in Workers : claim[w] # NoClaim /\ claim[w].key = k =>
             claim[w].row < jobs'[k].row
      BY <1>3, <2>2 DEF ClaimsBehindTable
    <2>4. \A l \in Keys \ {k} : jobs'[l] = jobs[l]
      BY <1>2, <2>1 DEF JobsTypeOK
    <2>5. ASSUME NEW w \in Workers, claim[w] # NoClaim
          PROVE  /\ claim'[w] = claim[w] /\ claim[w].key \in Keys
                 /\ claim[w].key = k => ~Holds(w)'
                 /\ claim[w].key # k => jobs'[claim[w].key] = jobs[claim[w].key]
      <3>1. claim[w].key \in Keys /\ claim[w].row \in Nat
        BY <1>3, <2>5
      <3>2. CASE claim[w].key = k
        <4>1. claim[w].row < jobs'[k].row
          BY <2>3, <2>5, <3>2
        <4>2. jobs'[k].row # claim[w].row
          BY <2>2, <3>1, <4>1
        <4>3. QED
          BY <2>1, <3>1, <3>2, <4>2 DEF Holds
      <3>3. QED
        BY <2>1, <2>4, <3>1, <3>2
    <2>6. ClaimsBehindTable'
      <3>1. ASSUME NEW w \in Workers, claim'[w] # NoClaim
            PROVE  LET l == claim'[w].key
                   IN  /\ claim'[w].row <= jobs'[l].row
                       /\ claim'[w].row = jobs'[l].row => claim'[w].attempt <= jobs'[l].attempts
        <4>1. claim'[w] = claim[w] /\ claim[w].row \in Nat
          BY <1>3, <2>1, <3>1
        <4>2. CASE claim[w].key = k
          BY <2>2, <2>3, <3>1, <4>1, <4>2
        <4>3. CASE claim[w].key # k
          <5>1. jobs'[claim[w].key] = jobs[claim[w].key]
            BY <2>5, <3>1, <4>1, <4>3
          <5>2. QED
            BY <3>1, <4>1, <5>1 DEF ClaimsBehindTable
        <4>4. QED
          BY <4>2, <4>3
      <3>2. QED
        BY <3>1 DEF ClaimsBehindTable
    <2>7. FencedLease'
      <3>1. ASSUME NEW w \in Workers, Holds(w)' PROVE Holds(w) /\ claim'[w] = claim[w]
        <4>1. claim[w] # NoClaim
          BY <2>1, <3>1 DEF Holds
        <4>2. claim[w].key # k /\ jobs'[claim[w].key] = jobs[claim[w].key]
          BY <2>5, <3>1, <4>1
        <4>3. QED
          BY <2>1, <3>1, <4>2 DEF Holds
      <3>2. QED
        BY <3>1 DEF FencedLease
    <2>8. QED
      BY <1>1, <2>6, <2>7
  <1>6. CASE EnqueueBump(p)
    BY <1>2, <1>4, <1>6 DEF EnqueueBump, JobsTypeOK, Job
  <1>7. QED
    BY <1>4, <1>5, <1>6 DEF EnqueueProgress, EnqueueReturns, Enqueue, EnqueueFind,
                            EnqueueRefind, EnqueueInsert

(* A worker that ends its claim, whatever it does to the row it holds,      *)
(* keeps the fence as long as it leaves the row number alone and lowers the *)
(* attempt by at most the one it was given.                                 *)
LEMMA ReleaseKeepsFence ==
    ASSUME FenceInv, NEW w \in Workers, claim[w] # NoClaim,
           Release(w), JobsTypeOK',
           \A k \in Keys :
               \/ jobs'[k] = jobs[k]
               \/ /\ Holds(w)
                  /\ k = claim[w].key
                  /\ jobs'[k].row = jobs[k].row
                  /\ jobs'[k].status \in {"completed", "failed", "pending"}
                  /\ jobs'[k].attempts \in {jobs[k].attempts, jobs[k].attempts - 1}
    PROVE  FenceInv'
  <1> USE DEF FenceInv
  <1>1. /\ claim'[w] = NoClaim
        /\ \A v \in Workers \ {w} : claim'[v] = claim[v]
    BY DEF Release, JobsTypeOK
  <1>2. RowsNumbered'
    BY DEF RowsNumbered, Holds
  <1>3. ClaimsBehindTable'
    <2> SUFFICES ASSUME NEW v \in Workers, claim'[v] # NoClaim
                 PROVE  LET k == claim'[v].key
                        IN  /\ claim'[v].row <= jobs'[k].row
                            /\ claim'[v].row = jobs'[k].row =>
                                  claim'[v].attempt <= jobs'[k].attempts
      BY DEF ClaimsBehindTable
    <2> DEFINE k == claim[v].key
    <2>1. v # w /\ claim'[v] = claim[v] /\ claim[v] # NoClaim
      BY <1>1
    <2>2. /\ k \in Keys
          /\ claim[v].attempt \in Nat
          /\ jobs[k].attempts \in Nat
      BY <2>1, ClaimFacts, JobsAssumption DEF Job
    <2>3. /\ claim[v].row <= jobs[k].row
          /\ claim[v].row = jobs[k].row => claim[v].attempt <= jobs[k].attempts
      BY <2>1 DEF ClaimsBehindTable
    <2>4. CASE jobs'[k] = jobs[k]
      BY <2>1, <2>3, <2>4
    <2>5. CASE jobs'[k] # jobs[k]
      <3>1. Holds(w) /\ k = claim[w].key /\ jobs'[k].row = jobs[k].row
            /\ jobs'[k].attempts \in {jobs[k].attempts, jobs[k].attempts - 1}
        BY <2>2, <2>5
      <3>2. claim[v].row = jobs[k].row => claim[v].attempt # jobs[k].attempts
        BY <2>1, <3>1 DEF FencedLease, Holds
      <3>3. QED
        BY <2>1, <2>2, <2>3, <3>1, <3>2
    <2>6. QED
      BY <2>4, <2>5
  <1>4. FencedLease'
    <2>1. \A v \in Workers : Holds(v)' => v # w /\ Holds(v) /\ claim'[v] = claim[v]
      <3> SUFFICES ASSUME NEW v \in Workers, Holds(v)'
                   PROVE  v # w /\ Holds(v) /\ claim'[v] = claim[v]
        OBVIOUS
      <3>1. v # w /\ claim'[v] = claim[v] /\ claim[v] # NoClaim
        BY <1>1 DEF Holds
      <3>2. claim[v].key \in Keys /\ jobs'[claim[v].key].status = "running"
        BY <3>1, ClaimFacts DEF Holds
      <3>3. jobs'[claim[v].key] = jobs[claim[v].key]
        BY <3>2
      <3>4. QED
        BY <3>1, <3>3 DEF Holds
    <2>2. QED
      BY <2>1 DEF FencedLease
  <1>5. QED
    BY <1>2, <1>3, <1>4

(* A new claim outranks every older claim of the same row. *)
LEMMA ClaimKeepsFence ==
    ASSUME FenceInv, NEW w \in Workers, NEW k \in Keys, ClaimDue(w, k)
    PROVE  FenceInv'
  <1> USE DEF FenceInv
  <1> DEFINE c == [key |-> k, row |-> jobs[k].row,
                   attempt |-> jobs[k].attempts + 1]
  <1>1. jobs[k] \in Job /\ jobs[k].status # "none" /\ jobs[k].attempts < MaxClaims
    BY DEF JobsTypeOK, ClaimDue, Due
  <1>2. /\ jobs[k].row \in 1 .. MaxRows
        /\ jobs[k].attempts \in Nat
        /\ jobs[k].attempts + 1 \in 1 .. MaxClaims
    BY <1>1, JobsAssumption DEF RowsNumbered, Job
  <1>3. c \in Claims /\ c # NoClaim
    BY <1>2, JobsAssumption DEF Claims
  <1>4. /\ claim'[w] = c
        /\ \A v \in Workers \ {w} : claim'[v] = claim[v]
    BY DEF ClaimDue, JobsTypeOK
  <1>5. /\ jobs'[k].row = jobs[k].row
        /\ jobs'[k].status = "running"
        /\ jobs'[k].attempts = jobs[k].attempts + 1
        /\ \A l \in Keys \ {k} : jobs'[l] = jobs[l]
    BY <1>1 DEF ClaimDue, JobsTypeOK, Job
  <1>6. JobsTypeOK' /\ RowsNumbered'
    BY ClaimKeepsTypes
  <1>8. \A v \in Workers \ {w} : claim[v] # NoClaim /\ claim[v].key = k
              /\ claim[v].row = jobs[k].row => claim[v].attempt < c.attempt
    <2> SUFFICES ASSUME NEW v \in Workers, claim[v] # NoClaim, claim[v].key = k,
                        claim[v].row = jobs[k].row
                 PROVE  claim[v].attempt < c.attempt
      OBVIOUS
    <2>1. claim[v].attempt \in Nat
      BY ClaimFacts
    <2>2. claim[v].attempt <= jobs[k].attempts
      BY DEF ClaimsBehindTable
    <2>3. QED
      BY <1>2, <2>1, <2>2
  <1>9. ClaimsBehindTable'
    <2> SUFFICES ASSUME NEW v \in Workers, claim'[v] # NoClaim
                 PROVE  LET l == claim'[v].key
                        IN  /\ claim'[v].row <= jobs'[l].row
                            /\ claim'[v].row = jobs'[l].row =>
                                  claim'[v].attempt <= jobs'[l].attempts
      BY DEF ClaimsBehindTable
    <2>1. CASE v = w
      BY <1>2, <1>4, <1>5, <2>1
    <2>2. CASE v # w
      <3>1. claim'[v] = claim[v] /\ claim[v] # NoClaim
        BY <1>4, <2>2
      <3>2. claim[v].key \in Keys /\ claim[v].attempt \in Nat
        BY <3>1, ClaimFacts
      <3>3. QED
        BY <1>2, <1>5, <3>1, <3>2 DEF ClaimsBehindTable
    <2>3. QED
      BY <2>1, <2>2
  <1>10. FencedLease'
    <2>1. \A v \in Workers \ {w} : Holds(v)' => Holds(v) /\ claim[v].key # k
      <3> SUFFICES ASSUME NEW v \in Workers \ {w}, Holds(v)'
                   PROVE  Holds(v) /\ claim[v].key # k
        OBVIOUS
      <3>1. claim'[v] = claim[v] /\ claim[v] # NoClaim
        BY <1>4 DEF Holds
      <3>2. claim[v].key \in Keys /\ claim[v].attempt \in Nat
        BY <3>1, ClaimFacts
      <3>3. claim[v].key # k
        BY <1>2, <1>5, <1>8, <3>1, <3>2 DEF Holds
      <3>4. QED
        BY <1>5, <3>1, <3>2, <3>3 DEF Holds
    <2>2. QED
      BY <1>4, <2>1 DEF FencedLease
  <1>11. QED
    BY <1>6, <1>9, <1>10

(* Completing, failing, rescheduling and stopping end a claim. *)
LEMMA AnswerKeepsFence ==
    ASSUME FenceInv, NEW w \in Workers, Answer(w)
    PROVE  FenceInv'
  <1> USE DEF FenceInv
  <1>1. claim[w] # NoClaim /\ Release(w)
    BY DEF Answer, CompleteJob, FailJob, WorkerStops, RescheduleJob
  <1>2. JobsTypeOK'
    BY AnswerKeepsTypes
  <1>3. claim[w].key \in Keys /\ jobs[claim[w].key] \in Job
    BY <1>1, ClaimFacts
  <1> DEFINE Ends(k) ==
          /\ Holds(w)
          /\ k = claim[w].key
          /\ jobs'[k].row = jobs[k].row
          /\ jobs'[k].status \in {"completed", "failed", "pending"}
          /\ jobs'[k].attempts \in {jobs[k].attempts, jobs[k].attempts - 1}
  <1>4. \A k \in Keys : jobs'[k] = jobs[k] \/ Ends(k)
    <2>1. CASE CompleteJob(w) \/ FailJob(w) \/ WorkerStops(w)
      BY SMTT(30), <1>3, <2>1 DEF CompleteJob, FailJob, WorkerStops, JobsTypeOK, Job
    <2>2. ASSUME NEW at \in Time, RescheduleJob(w, at)
          PROVE  \A k \in Keys : jobs'[k] = jobs[k] \/ Ends(k)
      BY <1>3, <2>2 DEF RescheduleJob, Rescheduled, JobsTypeOK, Job, Holds
    <2>3. QED
      BY <2>1, <2>2 DEF Answer
  <1>5. QED
    BY <1>1, <1>2, <1>4, ReleaseKeepsFence

(* Every step of the queue keeps the fence. *)
LEMMA FenceStep == FenceInv /\ [JobsNext]_jobVars => FenceInv'
  <1> SUFFICES ASSUME FenceInv, [JobsNext]_jobVars PROVE FenceInv'
    OBVIOUS
  <1>1. ASSUME NEW k \in Keys, LeaseExpires(k) PROVE FenceInv'
    <2>1. JobsTypeOK' /\ RowsNumbered'
      BY <1>1, LeaseKeepsTypes DEF FenceInv
    <2>2. /\ \A l \in Keys : /\ jobs'[l].row = jobs[l].row
                             /\ jobs'[l].status = jobs[l].status
                             /\ jobs'[l].attempts = jobs[l].attempts
          /\ claim' = claim
      BY <1>1 DEF FenceInv, LeaseExpires, JobsTypeOK, Job
    <2>3. \A w \in Workers : claim[w] # NoClaim => claim[w].key \in Keys
      BY DEF FenceInv, JobsTypeOK, Claims
    <2>4. QED
      BY <2>1, <2>2, <2>3
         DEF FenceInv, ClaimsBehindTable, FencedLease, Holds
  <1>2. CASE Tick
    BY <1>2, TickKeepsTypes DEF Tick, FenceInv, ClaimsBehindTable, FencedLease, Holds
  <1>3. CASE UNCHANGED jobVars
    BY <1>3 DEF jobVars, FenceInv, JobsTypeOK, RowsNumbered,
                ClaimsBehindTable, FencedLease, Holds
  <1>4. QED
    BY <1>1, <1>2, <1>3, EnqueueKeepsFence, ClaimKeepsFence, AnswerKeepsFence
       DEF JobsNext, Answer

(* The fence is an invariant of the queue: for every number of workers, at  *)
(* most one worker's answer about a job is accepted, and the types hold.    *)
THEOREM LeaseIsFenced == JobsSpec => [](JobsTypeOK /\ FencedLease)
  <1>1. FenceInv => JobsTypeOK /\ FencedLease
    BY DEF FenceInv
  <1>2. QED
    BY <1>1, FenceInit, FenceStep, PTL DEF JobsSpec

(* A row that waits for its retry is never ended by a late answer, and an   *)
(* ended row never comes back (complete_job, fail_job and reschedule_job    *)
(* all filter on a running row; enqueue inserts a new one).                 *)
THEOREM EndedAndPendingRows == JobsSpec => PendingOnlyClaimed /\ EndedRowsStay
  <1> DEFINE Ended == \A k \in Keys : jobs[k].status \in {"completed", "failed"} =>
          \/ jobs'[k].status = jobs[k].status /\ jobs'[k].row = jobs[k].row
          \/ jobs'[k].status = "pending" /\ jobs'[k].row = jobs[k].row + 1
  <1> DEFINE Waiting == \A k \in Keys : jobs[k].status = "pending" =>
          /\ jobs'[k].status \in {"pending", "running"}
          /\ jobs'[k].row = jobs[k].row
  <1>1. JobsTypeOK /\ [JobsNext]_jobVars => [Ended]_jobVars /\ [Waiting]_jobVars
    <2> SUFFICES ASSUME JobsTypeOK, JobsNext PROVE Ended /\ Waiting
      OBVIOUS
    <2>1. CASE jobs' = jobs
      BY <2>1
    <2>2. ASSUME NEW w \in Workers, Answer(w)
          PROVE  Ended /\ Waiting
      <3>1. claim[w] # NoClaim
        BY <2>2 DEF Answer, CompleteJob, FailJob, WorkerStops, RescheduleJob
      <3>2. claim[w].key \in Keys /\ jobs[claim[w].key] \in Job
        BY SMTT(30), <3>1, ClaimFacts
      <3>3. \A k \in Keys : jobs'[k] = jobs[k] \/ (Holds(w) /\ k = claim[w].key)
        BY <2>2, <3>2 DEF Answer, CompleteJob, FailJob, WorkerStops, RescheduleJob,
                          Rescheduled, JobsTypeOK
      <3>4. QED
        BY <3>3 DEF Holds
    <2>3. ASSUME NEW w \in Workers, NEW k \in Keys, ClaimDue(w, k)
          PROVE  Ended /\ Waiting
      BY <2>3 DEF ClaimDue, Due, JobsTypeOK, Job
    <2>4. ASSUME NEW k \in Keys, LeaseExpires(k)
          PROVE  Ended /\ Waiting
      BY <2>4 DEF LeaseExpires, JobsTypeOK, Job
    <2>5. ASSUME NEW p \in Producers, EnqueueBump(p) \/ EnqueueInsert(p)
          PROVE  Ended /\ Waiting
      <3>1. enq[p].key \in Keys /\ jobs[enq[p].key] \in Job
        BY DEF JobsTypeOK, Requests
      <3>2. CASE EnqueueBump(p)
        BY <3>1, <3>2 DEF EnqueueBump, JobsTypeOK, Job
      <3>3. CASE EnqueueInsert(p)
        BY SMTT(30), <3>1, <3>3 DEF EnqueueInsert, JobsTypeOK, Job, Live, NewRow
      <3>4. QED
        BY <2>5, <3>2, <3>3
    <2>6. QED
      BY <2>1, <2>2, <2>3, <2>4, <2>5
         DEF JobsNext, Answer, Enqueue, EnqueueProgress, EnqueueReturns,
             EnqueueFind, EnqueueRefind, Tick
  <1>2. JobsTypeOK /\ FencedLease => JobsTypeOK
    OBVIOUS
  <1>3. JobsSpec => [][Ended]_jobVars /\ [][Waiting]_jobVars
    BY <1>1, <1>2, LeaseIsFenced, PTL DEF JobsSpec
  <1>4. QED
    BY <1>3 DEF PendingOnlyClaimed, EndedRowsStay

----------------------------------------------------------------------------

(* The run has not been given a completion yet. *)
Early(s) == s \in {"created", "collecting"}

CompletionFits(r) ==
    /\ Early(r.state) => r.completion = NoCompletion
    /\ r.state = "settling" => r.completion # NoCompletion

Writing == {"reconcile_write", "complete_write", "cancel_write", "to_finalizing",
            "to_evaluating", "to_completed", "mark_failed_write"}

(* What a process about to call update_run holds. *)
HeldRow(a) ==
    pc[a] \in Writing =>
        /\ CanEnter(seen[a].state, row[a].state)
        /\ CompletionFits(row[a])
        /\ ~Early(seen[a].state) =>
              ~Early(run.state) /\ row[a].completion = run.completion
        /\ row[a].state \in {"evaluating", "completed"} => bundle # None
        /\ row[a].state = "completed" => summary # None

(* What a worker inside a timeout or a finalization holds. *)
HeldEvidence(w) ==
    /\ pc[w] \in {"timeout", "complete"} => work[w].completion # NoCompletion
    /\ pc[w] = "to_finalizing" => row[w].state = "finalizing"
    /\ pc[w] \in {"list_spans", "insert_bundle"} =>
          /\ row[w].state = "finalizing"
          /\ row[w].completion = run.completion
          /\ ~AcceptsSpans(run.state)
    /\ pc[w] = "insert_bundle" => work[w].evidence = Assigned

(* What a worker inside evaluation holds. *)
HeldVerdict(w) ==
    /\ pc[w] = "save_summary" => bundle # None /\ work[w].evidence = bundle.spans
    /\ pc[w] \in {"reread", "evaluate_replay"} => summary # None
    /\ pc[w] = "finalize_replay" => bundle # None

WorkerLabels == Labels \ {"ready", "done", "failed", "authorize", "insert",
                          "reconcile", "reconcile_write", "cancel_write"}

BatchLabels == {"ready", "done", "failed", "authorize", "insert", "reconcile",
                "reconcile_write", "enqueue"}

CallLabels == {"ready", "done", "failed", "complete_write", "cancel_write", "enqueue"}

(* Where a process can be, and what it needs there. *)
WorkerPlace(w) ==
    /\ pc[w] \in WorkerLabels
    /\ claim[w] = NoClaim <=> pc[w] \in {"idle", "mark_failed", "mark_failed_write"}

BatchPlace(b) ==
    /\ pc[b] \in BatchLabels
    /\ pc[b] = "authorize" => batch[b].next = 1
    /\ pc[b] = "insert" => batch[b].next \in 1 .. Len(BatchSpans[b])

ProcessInv(a) ==
    /\ HeldRow(a)
    /\ a \in Workers => HeldEvidence(a) /\ HeldVerdict(a) /\ WorkerPlace(a)
    /\ a \in Batches => BatchPlace(a)
    /\ a \in Calls => pc[a] \in CallLabels

StoreInv ==
    /\ CompletionFits(run)
    /\ EvidenceIsComplete
    /\ VerdictFromEvidence

RunsInv == TypeOK /\ RowsNumbered /\ StoreInv /\ \A a \in Actors : ProcessInv(a)

----------------------------------------------------------------------------
(* Types of the operators *)

LEMMA ActorFacts ==
    /\ Workers \subseteq Actors /\ Batches \subseteq Actors /\ Calls \subseteq Actors
    /\ Producers = Actors
    /\ Keys = JobKinds
    /\ Workers \cap Batches = {} /\ Workers \cap Calls = {} /\ Batches \cap Calls = {}
  BY RunsAssumption DEF Actors

LEMMA StampFacts ==
    /\ None \in Stamp
    /\ Claims \subseteq Stamp
    /\ \A a \in Actors : CallStamp(a) \in Stamp
    /\ \A b \in Batches, n \in Nat : SpanStamp(b, n) \in Stamp
  BY ActorFacts DEF Stamp, CallStamp, SpanStamp

LEMMA TimeFacts ==
    /\ 0 \in Time
    /\ \A t \in Nat : Cap(t) \in Time
    /\ \A t \in Time : t \in Nat /\ SettleEnd(t) \in Time
    /\ \A t \in Time : /\ Cap(t + SettleSeconds) \in Time
                      /\ Cap(t + IdleSeconds) \in Time
                      /\ Cap(t + Backoff) \in Time
  BY JobsAssumption, RunsAssumption DEF Time, Cap, SettleEnd

(* What transition_to and begin_settling do to a well-formed row. *)
LEMMA TransitionFacts ==
    ASSUME NEW r \in Run, NEW t \in RunStates, NEW stamp \in Stamp
    PROVE  /\ TransitionTo(r, t, stamp) \in Run
           /\ TransitionTo(r, t, stamp).state = t
           /\ TransitionTo(r, t, stamp).completion = r.completion
  BY DEF TransitionTo, Run

LEMMA SettlingFacts ==
    ASSUME NEW r \in Run, NEW c \in Completions, NEW until \in Time,
           NEW stamp \in Stamp, CompletionFits(r), CanBeginSettling(r, c)
    PROVE  LET s == BeginSettling(r, c, until, stamp)
           IN  /\ s \in Run
               /\ CanEnter(r.state, s.state)
               /\ CompletionFits(s)
               /\ ~Early(r.state) => s.completion = r.completion
               /\ s.state \in {r.state, "settling"}
  <1>1. SettleEnd(until) \in Time
    BY TimeFacts
  <1>2. c # NoCompletion /\ "settling" \in RunStates
    BY RunsAssumption DEF RunStates
  <1>3. CASE r.completion = NoCompletion
    <2>1. CanEnter(r.state, "settling") /\ r.state # "settling"
      BY <1>3 DEF CanBeginSettling, CompletionFits
    <2>2. Early(r.state)
      BY <2>1 DEF CanEnter, Allowed, Early, IsTerminal
    <2> DEFINE t == TransitionTo(r, "settling", stamp)
    <2>3. t \in Run /\ t.state = "settling"
      BY <1>2, TransitionFacts
    <2>4. BeginSettling(r, c, until, stamp) =
             [t EXCEPT !.completion = c, !.settleUntil = SettleEnd(until)]
      BY <1>3 DEF BeginSettling
    <2> DEFINE s == [t EXCEPT !.completion = c, !.settleUntil = SettleEnd(until)]
    <2>5. s \in Run
      BY <1>1, <2>3 DEF Run
    <2>6. s.state = "settling" /\ s.completion = c
      BY <2>3 DEF Run
    <2>7. QED
      BY <1>2, <2>1, <2>2, <2>4, <2>5, <2>6 DEF CompletionFits, Early
  <1>4. CASE r.completion # NoCompletion
    BY <1>1, <1>4 DEF BeginSettling, Run, CompletionFits, CanEnter
  <1>5. QED
    BY <1>3, <1>4

----------------------------------------------------------------------------
(* One process moves, the others keep what they hold. *)

(* The four facts about the store that no step takes back. *)
Monotone ==
    /\ ~Early(run.state) => ~Early(run'.state) /\ run'.completion = run.completion
    /\ ~AcceptsSpans(run.state) => ~AcceptsSpans(run'.state) /\ Assigned' = Assigned
    /\ bundle # None => bundle' = bundle
    /\ summary # None => summary' = summary

OthersRest(a) ==
    \A x \in Actors \ {a} :
        /\ pc'[x] = pc[x] /\ seen'[x] = seen[x] /\ row'[x] = row[x]
        /\ x \in Workers => work'[x] = work[x] /\ claim'[x] = claim[x]
        /\ x \in Batches => batch'[x] = batch[x]

LEMMA OthersKeep ==
    ASSUME StoreInv, Monotone, NEW x \in Actors, ProcessInv(x),
           pc'[x] = pc[x], seen'[x] = seen[x], row'[x] = row[x],
           x \in Workers => work'[x] = work[x] /\ claim'[x] = claim[x],
           x \in Batches => batch'[x] = batch[x]
    PROVE  ProcessInv(x)'
  <1>1. HeldRow(x)'
    BY DEF ProcessInv, HeldRow, Monotone
  <1>2. ASSUME x \in Workers PROVE HeldEvidence(x)' /\ HeldVerdict(x)' /\ WorkerPlace(x)'
    <2>1. \A s : ~AcceptsSpans(s) => ~Early(s)
      BY DEF AcceptsSpans, Early
    <2>2. HeldEvidence(x)'
      BY <1>2, <2>1 DEF ProcessInv, HeldEvidence, Monotone
    <2>3. HeldVerdict(x)'
      BY <1>2 DEF ProcessInv, HeldVerdict, Monotone
    <2>4. WorkerPlace(x)'
      BY <1>2 DEF ProcessInv, WorkerPlace
    <2>5. QED
      BY <2>2, <2>3, <2>4
  <1>3. x \in Batches => BatchPlace(x)'
    BY DEF ProcessInv, BatchPlace
  <1>4. x \in Calls => pc'[x] \in CallLabels
    BY DEF ProcessInv
  <1>5. QED
    BY <1>1, <1>2, <1>3, <1>4 DEF ProcessInv

LEMMA MoveKeeps ==
    ASSUME RunsInv, NEW a \in Actors, OthersRest(a), Monotone,
           TypeOK', RowsNumbered', StoreInv', ProcessInv(a)'
    PROVE  RunsInv'
  <1>1. ASSUME NEW x \in Actors PROVE ProcessInv(x)'
    <2>1. CASE x = a
      BY <2>1
    <2>2. CASE x # a
      BY <2>2, OthersKeep DEF RunsInv, OthersRest
    <2>3. QED
      BY <2>1, <2>2
  <1>2. QED
    BY <1>1 DEF RunsInv

(* A step that leaves the store alone. *)
LEMMA StoreRests ==
    ASSUME TypeOK, StoreInv, UNCHANGED store
    PROVE  Monotone /\ StoreInv' /\ StoreTypeOK'
  <1>1. Assigned' = Assigned
    BY DEF store, Assigned
  <1>2. QED
    BY <1>1 DEF store, Monotone, StoreInv, EvidenceIsComplete, VerdictFromEvidence,
                TypeOK, StoreTypeOK

LEMMA GotoFacts ==
    ASSUME MemoryTypeOK, NEW a \in Actors, NEW label \in Labels, Goto(a, label)
    PROVE  /\ pc' \in [Actors -> Labels]
           /\ pc'[a] = label
           /\ \A x \in Actors \ {a} : pc'[x] = pc[x]
  BY DEF Goto, MemoryTypeOK

LEMMA PrepareFacts ==
    ASSUME MemoryTypeOK, StoreTypeOK, NEW a \in Actors, NEW r \in Run, Prepare(a, r)
    PROVE  /\ seen' \in [Actors -> Version] /\ row' \in [Actors -> Run]
           /\ seen'[a].state = run.state /\ row'[a] = r
           /\ \A x \in Actors \ {a} : seen'[x] = seen[x] /\ row'[x] = row[x]
  BY DEF Prepare, MemoryTypeOK, StoreTypeOK, Version, Run

LEMMA NewRunType == NewRun \in Run /\ NotSeen \in Version /\ CompletionFits(NewRun)
  BY TimeFacts, StampFacts
     DEF NewRun, NotSeen, Run, Version, RunStates, CompletionFits, Early

LEMMA ForgetFacts ==
    ASSUME MemoryTypeOK, NEW a \in Actors, Forget(a)
    PROVE  /\ seen' \in [Actors -> Version] /\ row' \in [Actors -> Run]
           /\ \A x \in Actors \ {a} : seen'[x] = seen[x] /\ row'[x] = row[x]
  BY NewRunType DEF Forget, MemoryTypeOK

LEMMA RequestFacts ==
    ASSUME JobsTypeOK, NEW a \in Actors, NEW k \in JobKinds, NEW t \in Time,
           enq' = [enq EXCEPT ![a] = Request(k, t)]
    PROVE  enq' \in [Producers -> Requests]
  <1>1. Request(k, t) \in Requests
    BY NoRequestType, ActorFacts DEF Request, Requests, EnqueueStep
  <1>2. QED
    BY <1>1 DEF JobsTypeOK

(* Every call of update_run: the row is written only over the version it    *)
(* was computed from.                                                       *)
LEMMA WriteKeeps ==
    ASSUME RunsInv, NEW a \in Actors, pc[a] \in Writing,
           UNCHANGED <<spans, bundle, summary>>,
           run' = run \/ (Unchanged(a) /\ run' = row[a])
    PROVE  /\ Monotone /\ StoreInv' /\ StoreTypeOK'
           /\ CanEnter(run.state, run'.state)
  <1>1. StoreTypeOK'
    BY DEF RunsInv, TypeOK, StoreTypeOK, MemoryTypeOK
  <1>2. Assigned' = Assigned
    BY DEF Assigned
  <1>3. CASE run' = run
    BY <1>1, <1>2, <1>3
       DEF RunsInv, StoreInv, EvidenceIsComplete, VerdictFromEvidence, Monotone, CanEnter
  <1>4. CASE Unchanged(a) /\ run' = row[a]
    <2>1. seen[a].state = run.state
      BY <1>4 DEF Unchanged
    <2>2. /\ CanEnter(run.state, run'.state)
          /\ CompletionFits(run)'
          /\ ~Early(run.state) => run'.completion = run.completion
          /\ run'.state \in {"evaluating", "completed"} => bundle # None
          /\ run'.state = "completed" => summary # None
      BY <1>4, <2>1 DEF RunsInv, ProcessInv, HeldRow, CompletionFits
    <2>3. \A s, t : CanEnter(s, t) => /\ ~Early(s) => ~Early(t)
                                      /\ ~AcceptsSpans(s) => ~AcceptsSpans(t)
      BY DEF CanEnter, Allowed, Early, AcceptsSpans, IsTerminal
    <2>4. \A s : ~AcceptsSpans(s) => ~Early(s)
      BY DEF Early, AcceptsSpans
    <2>5. Monotone
      BY <1>2, <2>2, <2>3 DEF Monotone
    <2>6. EvidenceIsComplete'
      BY <1>2, <2>2, <2>3, <2>4 DEF RunsInv, StoreInv, EvidenceIsComplete
    <2>7. VerdictFromEvidence'
      BY <2>2 DEF RunsInv, StoreInv, VerdictFromEvidence
    <2>8. QED
      BY <1>1, <2>2, <2>5, <2>6, <2>7 DEF StoreInv
  <1>5. QED
    BY <1>3, <1>4

----------------------------------------------------------------------------
(* The gateway *)

(* A span's outcome moves the request to the next span or past the last.    *)
LEMMA SpanDoneFacts ==
    ASSUME RunsInv, NEW b \in Batches, pc[b] = "insert",
           NEW m \in BOOLEAN, NEW i \in BOOLEAN, SpanDone(b, m, i)
    PROVE  /\ batch' \in [Batches -> Progress]
           /\ \A x \in Batches \ {b} : batch'[x] = batch[x]
           /\ pc' \in [Actors -> Labels]
           /\ \A x \in Actors \ {b} : pc'[x] = pc[x]
           /\ pc'[b] \in {"insert", "reconcile", "done"}
           /\ BatchPlace(b)'
           /\ CurrentSpan(b) \in Spans
  <1>1. batch[b] \in Progress /\ now \in Time /\ b \in Actors
    BY ActorFacts DEF RunsInv, TypeOK, MemoryTypeOK, JobsTypeOK
  <1>2. /\ batch[b].next \in 1 .. Len(BatchSpans[b])
        /\ BatchSpans[b] \in Seq(Spans)
    BY <1>1, RunsAssumption DEF RunsInv, ProcessInv, BatchPlace
  <1>3. CurrentSpan(b) \in Spans
    BY <1>2 DEF CurrentSpan
  <1> DEFINE counted == IF m
                        THEN [batch[b] EXCEPT
                                !.merged = TRUE, !.last = batch[b].next, !.at = now,
                                !.inserted = @ \/ i,
                                !.terminal = @ \/ CurrentSpan(b) \in TerminalSpans]
                        ELSE batch[b]
             isLast == batch[b].next = Len(BatchSpans[b])
             label == IF ~isLast THEN "insert"
                      ELSE IF counted.merged THEN "reconcile" ELSE "done"
  <1>4. /\ batch' = [batch EXCEPT ![b] = [counted EXCEPT !.next = @ + 1]]
        /\ Goto(b, label)
    BY DEF SpanDone
  <1>5. counted \in Progress /\ counted.next = batch[b].next
    <2> DEFINE u == batch[b].inserted \/ i
               v == batch[b].terminal \/ CurrentSpan(b) \in TerminalSpans
               q == [batch[b] EXCEPT !.merged = TRUE, !.last = batch[b].next,
                                     !.at = now, !.inserted = u, !.terminal = v]
    <2>1. u \in BOOLEAN /\ v \in BOOLEAN
      OBVIOUS
    <2>2. counted = IF m THEN q ELSE batch[b]
      OBVIOUS
    <2> HIDE DEF u, v
    <2>3. q \in Progress /\ q.next = batch[b].next
      BY <1>1, <2>1 DEF Progress
    <2>4. QED
      BY <1>1, <2>2, <2>3
  <1> HIDE DEF counted
  <1>6. [counted EXCEPT !.next = @ + 1] \in Progress
    BY <1>5 DEF Progress
  <1>7. /\ batch' \in [Batches -> Progress]
        /\ batch'[b].next = batch[b].next + 1
        /\ \A x \in Batches \ {b} : batch'[x] = batch[x]
    BY <1>4, <1>5, <1>6 DEF RunsInv, TypeOK, MemoryTypeOK, Progress
  <1>8. label \in {"insert", "reconcile", "done"} /\ label \in Labels
    BY DEF Labels, Resting
  <1> HIDE DEF label
  <1>9. /\ pc' \in [Actors -> Labels] /\ pc'[b] = label
        /\ \A x \in Actors \ {b} : pc'[x] = pc[x]
    BY <1>1, <1>4, <1>8, GotoFacts DEF RunsInv, TypeOK
  <1>10. label = "insert" => batch[b].next + 1 \in 1 .. Len(BatchSpans[b])
    BY <1>2 DEF label
  <1>11. BatchPlace(b)'
    BY <1>7, <1>8, <1>9, <1>10 DEF BatchPlace, BatchLabels
  <1>12. QED
    BY <1>3, <1>7, <1>8, <1>9, <1>11

LEMMA InsertKeeps ==
    ASSUME RunsInv, NEW b \in Batches,
           InsertDuplicate(b) \/ InsertLate(b) \/ InsertRefused(b) \/ InsertAccepted(b)
    PROVE  RunsInv'
  <1> USE DEF RunsInv
  <1>1. /\ pc[b] = "insert" /\ b \in Actors
        /\ b \notin Workers /\ b \notin Calls
        /\ \E m, i \in BOOLEAN : SpanDone(b, m, i)
        /\ UNCHANGED <<now, jobs, claim, enq, bundle, summary, seen, row, work, budgets>>
    BY ActorFacts DEF InsertDuplicate, InsertLate, InsertRefused, InsertAccepted, store
  <1>2. /\ batch' \in [Batches -> Progress]
        /\ \A x \in Batches \ {b} : batch'[x] = batch[x]
        /\ pc' \in [Actors -> Labels]
        /\ \A x \in Actors \ {b} : pc'[x] = pc[x]
        /\ pc'[b] \in {"insert", "reconcile", "done"}
        /\ BatchPlace(b)'
        /\ CurrentSpan(b) \in Spans
    BY <1>1, SpanDoneFacts
  <1>3. OthersRest(b)
    BY <1>1, <1>2 DEF OthersRest
  <1>4. ProcessInv(b)'
    BY <1>1, <1>2 DEF ProcessInv, HeldRow, Writing
  <1>5. JobsTypeOK' /\ RowsNumbered' /\ MemoryTypeOK' /\ BudgetTypeOK'
    BY <1>1, <1>2
       DEF TypeOK, JobsTypeOK, RowsNumbered, MemoryTypeOK, BudgetTypeOK, budgets
  <1>6. Monotone /\ StoreInv' /\ StoreTypeOK'
    <2>1. CASE InsertDuplicate(b) \/ InsertRefused(b)
      BY <2>1, StoreRests DEF InsertDuplicate, InsertRefused
    <2>2. CASE InsertLate(b)
      <3>1. run' = run /\ spans' = [spans EXCEPT ![CurrentSpan(b)] = "late"]
            /\ spans[CurrentSpan(b)] = "absent"
        BY <2>2 DEF InsertLate
      <3>2. StoreTypeOK'
        BY <1>1, <3>1 DEF TypeOK, StoreTypeOK
      <3>3. Assigned' = Assigned
        BY <1>2, <3>1 DEF Assigned, TypeOK, StoreTypeOK
      <3>4. QED
        BY <1>1, <3>1, <3>2, <3>3
           DEF StoreInv, EvidenceIsComplete, VerdictFromEvidence, Monotone
    <2>3. CASE InsertAccepted(b)
      <3>1. /\ AcceptsSpans(run.state)
            /\ spans' = [spans EXCEPT ![CurrentSpan(b)] = "assigned"]
            /\ run' = [run EXCEPT !.lastSeen = now, !.spanCount = @ + 1,
                                  !.updatedAt = SpanStamp(b, batch[b].next)]
        BY <2>3 DEF InsertAccepted
      <3>2. SpanStamp(b, batch[b].next) \in Stamp
        BY StampFacts DEF TypeOK, MemoryTypeOK, Progress
      <3>3. run' \in Run /\ run'.state = run.state /\ run'.completion = run.completion
        <4>1. run \in Run /\ now \in Time
          BY DEF TypeOK, StoreTypeOK, JobsTypeOK
        <4> DEFINE n == run.spanCount + 1
                   stamp == SpanStamp(b, batch[b].next)
        <4>2. n \in Nat
          BY <4>1 DEF Run
        <4>3. run' = [run EXCEPT !.lastSeen = now, !.spanCount = n, !.updatedAt = stamp]
          BY <3>1
        <4> HIDE DEF n, stamp
        <4>4. stamp \in Stamp
          BY <3>2 DEF stamp
        <4>5. QED
          BY <4>1, <4>2, <4>3, <4>4 DEF Run
      <3>4. StoreTypeOK'
        BY <1>1, <3>1, <3>3 DEF TypeOK, StoreTypeOK
      <3>5. bundle = None
        BY <3>1 DEF StoreInv, EvidenceIsComplete
      <3>6. QED
        BY <1>1, <3>1, <3>3, <3>4, <3>5
           DEF StoreInv, EvidenceIsComplete, VerdictFromEvidence, Monotone, CompletionFits
    <2>4. QED
      BY <2>1, <2>2, <2>3
  <1>7. QED
    BY <1>1, <1>3, <1>4, <1>5, <1>6, MoveKeeps DEF TypeOK

(* What reconciliation prepares is a legal successor of the row it read.    *)
LEMMA ReconciledFacts ==
    ASSUME RunsInv, NEW b \in Batches
    PROVE  LET r == Reconciled(b)
           IN  /\ r \in Run
               /\ CanEnter(run.state, r.state)
               /\ CompletionFits(r)
               /\ ~Early(run.state) => r.completion = run.completion
               /\ r = run \/ r.state \in {"collecting", "settling"}
  <1> DEFINE stamp == SpanStamp(b, batch[b].last)
             until == SettleEnd(Cap(batch[b].at + SettleSeconds))
             r == Reconciled(b)
  <1>1. /\ run \in Run /\ stamp \in Stamp /\ CompletionFits(run)
        /\ Cap(batch[b].at + SettleSeconds) \in Time
        /\ until \in Time
    BY StampFacts, TimeFacts
       DEF RunsInv, TypeOK, StoreTypeOK, MemoryTypeOK, Progress, StoreInv
  <1>2. CASE batch[b].terminal /\ run.state \in {"created", "collecting"}
    <2>1. CanBeginSettling(run, "terminal_event")
      BY <1>1, <1>2 DEF CanBeginSettling, CompletionFits, Early, CanEnter, Allowed
    <2>2. r = BeginSettling(run, "terminal_event", Cap(batch[b].at + SettleSeconds), stamp)
      BY <1>2 DEF Reconciled
    <2>3. run.completion = NoCompletion
      BY <1>2 DEF RunsInv, StoreInv, CompletionFits, Early
    <2>4. r.state = "settling"
      BY <1>1, <2>2, <2>3, TransitionFacts DEF BeginSettling, RunStates, Run
    <2>5. QED
      BY <1>1, <2>1, <2>2, <2>4, SettlingFacts, RunsAssumption
  <1>3. CASE ~(batch[b].terminal /\ run.state \in {"created", "collecting"})
             /\ run.state = "created"
    <2>1. r = TransitionTo(run, "collecting", stamp)
      BY <1>3 DEF Reconciled
    <2> HIDE DEF r, stamp
    <2>2. r \in Run /\ r.state = "collecting" /\ r.completion = run.completion
      <3>1. "collecting" \in RunStates
        BY DEF RunStates
      <3>2. QED
        BY <1>1, <2>1, <3>1, TransitionFacts
    <2>3. QED
      BY <1>1, <1>3, <2>2 DEF CompletionFits, Early, CanEnter, Allowed, r
  <1>4. CASE r = run
    BY <1>1, <1>4 DEF CanEnter
  <1>5. CASE /\ run.state = "settling"
             /\ r = [run EXCEPT !.settleUntil = until, !.updatedAt = stamp]
    <2> HIDE DEF until, stamp, r
    <2>1. r \in Run /\ r.state = run.state /\ r.completion = run.completion
      BY <1>1, <1>5 DEF Run
    <2>2. QED
      BY <1>1, <1>5, <2>1 DEF CompletionFits, Early, CanEnter, r
  <1>6. QED
    BY <1>2, <1>3, <1>4, <1>5 DEF Reconciled

LEMMA ScheduleFacts ==
    ASSUME RunsInv, NEW b \in Batches, NEW r \in Run, Schedule(b, r)
    PROVE  /\ enq' \in [Producers -> Requests]
           /\ pc' \in [Actors -> Labels]
           /\ pc'[b] \in {"enqueue", "done"}
           /\ \A x \in Actors \ {b} : pc'[x] = pc[x]
  <1>1. b \in Actors /\ batch[b].at \in Time /\ r.settleUntil \in Time
    BY ActorFacts DEF RunsInv, TypeOK, MemoryTypeOK, Progress, Run
  <1>2. Cap(batch[b].at + IdleSeconds) \in Time
    BY <1>1, TimeFacts
  <1>3. enq' \in [Producers -> Requests]
    <2>1. CASE r.state = "settling"
      <3>1. enq' = [enq EXCEPT ![b] = Request("finalize", r.settleUntil)]
        BY <2>1 DEF Schedule
      <3>2. "finalize" \in JobKinds
        BY DEF JobKinds
      <3>3. QED
        BY <1>1, <3>1, <3>2, RequestFacts DEF RunsInv, TypeOK
    <2>2. CASE r.state = "collecting"
      <3>1. enq' = [enq EXCEPT ![b] = Request("idle", Cap(batch[b].at + IdleSeconds))]
        BY <2>2 DEF Schedule
      <3>2. "idle" \in JobKinds
        BY DEF JobKinds
      <3>3. QED
        BY <1>1, <1>2, <3>1, <3>2, RequestFacts DEF RunsInv, TypeOK
    <2>3. CASE r.state \notin {"settling", "collecting"}
      <3>1. enq' = enq
        BY <2>3 DEF Schedule
      <3>2. QED
        BY <3>1 DEF RunsInv, TypeOK, JobsTypeOK
    <2>4. QED
      BY <2>1, <2>2, <2>3
  <1>4. \E label \in {"enqueue", "done"} : Goto(b, label)
    BY DEF Schedule
  <1>5. {"enqueue", "done"} \subseteq Labels
    BY DEF Labels, Resting
  <1>6. PICK label \in {"enqueue", "done"} : Goto(b, label)
    BY <1>4
  <1>7. QED
    BY <1>1, <1>3, <1>5, <1>6, GotoFacts DEF RunsInv, TypeOK

LEMMA ReconcileReadKeeps ==
    ASSUME RunsInv, NEW b \in Batches, ReconcileRead(b)
    PROVE  RunsInv'
  <1> DEFINE r == Reconciled(b)
  <1>1. /\ b \in Actors /\ b \notin Workers /\ b \notin Calls
        /\ UNCHANGED <<now, jobs, claim, store, batch, work, budgets>>
    BY ActorFacts DEF ReconcileRead
  <1>2. Monotone /\ StoreInv' /\ StoreTypeOK'
    BY <1>1, StoreRests DEF RunsInv
  <1>3. run' = run /\ bundle' = bundle /\ summary' = summary
    BY <1>1 DEF store
  <1>4. CASE r = run
    <2>1. Schedule(b, run) /\ UNCHANGED <<seen, row>>
      BY <1>4 DEF ReconcileRead
    <2>2. run \in Run
      BY DEF RunsInv, TypeOK, StoreTypeOK
    <2>3. /\ enq' \in [Producers -> Requests]
          /\ pc' \in [Actors -> Labels]
          /\ pc'[b] \in {"enqueue", "done"}
          /\ \A x \in Actors \ {b} : pc'[x] = pc[x]
      BY <2>1, <2>2, ScheduleFacts
    <2>4. TypeOK' /\ RowsNumbered'
      BY <1>1, <1>2, <2>1, <2>3
         DEF RunsInv, TypeOK, JobsTypeOK, RowsNumbered, MemoryTypeOK, BudgetTypeOK, budgets
    <2>5. OthersRest(b)
      BY <1>1, <2>1, <2>3 DEF OthersRest
    <2>6. ProcessInv(b)'
      BY <1>1, <2>3 DEF ProcessInv, HeldRow, Writing, BatchPlace, BatchLabels
    <2>7. QED
      BY <1>1, <1>2, <2>4, <2>5, <2>6, MoveKeeps
  <1>5. CASE r # run
    <2>1. Prepare(b, r) /\ Goto(b, "reconcile_write") /\ enq' = enq
      BY <1>5 DEF ReconcileRead
    <2>2. /\ r \in Run
          /\ CanEnter(run.state, r.state)
          /\ CompletionFits(r)
          /\ ~Early(run.state) => r.completion = run.completion
          /\ r.state \in {"collecting", "settling"}
      BY <1>5, ReconciledFacts
    <2> HIDE DEF r
    <2>3. /\ seen' \in [Actors -> Version] /\ row' \in [Actors -> Run]
          /\ seen'[b].state = run.state /\ row'[b] = r
          /\ \A x \in Actors \ {b} : seen'[x] = seen[x] /\ row'[x] = row[x]
      BY <1>1, <2>1, <2>2, PrepareFacts DEF RunsInv, TypeOK
    <2>4. "reconcile_write" \in Labels
      BY DEF Labels
    <2>5. /\ pc' \in [Actors -> Labels] /\ pc'[b] = "reconcile_write"
          /\ \A x \in Actors \ {b} : pc'[x] = pc[x]
      BY <1>1, <2>1, <2>4, GotoFacts DEF RunsInv, TypeOK
    <2>6. TypeOK' /\ RowsNumbered'
      BY <1>1, <1>2, <2>1, <2>3, <2>5
         DEF RunsInv, TypeOK, JobsTypeOK, RowsNumbered, MemoryTypeOK, BudgetTypeOK, budgets
    <2>7. OthersRest(b)
      BY <1>1, <2>3, <2>5 DEF OthersRest
    <2>8. HeldRow(b)'
      BY <1>3, <2>2, <2>3, <2>5 DEF HeldRow
    <2>9. ProcessInv(b)'
      BY <1>1, <2>5, <2>8 DEF ProcessInv, BatchPlace, BatchLabels
    <2>10. QED
      BY <1>1, <1>2, <2>6, <2>7, <2>9, MoveKeeps
  <1>6. QED
    BY <1>4, <1>5

LEMMA ReconcileWriteKeeps ==
    ASSUME RunsInv, NEW b \in Batches, ReconcileWrite(b)
    PROVE  RunsInv' /\ CanEnter(run.state, run'.state)
  <1>1. /\ b \in Actors /\ b \notin Workers /\ b \notin Calls
        /\ pc[b] = "reconcile_write" /\ Forget(b)
        /\ UNCHANGED <<now, jobs, claim, spans, bundle, summary, work, budgets>>
    BY ActorFacts DEF ReconcileWrite
  <1>2. run' = run \/ (Unchanged(b) /\ run' = row[b])
    BY DEF ReconcileWrite
  <1>3. Monotone /\ StoreInv' /\ StoreTypeOK' /\ CanEnter(run.state, run'.state)
    BY <1>1, <1>2, WriteKeeps DEF Writing
  <1>4. /\ seen' \in [Actors -> Version] /\ row' \in [Actors -> Run]
        /\ \A x \in Actors \ {b} : seen'[x] = seen[x] /\ row'[x] = row[x]
    BY <1>1, ForgetFacts DEF RunsInv, TypeOK
  <1>5. /\ enq' \in [Producers -> Requests]
        /\ pc' \in [Actors -> Labels]
        /\ pc'[b] \in {"enqueue", "done", "reconcile", "failed"}
        /\ \A x \in Actors \ {b} : pc'[x] = pc[x]
        /\ batch' \in [Batches -> Progress]
        /\ \A x \in Batches \ {b} : batch'[x] = batch[x]
    <2>1. CASE Unchanged(b)
      <3>1. Schedule(b, row[b]) /\ batch' = batch
        BY <2>1 DEF ReconcileWrite
      <3>2. row[b] \in Run
        BY <1>1 DEF RunsInv, TypeOK, MemoryTypeOK
      <3>3. QED
        BY <1>1, <3>1, <3>2, ScheduleFacts DEF RunsInv, TypeOK, MemoryTypeOK
    <2>2. CASE ~Unchanged(b)
      <3>1. /\ \E label \in {"reconcile", "failed"} : Goto(b, label)
            /\ batch' = [batch EXCEPT ![b].tries = @ + 1]
            /\ enq' = enq
        BY <2>2 DEF ReconcileWrite
      <3>2. {"reconcile", "failed"} \subseteq Labels
        BY DEF Labels, Resting
      <3>3. PICK label \in {"reconcile", "failed"} : Goto(b, label)
        BY <3>1
      <3>4. /\ pc' \in [Actors -> Labels] /\ pc'[b] = label
            /\ \A x \in Actors \ {b} : pc'[x] = pc[x]
        BY <1>1, <3>2, <3>3, GotoFacts DEF RunsInv, TypeOK
      <3>5. batch' \in [Batches -> Progress] /\ \A x \in Batches \ {b} : batch'[x] = batch[x]
        BY <3>1 DEF RunsInv, TypeOK, MemoryTypeOK, Progress
      <3>6. QED
        BY <3>1, <3>4, <3>5 DEF RunsInv, TypeOK, JobsTypeOK
    <2>3. QED
      BY <2>1, <2>2
  <1>6. TypeOK' /\ RowsNumbered'
    BY <1>1, <1>3, <1>4, <1>5
       DEF RunsInv, TypeOK, JobsTypeOK, RowsNumbered, MemoryTypeOK, BudgetTypeOK, budgets
  <1>7. OthersRest(b)
    BY <1>1, <1>4, <1>5 DEF OthersRest
  <1>8. ProcessInv(b)'
    BY <1>1, <1>5 DEF ProcessInv, HeldRow, Writing, BatchPlace, BatchLabels
  <1>9. QED
    BY <1>1, <1>3, <1>6, <1>7, <1>8, MoveKeeps

LEMMA SendKeeps ==
    ASSUME RunsInv, NEW b \in Batches, SendBatch(b) \/ Authorize(b)
    PROVE  RunsInv'
  <1>1. /\ b \in Actors /\ b \notin Workers /\ b \notin Calls
        /\ UNCHANGED <<now, jobs, claim, enq, store, seen, row, work, budgets>>
    BY ActorFacts DEF SendBatch, Authorize, memory
  <1>2. Monotone /\ StoreInv' /\ StoreTypeOK'
    BY <1>1, StoreRests DEF RunsInv
  <1>3. PICK label \in {"authorize", "insert", "done"} : Goto(b, label)
    BY DEF SendBatch, Authorize
  <1>4. label \in Labels
    BY DEF Labels, Resting
  <1>5. /\ pc' \in [Actors -> Labels] /\ pc'[b] = label
        /\ \A x \in Actors \ {b} : pc'[x] = pc[x]
    BY <1>1, <1>3, <1>4, GotoFacts DEF RunsInv, TypeOK
  <1>6. /\ batch' \in [Batches -> Progress]
        /\ \A x \in Batches \ {b} : batch'[x] = batch[x]
    <2>1. NewBatch \in Progress
      BY TimeFacts DEF NewBatch, Progress
    <2>2. [NewBatch EXCEPT !.sends = batch[b].sends + 1] \in Progress
      BY <2>1 DEF RunsInv, TypeOK, MemoryTypeOK, Progress
    <2>3. QED
      BY <2>2 DEF SendBatch, Authorize, memory, RunsInv, TypeOK, MemoryTypeOK
  <1>7. BatchPlace(b)'
    <2>1. CASE SendBatch(b)
      <3>1. batch'[b].next = 1 /\ pc'[b] = "authorize"
        BY <1>1, <2>1 DEF SendBatch, Goto, NewBatch, RunsInv, TypeOK, MemoryTypeOK
      <3>2. QED
        BY <3>1 DEF BatchPlace, BatchLabels
    <2>2. CASE Authorize(b)
      <3>1. batch' = batch /\ batch[b].next = 1 /\ pc'[b] \in {"insert", "done"}
        BY <1>1, <2>2 DEF Authorize, memory, Goto, RunsInv, TypeOK, MemoryTypeOK,
                          ProcessInv, BatchPlace
      <3>2. 1 \in 1 .. Len(BatchSpans[b])
        BY RunsAssumption
      <3>3. QED
        BY <3>1, <3>2 DEF BatchPlace, BatchLabels
    <2>3. QED
      BY <2>1, <2>2
  <1>8. TypeOK' /\ RowsNumbered'
    BY <1>1, <1>2, <1>5, <1>6
       DEF RunsInv, TypeOK, JobsTypeOK, RowsNumbered, MemoryTypeOK, BudgetTypeOK, budgets
  <1>9. OthersRest(b)
    BY <1>1, <1>5, <1>6 DEF OthersRest
  <1>10. ProcessInv(b)'
    BY <1>1, <1>3, <1>5, <1>7 DEF ProcessInv, HeldRow, Writing
  <1>11. QED
    BY <1>1, <1>2, <1>8, <1>9, <1>10, MoveKeeps

----------------------------------------------------------------------------
(* Steps shared by several kinds of process *)

(* A process that has just stopped holding a row can go anywhere that asks  *)
(* nothing of it.                                                           *)
LEMMA AnsweredKeeps ==
    ASSUME RunsInv, NEW a \in Actors, NEW ok, NEW error,
           EnqueueAnswered(a, ok, error),
           a \in Workers => ok = "finish" /\ error = "fail",
           a \notin Workers => {ok, error} \subseteq {"done", "failed"}
    PROVE  RunsInv'
  <1>1. /\ pc[a] = "enqueue" /\ Forget(a)
        /\ enq' = [enq EXCEPT ![a] = NoRequest]
        /\ \E label \in {ok, error} : Goto(a, label)
        /\ UNCHANGED <<now, jobs, claim, store, batch, work, budgets>>
    BY DEF EnqueueAnswered
  <1>2. Monotone /\ StoreInv' /\ StoreTypeOK'
    BY <1>1, StoreRests DEF RunsInv
  <1>3. PICK label \in {ok, error} : Goto(a, label)
    BY <1>1
  <1>4. label \in Labels
    BY <1>3 DEF Labels, Resting
  <1>5. /\ pc' \in [Actors -> Labels] /\ pc'[a] = label
        /\ \A x \in Actors \ {a} : pc'[x] = pc[x]
    BY <1>3, <1>4, GotoFacts DEF RunsInv, TypeOK
  <1>6. /\ seen' \in [Actors -> Version] /\ row' \in [Actors -> Run]
        /\ \A x \in Actors \ {a} : seen'[x] = seen[x] /\ row'[x] = row[x]
    BY <1>1, ForgetFacts DEF RunsInv, TypeOK
  <1>7. TypeOK' /\ RowsNumbered'
    BY <1>1, <1>2, <1>5, <1>6, NoRequestType
       DEF RunsInv, TypeOK, JobsTypeOK, RowsNumbered, MemoryTypeOK, BudgetTypeOK, budgets
  <1>8. OthersRest(a)
    BY <1>1, <1>5, <1>6 DEF OthersRest
  <1>9. ProcessInv(a)'
    <2>1. CASE a \in Workers
      <3>1. a \notin Batches /\ a \notin Calls
        BY <2>1, ActorFacts
      <3>2. label \in {"finish", "fail"} /\ claim'[a] # NoClaim
        BY <1>1, <1>3, <2>1 DEF RunsInv, ProcessInv, WorkerPlace
      <3>3. QED
        BY <1>5, <2>1, <3>1, <3>2
           DEF ProcessInv, HeldRow, HeldEvidence, HeldVerdict, WorkerPlace, WorkerLabels,
               Writing, Labels, Resting
    <2>2. CASE a \notin Workers
      BY <1>3, <1>5, <2>2
         DEF ProcessInv, HeldRow, Writing, BatchPlace, BatchLabels, CallLabels
    <2>3. QED
      BY <2>1, <2>2
  <1>10. QED
    BY <1>2, <1>7, <1>8, <1>9, MoveKeeps

(* get_run and begin_settling prepare a legal successor of the row, or the  *)
(* process goes elsewhere.                                                  *)
LEMMA CompleteReadFacts ==
    ASSUME RunsInv, NEW a \in Actors, NEW c \in Completions, NEW until \in Time,
           NEW stamp \in Stamp, NEW refused \in Labels \ Writing, UNCHANGED run,
           UNCHANGED <<bundle, summary>>,
           CompleteRead(a, c, until, stamp, "complete_write", refused)
    PROVE  /\ seen' \in [Actors -> Version] /\ row' \in [Actors -> Run]
           /\ \A x \in Actors \ {a} : seen'[x] = seen[x] /\ row'[x] = row[x]
           /\ pc' \in [Actors -> Labels] /\ pc'[a] \in {"complete_write", refused}
           /\ \A x \in Actors \ {a} : pc'[x] = pc[x]
           /\ HeldRow(a)'
  <1>1. run \in Run /\ CompletionFits(run) /\ MemoryTypeOK /\ StoreTypeOK
    BY DEF RunsInv, TypeOK, StoreTypeOK, StoreInv
  <1>2. CASE CanBeginSettling(run, c)
    <2> DEFINE r == BeginSettling(run, c, until, stamp)
    <2>1. /\ r \in Run
          /\ CanEnter(run.state, r.state)
          /\ CompletionFits(r)
          /\ ~Early(run.state) => r.completion = run.completion
          /\ r.state \in {run.state, "settling"}
      BY <1>1, <1>2, SettlingFacts
    <2>2. Prepare(a, r) /\ Goto(a, "complete_write")
      BY <1>2 DEF CompleteRead
    <2> HIDE DEF r
    <2>3. /\ seen' \in [Actors -> Version] /\ row' \in [Actors -> Run]
          /\ seen'[a].state = run.state /\ row'[a] = r
          /\ \A x \in Actors \ {a} : seen'[x] = seen[x] /\ row'[x] = row[x]
      BY <1>1, <2>1, <2>2, PrepareFacts
    <2>4. "complete_write" \in Labels
      BY DEF Labels
    <2>5. /\ pc' \in [Actors -> Labels] /\ pc'[a] = "complete_write"
          /\ \A x \in Actors \ {a} : pc'[x] = pc[x]
      BY <1>1, <2>2, <2>4, GotoFacts
    <2>6. /\ run.state \in {"evaluating", "completed"} => bundle # None
          /\ run.state = "completed" => summary # None
      BY DEF RunsInv, StoreInv, VerdictFromEvidence
    <2>7. HeldRow(a)'
      BY <2>1, <2>3, <2>5, <2>6 DEF HeldRow
    <2>8. QED
      BY <2>3, <2>5, <2>7
  <1>3. CASE ~CanBeginSettling(run, c)
    <2>1. UNCHANGED <<seen, row>> /\ Goto(a, refused)
      BY <1>3 DEF CompleteRead
    <2>2. /\ pc' \in [Actors -> Labels] /\ pc'[a] = refused
          /\ \A x \in Actors \ {a} : pc'[x] = pc[x]
      BY <1>1, <2>1, GotoFacts
    <2>3. QED
      BY <1>1, <2>1, <2>2 DEF MemoryTypeOK, HeldRow
  <1>4. QED
    BY <1>2, <1>3

(* update_run followed by an enqueue: Forget, a label, perhaps a request.   *)
LEMMA UpdateThenEnqueueFacts ==
    ASSUME RunsInv, NEW a \in Actors, NEW k \in JobKinds, NEW t \in Time,
           NEW lost \in Labels, pc[a] \in Writing,
           UNCHANGED <<now, jobs, claim, spans, bundle, summary>>,
           UpdateThenEnqueue(a, k, t, lost)
    PROVE  /\ Monotone /\ StoreInv' /\ StoreTypeOK'
           /\ CanEnter(run.state, run'.state)
           /\ JobsTypeOK' /\ RowsNumbered'
           /\ pc' \in [Actors -> Labels] /\ pc'[a] \in {"enqueue", lost}
           /\ \A x \in Actors \ {a} : pc'[x] = pc[x]
  <1>1. run' = run \/ (Unchanged(a) /\ run' = row[a])
    BY DEF UpdateThenEnqueue, UpdateRun
  <1>2. Monotone /\ StoreInv' /\ StoreTypeOK' /\ CanEnter(run.state, run'.state)
    BY <1>1, WriteKeeps
  <1>3. PICK label \in {"enqueue", lost} : Goto(a, label)
    BY DEF UpdateThenEnqueue, UpdateRun
  <1>4. label \in Labels
    BY DEF Labels
  <1>5. /\ pc' \in [Actors -> Labels] /\ pc'[a] = label
        /\ \A x \in Actors \ {a} : pc'[x] = pc[x]
    BY <1>3, <1>4, GotoFacts DEF RunsInv, TypeOK
  <1>6. enq' \in [Producers -> Requests]
    <2>1. CASE Unchanged(a)
      BY <2>1, RequestFacts DEF UpdateThenEnqueue, RunsInv, TypeOK
    <2>2. CASE ~Unchanged(a)
      BY <2>2 DEF UpdateThenEnqueue, RunsInv, TypeOK, JobsTypeOK
    <2>3. QED
      BY <2>1, <2>2
  <1>7. JobsTypeOK' /\ RowsNumbered'
    BY <1>6 DEF RunsInv, TypeOK, JobsTypeOK, RowsNumbered
  <1>8. QED
    BY <1>2, <1>3, <1>5, <1>7

----------------------------------------------------------------------------
(* The API *)

LEMMA CallReadKeeps ==
    ASSUME RunsInv, NEW c \in Calls, CallComplete(c) \/ CallCancel(c)
    PROVE  RunsInv'
  <1>1. /\ c \in Actors /\ c \notin Workers /\ c \notin Batches
        /\ UNCHANGED <<now, jobs, claim, enq, store, batch, work, budgets>>
    BY ActorFacts DEF CallComplete, CallCancel
  <1>2. Monotone /\ StoreInv' /\ StoreTypeOK'
    BY <1>1, StoreRests DEF RunsInv
  <1>3. run' = run /\ bundle' = bundle /\ summary' = summary
    BY <1>1 DEF store
  <1>4. CallStamp(c) \in Stamp
    BY <1>1, StampFacts
  <1>5. /\ seen' \in [Actors -> Version] /\ row' \in [Actors -> Run]
        /\ \A x \in Actors \ {c} : seen'[x] = seen[x] /\ row'[x] = row[x]
        /\ pc' \in [Actors -> Labels]
        /\ pc'[c] \in {"complete_write", "cancel_write", "done"}
        /\ \A x \in Actors \ {c} : pc'[x] = pc[x]
        /\ HeldRow(c)'
    <2>1. CASE CallComplete(c)
      <3>1. CallCompletion[c] \in Completions /\ Cap(now + CallSettle[c]) \in Time
        <4>1. CallCompletion[c] \in Completions /\ CallSettle[c] \in Nat
          BY RunsAssumption
        <4>2. now \in Nat
          BY TimeFacts DEF RunsInv, TypeOK, JobsTypeOK
        <4>3. now + CallSettle[c] \in Nat
          BY <4>1, <4>2
        <4>4. QED
          BY <4>1, <4>3, TimeFacts
      <3>2. "done" \in Labels \ Writing
        BY DEF Labels, Resting, Writing
      <3>3. CompleteRead(c, CallCompletion[c], Cap(now + CallSettle[c]),
                         CallStamp(c), "complete_write", "done")
        BY <2>1 DEF CallComplete
      <3>4. QED
        BY <1>1, <1>3, <1>4, <3>1, <3>2, <3>3, CompleteReadFacts
    <2>2. CASE CallCancel(c) /\ CanEnter(run.state, "cancelled")
      <3> DEFINE r == TransitionTo(run, "cancelled", CallStamp(c))
      <3>1. Prepare(c, r) /\ Goto(c, "cancel_write")
        BY <2>2 DEF CallCancel
      <3>2. "cancelled" \in RunStates /\ "cancel_write" \in Labels
        BY DEF RunStates, Labels
      <3>3. run \in Run /\ MemoryTypeOK /\ StoreTypeOK
        BY DEF RunsInv, TypeOK, StoreTypeOK
      <3>4. r \in Run /\ r.state = "cancelled" /\ r.completion = run.completion
        BY <1>4, <3>2, <3>3, TransitionFacts
      <3> HIDE DEF r
      <3>5. /\ seen' \in [Actors -> Version] /\ row' \in [Actors -> Run]
            /\ seen'[c].state = run.state /\ row'[c] = r
            /\ \A x \in Actors \ {c} : seen'[x] = seen[x] /\ row'[x] = row[x]
        BY <1>1, <3>1, <3>3, <3>4, PrepareFacts
      <3>6. /\ pc' \in [Actors -> Labels] /\ pc'[c] = "cancel_write"
            /\ \A x \in Actors \ {c} : pc'[x] = pc[x]
        BY <1>1, <3>1, <3>2, <3>3, GotoFacts
      <3>7. HeldRow(c)'
        BY <1>3, <2>2, <3>4, <3>5, <3>6 DEF HeldRow, CompletionFits, Early
      <3>8. QED
        BY <3>5, <3>6, <3>7
    <2>3. CASE CallCancel(c) /\ ~CanEnter(run.state, "cancelled")
      <3>1. UNCHANGED <<seen, row>> /\ Goto(c, "done")
        BY <2>3 DEF CallCancel
      <3>2. "done" \in Labels
        BY DEF Labels, Resting
      <3>3. /\ pc' \in [Actors -> Labels] /\ pc'[c] = "done"
            /\ \A x \in Actors \ {c} : pc'[x] = pc[x]
        BY <1>1, <3>1, <3>2, GotoFacts DEF RunsInv, TypeOK
      <3>4. QED
        BY <3>1, <3>3 DEF RunsInv, TypeOK, MemoryTypeOK, HeldRow, Writing
    <2>4. QED
      BY <2>1, <2>2, <2>3
  <1>6. TypeOK' /\ RowsNumbered'
    BY <1>1, <1>2, <1>5
       DEF RunsInv, TypeOK, JobsTypeOK, RowsNumbered, MemoryTypeOK, BudgetTypeOK, budgets
  <1>7. OthersRest(c)
    BY <1>1, <1>5 DEF OthersRest
  <1>8. ProcessInv(c)'
    BY <1>1, <1>5 DEF ProcessInv, CallLabels
  <1>9. QED
    BY <1>1, <1>2, <1>6, <1>7, <1>8, MoveKeeps

LEMMA CallWriteKeeps ==
    ASSUME RunsInv, NEW c \in Calls, CallCompleteWrite(c) \/ CallCancelWrite(c)
    PROVE  RunsInv' /\ CanEnter(run.state, run'.state)
  <1>1. /\ c \in Actors /\ c \notin Workers /\ c \notin Batches
        /\ Forget(c)
        /\ UNCHANGED <<now, jobs, claim, spans, bundle, summary, batch, work, budgets>>
    BY ActorFacts DEF CallCompleteWrite, CallCancelWrite
  <1>2. "done" \in Labels
    BY DEF Labels, Resting
  <1>3. /\ Monotone /\ StoreInv' /\ StoreTypeOK'
        /\ CanEnter(run.state, run'.state)
        /\ JobsTypeOK' /\ RowsNumbered'
        /\ pc' \in [Actors -> Labels] /\ pc'[c] \in {"enqueue", "done"}
        /\ \A x \in Actors \ {c} : pc'[x] = pc[x]
    <2>1. CASE CallCompleteWrite(c)
      <3>1. row[c].settleUntil \in Time /\ "finalize" \in JobKinds
        BY <1>1 DEF RunsInv, TypeOK, MemoryTypeOK, Run, JobKinds
      <3>2. /\ pc[c] \in Writing
            /\ UpdateThenEnqueue(c, "finalize", row[c].settleUntil, "done")
        BY <2>1 DEF CallCompleteWrite, Writing
      <3>3. QED
        BY <1>1, <1>2, <3>1, <3>2, UpdateThenEnqueueFacts
    <2>2. CASE CallCancelWrite(c)
      <3>1. /\ pc[c] \in Writing /\ Goto(c, "done") /\ enq' = enq
            /\ run' = run \/ (Unchanged(c) /\ run' = row[c])
        BY <2>2 DEF CallCancelWrite, UpdateRun, Writing
      <3>2. Monotone /\ StoreInv' /\ StoreTypeOK' /\ CanEnter(run.state, run'.state)
        BY <1>1, <3>1, WriteKeeps
      <3>3. /\ pc' \in [Actors -> Labels] /\ pc'[c] = "done"
            /\ \A x \in Actors \ {c} : pc'[x] = pc[x]
        BY <1>1, <1>2, <3>1, GotoFacts DEF RunsInv, TypeOK
      <3>4. JobsTypeOK' /\ RowsNumbered'
        BY <1>1, <3>1 DEF RunsInv, TypeOK, JobsTypeOK, RowsNumbered
      <3>5. QED
        BY <3>2, <3>3, <3>4
    <2>3. QED
      BY <2>1, <2>2
  <1>4. /\ seen' \in [Actors -> Version] /\ row' \in [Actors -> Run]
        /\ \A x \in Actors \ {c} : seen'[x] = seen[x] /\ row'[x] = row[x]
    BY <1>1, ForgetFacts DEF RunsInv, TypeOK
  <1>5. TypeOK'
    BY <1>1, <1>3, <1>4 DEF RunsInv, TypeOK, MemoryTypeOK, BudgetTypeOK, budgets
  <1>6. OthersRest(c)
    BY <1>1, <1>3, <1>4 DEF OthersRest
  <1>7. ProcessInv(c)'
    BY <1>1, <1>3 DEF ProcessInv, HeldRow, Writing, CallLabels
  <1>8. QED
    BY <1>1, <1>3, <1>5, <1>6, <1>7, MoveKeeps

----------------------------------------------------------------------------
(* The worker *)

Unclaimed == {"idle", "mark_failed", "mark_failed_write"}

(* A worker's step, reduced to what has to be shown of it. *)
LEMMA WorkerMove ==
    ASSUME RunsInv, NEW w \in Workers, NEW label \in WorkerLabels, Goto(w, label),
           Monotone, StoreInv', StoreTypeOK', JobsTypeOK', RowsNumbered', BudgetTypeOK',
           UNCHANGED batch,
           claim'[w] = NoClaim <=> label \in Unclaimed,
           \A x \in Workers \ {w} : claim'[x] = claim[x],
           seen' \in [Actors -> Version], row' \in [Actors -> Run],
           \A x \in Actors \ {w} : seen'[x] = seen[x] /\ row'[x] = row[x],
           work' \in [Workers -> Work],
           \A x \in Workers \ {w} : work'[x] = work[x],
           pc'[w] = label => HeldRow(w)' /\ HeldEvidence(w)' /\ HeldVerdict(w)'
    PROVE  RunsInv'
  <1>1. /\ w \in Actors /\ w \notin Batches /\ w \notin Calls
        /\ label \in Labels
    BY ActorFacts DEF WorkerLabels
  <1>2. /\ pc' \in [Actors -> Labels] /\ pc'[w] = label
        /\ \A x \in Actors \ {w} : pc'[x] = pc[x]
    BY <1>1, GotoFacts DEF RunsInv, TypeOK
  <1>3. TypeOK'
    BY <1>2 DEF RunsInv, TypeOK, MemoryTypeOK
  <1>4. OthersRest(w)
    BY <1>2 DEF OthersRest
  <1>5. ProcessInv(w)'
    BY <1>1, <1>2 DEF ProcessInv, WorkerPlace, Unclaimed
  <1>6. QED
    BY <1>1, <1>3, <1>4, <1>5, MoveKeeps

(* Steps that only look and remember. *)
LEMMA LookKeeps ==
    ASSUME RunsInv, NEW w \in Workers,
           \/ ProcessTimeout(w) \/ ProcessIdleTimeout(w) \/ FinalizeStart(w)
           \/ ListSpans(w) \/ EvaluateStart(w) \/ EvaluatePack(w)
    PROVE  RunsInv'
  <1> DEFINE Next1 == {"complete", "finish", "timeout", "reschedule", "finalize_read",
                       "evaluate_pack", "fail"}
             Next2 == {"finalize_replay", "evaluate_replay", "insert_bundle", "save_summary"}
  <1>1. /\ w \in Actors
        /\ UNCHANGED <<now, jobs, claim, enq, store, seen, row, batch, budgets>>
        /\ pc[w] \notin Unclaimed
    BY ActorFacts DEF ProcessTimeout, ProcessIdleTimeout, FinalizeStart, ListSpans,
                      EvaluateStart, EvaluatePack, memory, Unclaimed
  <1>2. /\ Monotone /\ StoreInv' /\ StoreTypeOK' /\ JobsTypeOK' /\ RowsNumbered'
        /\ BudgetTypeOK'
        /\ seen' \in [Actors -> Version] /\ row' \in [Actors -> Run]
    BY <1>1, StoreRests
       DEF RunsInv, TypeOK, JobsTypeOK, RowsNumbered, MemoryTypeOK, BudgetTypeOK, budgets
  <1>3. work \in [Workers -> Work] /\ work[w] \in Work
    BY DEF RunsInv, TypeOK, MemoryTypeOK
  <1>4. /\ work' \in [Workers -> Work]
        /\ \A x \in Workers \ {w} : work'[x] = work[x]
    <2>1. CASE work' = work
      BY <1>3, <2>1
    <2>2. CASE ProcessIdleTimeout(w)
      <3>1. Cap(run.lastSeen + IdleSeconds) \in Time
        BY TimeFacts DEF RunsInv, TypeOK, StoreTypeOK, Run
      <3>2. "idle_timeout" \in Completions
        BY RunsAssumption
      <3>3. QED
        BY <1>3, <2>1, <2>2, <3>1, <3>2 DEF ProcessIdleTimeout, Work
    <2>3. CASE ListSpans(w)
      BY <1>3, <2>3 DEF ListSpans, Work, Assigned
    <2>4. CASE EvaluatePack(w)
      <3>1. bundle # None => bundle.spans \in SUBSET Spans
        BY DEF RunsInv, TypeOK, StoreTypeOK, Bundle
      <3>2. QED
        BY <1>3, <2>1, <2>4, <3>1 DEF EvaluatePack, Work
    <2>5. QED
      BY <2>1, <2>2, <2>3, <2>4 DEF ProcessTimeout, FinalizeStart, EvaluateStart, memory
  <1>5. PICK label \in Next1 \cup Next2 : Goto(w, label)
    BY DEF ProcessTimeout, ProcessIdleTimeout, FinalizeStart, ListSpans, EvaluateStart,
           EvaluatePack
  <1>6. label \in WorkerLabels /\ label \notin Unclaimed /\ label \notin Writing
    BY <1>5 DEF WorkerLabels, Labels, Resting, Unclaimed, Writing
  <1>7. pc'[w] = label
    BY <1>1, <1>5 DEF Goto, RunsInv, TypeOK, MemoryTypeOK
  <1>8. claim'[w] # NoClaim
    BY <1>1 DEF RunsInv, ProcessInv, WorkerPlace, Unclaimed
  <1>9. HeldEvidence(w)' /\ HeldVerdict(w)'
    <2>1. run' = run /\ spans' = spans /\ bundle' = bundle /\ summary' = summary /\ row' = row
      BY <1>1 DEF store
    <2>2. Assigned' = Assigned
      BY <2>1 DEF Assigned
    <2>3. CASE label \in Next1
      <3>1. CASE label = "complete"
        <4>1. ProcessTimeout(w)
          BY <1>1, <1>7, <3>1 DEF ProcessIdleTimeout, FinalizeStart, ListSpans,
                        EvaluateStart, EvaluatePack, Goto, RunsInv, TypeOK, MemoryTypeOK
        <4>2. work' = work /\ work[w].completion # NoCompletion
          BY <1>1, <4>1 DEF ProcessTimeout, memory, RunsInv, ProcessInv, HeldEvidence
        <4>3. QED
          BY <1>7, <3>1, <4>2 DEF HeldEvidence, HeldVerdict
      <3>2. CASE label = "timeout"
        <4>1. ProcessIdleTimeout(w)
          BY <1>1, <1>7, <3>2 DEF ProcessTimeout, FinalizeStart, ListSpans,
                        EvaluateStart, EvaluatePack, Goto, RunsInv, TypeOK, MemoryTypeOK
        <4>2. work'[w].completion = "idle_timeout"
          BY <1>1, <1>3, <1>7, <3>2, <4>1
             DEF ProcessIdleTimeout, Goto, Work, RunsInv, TypeOK, MemoryTypeOK
        <4>3. "idle_timeout" # NoCompletion
          BY RunsAssumption
        <4>4. QED
          BY <1>7, <3>2, <4>2, <4>3 DEF HeldEvidence, HeldVerdict
      <3>3. CASE label \notin {"complete", "timeout"}
        BY <1>7, <2>3, <3>3 DEF HeldEvidence, HeldVerdict
      <3>4. QED
        BY <3>1, <3>2, <3>3
    <2>4. CASE label = "finalize_replay"
      <3>1. bundle # None
        BY <1>1, <1>7, <2>4 DEF ProcessTimeout, ProcessIdleTimeout, FinalizeStart, ListSpans,
                      EvaluateStart, EvaluatePack, Goto, RunsInv, TypeOK, MemoryTypeOK
      <3>2. QED
        BY <1>7, <2>1, <2>4, <3>1 DEF HeldEvidence, HeldVerdict
    <2>5. CASE label = "evaluate_replay"
      <3>1. summary # None
        BY <1>1, <1>7, <2>5 DEF ProcessTimeout, ProcessIdleTimeout, FinalizeStart, ListSpans,
                      EvaluateStart, EvaluatePack, Goto, RunsInv, TypeOK, MemoryTypeOK
      <3>2. QED
        BY <1>7, <2>1, <2>5, <3>1 DEF HeldEvidence, HeldVerdict
    <2>6. CASE label = "insert_bundle"
      <3>1. ListSpans(w)
        BY <1>1, <1>7, <2>6 DEF ProcessTimeout, ProcessIdleTimeout, FinalizeStart,
                      EvaluateStart, EvaluatePack, Goto, RunsInv, TypeOK, MemoryTypeOK
      <3>2. work'[w].evidence = Assigned
        BY <1>3, <3>1 DEF ListSpans, Work
      <3>3. /\ row[w].state = "finalizing"
            /\ row[w].completion = run.completion
            /\ ~AcceptsSpans(run.state)
        BY <1>1, <3>1 DEF ListSpans, RunsInv, ProcessInv, HeldEvidence
      <3>4. QED
        BY <1>7, <2>1, <2>2, <2>6, <3>2, <3>3 DEF HeldEvidence, HeldVerdict
    <2>7. CASE label = "save_summary"
      <3>1. EvaluatePack(w) /\ bundle # None
        BY <1>1, <1>7, <2>7 DEF ProcessTimeout, ProcessIdleTimeout, FinalizeStart,
                      EvaluateStart, ListSpans, EvaluatePack, Goto, RunsInv, TypeOK, MemoryTypeOK
      <3>2. work'[w].evidence = bundle.spans
        BY <1>3, <3>1 DEF EvaluatePack, Work
      <3>3. QED
        BY <1>7, <2>1, <2>7, <3>1, <3>2 DEF HeldEvidence, HeldVerdict
    <2>8. QED
      BY <1>5, <2>3, <2>4, <2>5, <2>6, <2>7
  <1>10. HeldRow(w)'
    BY <1>6, <1>7 DEF HeldRow
  <1>11. QED
    BY <1>1, <1>2, <1>4, <1>5, <1>6, <1>8, <1>9, <1>10, WorkerMove

(* A worker that gives up on what it was doing asks nothing of the store.   *)
LEMMA ElsewhereKeeps ==
    ASSUME RunsInv, NEW w \in Workers, NEW label \in {"finish", "fail", "idle"},
           Goto(w, label), label = "idle" <=> pc[w] \in Unclaimed,
           UNCHANGED <<now, jobs, claim, enq, store, seen, row, batch, work, budgets>>
    PROVE  RunsInv'
  <1>1. w \in Actors /\ label \in WorkerLabels /\ label \notin Writing
    BY ActorFacts DEF WorkerLabels, Labels, Resting, Writing
  <1>2. /\ Monotone /\ StoreInv' /\ StoreTypeOK' /\ JobsTypeOK' /\ RowsNumbered'
        /\ seen' \in [Actors -> Version] /\ row' \in [Actors -> Run]
        /\ work' \in [Workers -> Work] /\ BudgetTypeOK'
    BY StoreRests
       DEF RunsInv, TypeOK, JobsTypeOK, RowsNumbered, MemoryTypeOK, BudgetTypeOK, budgets
  <1>3. claim'[w] = NoClaim <=> label \in Unclaimed
    BY <1>1 DEF RunsInv, ProcessInv, WorkerPlace, Unclaimed
  <1>4. pc'[w] = label => HeldRow(w)' /\ HeldEvidence(w)' /\ HeldVerdict(w)'
    BY <1>1 DEF HeldRow, HeldEvidence, HeldVerdict
  <1>5. QED
    BY <1>1, <1>2, <1>3, <1>4, WorkerMove

(* A worker that read the run and prepared the row r.                       *)
LEMMA PreparedKeeps ==
    ASSUME RunsInv, NEW w \in Workers, NEW r \in Run,
           NEW label \in {"to_finalizing", "list_spans", "to_evaluating",
                          "to_completed", "mark_failed_write"},
           Prepare(w, r), Goto(w, label),
           label = "mark_failed_write" <=> pc[w] \in Unclaimed,
           UNCHANGED <<now, jobs, claim, enq, store, batch, work, budgets>>,
           CanEnter(run.state, r.state), r.completion = run.completion,
           label = "to_finalizing" => run.state = "settling" /\ r.state = "finalizing",
           label = "list_spans" => run.state = "finalizing" /\ r = run,
           label \in {"to_evaluating", "to_completed"} => bundle # None,
           label = "to_completed" => summary # None,
           label = "to_evaluating" => r.state = "evaluating",
           label = "to_completed" => r.state = "completed",
           label = "mark_failed_write" => r.state = "failed"
    PROVE  RunsInv'
  <1>1. w \in Actors /\ label \in WorkerLabels
    BY ActorFacts DEF WorkerLabels, Labels, Resting
  <1>2. /\ Monotone /\ StoreInv' /\ StoreTypeOK' /\ JobsTypeOK' /\ RowsNumbered'
        /\ work' \in [Workers -> Work] /\ MemoryTypeOK /\ StoreTypeOK /\ BudgetTypeOK'
    BY StoreRests
       DEF RunsInv, TypeOK, JobsTypeOK, RowsNumbered, MemoryTypeOK, BudgetTypeOK, budgets
  <1>3. /\ seen' \in [Actors -> Version] /\ row' \in [Actors -> Run]
        /\ seen'[w].state = run.state /\ row'[w] = r
        /\ \A x \in Actors \ {w} : seen'[x] = seen[x] /\ row'[x] = row[x]
    BY <1>1, <1>2, PrepareFacts
  <1>4. claim'[w] = NoClaim <=> label \in Unclaimed
    BY <1>1 DEF RunsInv, ProcessInv, WorkerPlace, Unclaimed
  <1>5. run' = run /\ bundle' = bundle /\ summary' = summary
    BY DEF store
  <1>6. CompletionFits(run)
    BY DEF RunsInv, StoreInv
  <1>7. label # "list_spans" => CompletionFits(r)
    BY <1>6 DEF CompletionFits, Early
  <1>8. ASSUME pc'[w] = label PROVE HeldRow(w)' /\ HeldEvidence(w)' /\ HeldVerdict(w)'
    <2>1. HeldRow(w)'
      BY <1>3, <1>5, <1>7, <1>8 DEF HeldRow, Writing
    <2>2. HeldEvidence(w)'
      BY <1>3, <1>5, <1>8 DEF HeldEvidence, AcceptsSpans
    <2>3. HeldVerdict(w)'
      BY <1>8 DEF HeldVerdict
    <2>4. QED
      BY <2>1, <2>2, <2>3
  <1>9. QED
    BY <1>1, <1>2, <1>3, <1>4, <1>8, WorkerMove

LEMMA ReadKeeps ==
    ASSUME RunsInv, NEW w \in Workers,
           \/ FinalizeReplay(w) \/ FinalizeRead(w) \/ EvaluateReplay(w)
           \/ RereadRun(w) \/ MarkFailedRead(w)
    PROVE  RunsInv'
  <1>1. /\ w \in Actors
        /\ UNCHANGED <<now, jobs, claim, enq, store, batch, work, budgets>>
        /\ run \in Run
    BY ActorFacts DEF FinalizeReplay, FinalizeRead, EvaluateReplay, RereadRun, MarkFailedRead,
                      RunsInv, TypeOK, StoreTypeOK
  <1>2. /\ "finalizing" \in RunStates /\ "evaluating" \in RunStates
        /\ "completed" \in RunStates /\ "failed" \in RunStates
    BY DEF RunStates
  <1>3. CallStamp(w) \in Stamp
    BY <1>1, StampFacts
  <1>4. pc[w] \notin Unclaimed => claim[w] \in Stamp
    <2>1. pc[w] \notin Unclaimed => claim[w] # NoClaim
      BY <1>1 DEF RunsInv, ProcessInv, WorkerPlace, Unclaimed
    <2>2. claim[w] # NoClaim => claim[w] \in Claims
      BY DEF RunsInv, TypeOK, JobsTypeOK
    <2>3. QED
      BY <2>1, <2>2, StampFacts
  <1>5. CASE FinalizeReplay(w)
    <2>1. pc[w] = "finalize_replay" /\ pc[w] \notin Unclaimed /\ claim[w] \in Stamp
      BY <1>4, <1>5 DEF FinalizeReplay, Unclaimed
    <2>2. CASE run.state = "finalizing"
      <3> DEFINE r == TransitionTo(run, "evaluating", claim[w])
      <3>1. Prepare(w, r) /\ Goto(w, "to_evaluating")
        BY <1>5, <2>2 DEF FinalizeReplay
      <3>2. r \in Run /\ r.state = "evaluating" /\ r.completion = run.completion
        BY <1>1, <1>2, <2>1, TransitionFacts
      <3> HIDE DEF r
      <3>3. bundle # None /\ CanEnter(run.state, r.state)
        BY <1>1, <2>1, <2>2, <3>2 DEF RunsInv, ProcessInv, HeldVerdict, CanEnter, Allowed
      <3>4. QED
        BY <1>1, <2>1, <3>1, <3>2, <3>3, PreparedKeeps
    <2>3. CASE run.state # "finalizing"
      BY <1>1, <1>5, <2>1, <2>3, ElsewhereKeeps DEF FinalizeReplay
    <2>4. QED
      BY <2>2, <2>3
  <1>6. CASE FinalizeRead(w)
    <2>1. pc[w] \notin Unclaimed /\ claim[w] \in Stamp
      BY <1>4, <1>6 DEF FinalizeRead, Unclaimed
    <2>2. CASE /\ run.state = "settling"
               /\ Prepare(w, TransitionTo(run, "finalizing", claim[w]))
               /\ Goto(w, "to_finalizing")
      <3> DEFINE r == TransitionTo(run, "finalizing", claim[w])
      <3>1. r \in Run /\ r.state = "finalizing" /\ r.completion = run.completion
        BY <1>1, <1>2, <2>1, TransitionFacts
      <3>2. Prepare(w, r)
        BY <2>2
      <3> HIDE DEF r
      <3>3. CanEnter(run.state, r.state)
        BY <2>2, <3>1 DEF CanEnter, Allowed
      <3>4. QED
        BY <1>1, <2>1, <2>2, <3>1, <3>2, <3>3, PreparedKeeps
    <2>3. CASE /\ run.state = "finalizing"
               /\ Prepare(w, run)
               /\ Goto(w, "list_spans")
      <3>1. CanEnter(run.state, run.state)
        BY DEF CanEnter
      <3>2. QED
        BY <1>1, <2>1, <2>3, <3>1, PreparedKeeps
    <2>4. CASE Goto(w, "fail") /\ UNCHANGED <<seen, row>>
      BY <1>1, <2>1, <2>4, ElsewhereKeeps
    <2>5. QED
      BY <1>6, <2>2, <2>3, <2>4 DEF FinalizeRead
  <1>7. CASE EvaluateReplay(w)
    <2>1. pc[w] = "evaluate_replay" /\ pc[w] \notin Unclaimed /\ claim[w] \in Stamp
      BY <1>4, <1>7 DEF EvaluateReplay, Unclaimed
    <2>2. CASE run.state = "evaluating"
      <3> DEFINE q == [run EXCEPT !.verdict = summary]
                 r == TransitionTo(q, "completed", claim[w])
      <3>1. Prepare(w, r) /\ Goto(w, "to_completed")
        BY <1>7, <2>2 DEF EvaluateReplay
      <3>2. q \in Run /\ q.completion = run.completion
        BY <1>1 DEF RunsInv, TypeOK, StoreTypeOK, Run
      <3> HIDE DEF q
      <3>3. r \in Run /\ r.state = "completed" /\ r.completion = run.completion
        BY <1>2, <2>1, <3>2, TransitionFacts
      <3> HIDE DEF r
      <3>4. summary # None /\ CanEnter(run.state, r.state)
        BY <1>1, <2>1, <2>2, <3>3 DEF RunsInv, ProcessInv, HeldVerdict, CanEnter, Allowed
      <3>5. bundle # None
        BY <3>4 DEF RunsInv, StoreInv, VerdictFromEvidence
      <3>6. QED
        BY <1>1, <2>1, <3>1, <3>3, <3>4, <3>5, PreparedKeeps
    <2>3. CASE run.state # "evaluating"
      BY <1>1, <1>7, <2>1, <2>3, ElsewhereKeeps DEF EvaluateReplay
    <2>4. QED
      BY <2>2, <2>3
  <1>8. CASE RereadRun(w)
    <2>1. pc[w] = "reread" /\ pc[w] \notin Unclaimed /\ claim[w] \in Stamp
      BY <1>4, <1>8 DEF RereadRun, Unclaimed
    <2>2. CASE CanEnter(run.state, "completed")
      <3> DEFINE q == [run EXCEPT !.verdict = work[w].evidence]
                 r == TransitionTo(q, "completed", claim[w])
      <3>1. Prepare(w, r) /\ Goto(w, "to_completed")
        BY <1>8, <2>2 DEF RereadRun
      <3>2. q \in Run /\ q.completion = run.completion
        <4>1. work[w].evidence \in SUBSET Spans
          BY DEF RunsInv, TypeOK, MemoryTypeOK, Work
        <4>2. QED
          BY <1>1, <4>1 DEF Run
      <3> HIDE DEF q
      <3>3. r \in Run /\ r.state = "completed" /\ r.completion = run.completion
        BY <1>2, <2>1, <3>2, TransitionFacts
      <3> HIDE DEF r
      <3>4. summary # None /\ CanEnter(run.state, r.state)
        BY <1>1, <2>1, <2>2, <3>3 DEF RunsInv, ProcessInv, HeldVerdict
      <3>5. bundle # None
        BY <3>4 DEF RunsInv, StoreInv, VerdictFromEvidence
      <3>6. QED
        BY <1>1, <2>1, <3>1, <3>3, <3>4, <3>5, PreparedKeeps
    <2>3. CASE ~CanEnter(run.state, "completed")
      BY <1>1, <1>8, <2>1, <2>3, ElsewhereKeeps DEF RereadRun
    <2>4. QED
      BY <2>2, <2>3
  <1>9. CASE MarkFailedRead(w)
    <2>1. pc[w] = "mark_failed" /\ pc[w] \in Unclaimed
      BY <1>9 DEF MarkFailedRead, Unclaimed
    <2>2. CASE ~IsTerminal(run.state)
      <3> DEFINE r == TransitionTo(run, "failed", CallStamp(w))
      <3>1. Prepare(w, r) /\ Goto(w, "mark_failed_write")
        BY <1>9, <2>2 DEF MarkFailedRead
      <3>2. r \in Run /\ r.state = "failed" /\ r.completion = run.completion
        BY <1>1, <1>2, <1>3, TransitionFacts
      <3> HIDE DEF r
      <3>3. CanEnter(run.state, r.state)
        BY <2>2, <3>2 DEF CanEnter, Allowed
      <3>4. QED
        BY <1>1, <2>1, <3>1, <3>2, <3>3, PreparedKeeps
    <2>3. CASE IsTerminal(run.state)
      BY <1>1, <1>9, <2>1, <2>3, ElsewhereKeeps DEF MarkFailedRead
    <2>4. QED
      BY <2>2, <2>3
  <1>10. QED
    BY <1>5, <1>6, <1>7, <1>8, <1>9

(* The calls of update_run a worker makes. *)
LEMMA WorkerWriteKeeps ==
    ASSUME RunsInv, NEW w \in Workers,
           \/ TimeoutCompleteWrite(w) \/ ToFinalizing(w) \/ ToEvaluating(w)
           \/ ToCompleted(w) \/ MarkFailedWrite(w)
    PROVE  RunsInv' /\ CanEnter(run.state, run'.state)
  <1>1. /\ w \in Actors /\ pc[w] \in Writing
        /\ UNCHANGED <<now, jobs, claim, spans, bundle, summary, batch, work, budgets>>
        /\ row[w] \in Run
    BY ActorFacts DEF TimeoutCompleteWrite, ToFinalizing, ToEvaluating, ToCompleted,
                      MarkFailedWrite, memory, Writing, RunsInv, TypeOK, MemoryTypeOK
  <1>2. /\ seen' \in [Actors -> Version] /\ row' \in [Actors -> Run]
        /\ \A x \in Actors \ {w} : seen'[x] = seen[x] /\ row'[x] = row[x]
    <2>1. CASE Forget(w)
      BY <1>1, <2>1, ForgetFacts DEF RunsInv, TypeOK
    <2>2. CASE UNCHANGED memory
      BY <2>2 DEF memory, RunsInv, TypeOK, MemoryTypeOK
    <2>3. QED
      BY <2>1, <2>2 DEF TimeoutCompleteWrite, ToFinalizing, ToEvaluating, ToCompleted,
                        MarkFailedWrite
  <1>3. BudgetTypeOK' /\ work' \in [Workers -> Work]
    BY <1>1 DEF RunsInv, TypeOK, MemoryTypeOK, BudgetTypeOK, budgets
  <1>4. claim[w] = NoClaim <=> pc[w] \in Unclaimed
    BY <1>1 DEF RunsInv, ProcessInv, WorkerPlace, Unclaimed
  <1>5. CASE TimeoutCompleteWrite(w) \/ ToEvaluating(w)
    <2>1. now \in Time /\ row[w].settleUntil \in Time
      BY <1>1 DEF RunsInv, TypeOK, JobsTypeOK, Run
    <2>2. {"finalize", "evaluate"} \subseteq JobKinds /\ "fail" \in Labels
      BY DEF JobKinds, Labels
    <2>3. \E k \in JobKinds, t \in Time : UpdateThenEnqueue(w, k, t, "fail")
      BY <1>5, <2>1, <2>2 DEF TimeoutCompleteWrite, ToEvaluating
    <2>4. /\ Monotone /\ StoreInv' /\ StoreTypeOK'
          /\ CanEnter(run.state, run'.state)
          /\ JobsTypeOK' /\ RowsNumbered' /\ pc'[w] \in {"enqueue", "fail"}
      BY <1>1, <2>2, <2>3, UpdateThenEnqueueFacts
    <2>5. PICK label \in {"enqueue", "fail"} : Goto(w, label)
      BY <1>5 DEF TimeoutCompleteWrite, ToEvaluating, UpdateThenEnqueue, UpdateRun
    <2>6. /\ label \in WorkerLabels /\ label \notin Writing /\ label \notin Unclaimed
          /\ pc[w] \notin Unclaimed
      BY <1>5, <2>5 DEF WorkerLabels, Labels, Resting, Writing, Unclaimed,
                        TimeoutCompleteWrite, ToEvaluating
    <2>7. pc'[w] = label => HeldRow(w)' /\ HeldEvidence(w)' /\ HeldVerdict(w)'
      BY <2>5, <2>6 DEF HeldRow, HeldEvidence, HeldVerdict
    <2>8. QED
      BY <1>1, <1>2, <1>3, <1>4, <2>4, <2>5, <2>6, <2>7, WorkerMove
  <1>6. CASE ToFinalizing(w) \/ ToCompleted(w) \/ MarkFailedWrite(w)
    <2>1. /\ enq' = enq
          /\ run' = run \/ (Unchanged(w) /\ run' = row[w])
      BY <1>6 DEF ToFinalizing, ToCompleted, MarkFailedWrite, UpdateRun
    <2>2. Monotone /\ StoreInv' /\ StoreTypeOK' /\ CanEnter(run.state, run'.state)
      BY <1>1, <2>1, WriteKeeps
    <2>3. JobsTypeOK' /\ RowsNumbered'
      BY <1>1, <2>1 DEF RunsInv, TypeOK, JobsTypeOK, RowsNumbered
    <2>4. PICK label \in {"list_spans", "fail", "finish", "idle"} :
             /\ Goto(w, label)
             /\ label = "idle" <=> MarkFailedWrite(w)
             /\ label = "list_spans" => ToFinalizing(w) /\ run' = row[w]
      BY <1>6 DEF ToFinalizing, ToCompleted, MarkFailedWrite, UpdateRun
    <2>5. /\ label \in WorkerLabels /\ label \notin Writing
          /\ claim'[w] = NoClaim <=> label \in Unclaimed
      BY <1>1, <1>4, <1>6, <2>4
         DEF WorkerLabels, Labels, Resting, Writing, Unclaimed,
             ToFinalizing, ToCompleted, MarkFailedWrite
    <2>6. ASSUME pc'[w] = label PROVE HeldRow(w)' /\ HeldEvidence(w)' /\ HeldVerdict(w)'
      <3>1. CASE label # "list_spans"
        BY <2>4, <2>5, <2>6, <3>1 DEF HeldRow, HeldEvidence, HeldVerdict
      <3>2. CASE label = "list_spans"
        <4>1. row' = row /\ run' = row[w] /\ row[w].state = "finalizing"
          BY <1>1, <2>4, <3>2
             DEF ToFinalizing, memory, RunsInv, ProcessInv, HeldEvidence
        <4>2. QED
          BY <2>6, <3>2, <4>1
             DEF HeldRow, HeldEvidence, HeldVerdict, Writing, AcceptsSpans
      <3>3. QED
        BY <3>1, <3>2
    <2>7. QED
      BY <1>1, <1>2, <1>3, <2>2, <2>3, <2>4, <2>5, <2>6, WorkerMove
  <1>7. QED
    BY <1>5, <1>6

(* The bundle is inserted once, from a list of spans nobody can add to. *)
LEMMA InsertBundleKeeps ==
    ASSUME RunsInv, NEW w \in Workers, InsertBundle(w)
    PROVE  RunsInv'
  <1>1. /\ w \in Actors /\ pc[w] = "insert_bundle"
        /\ UNCHANGED <<now, jobs, claim, enq, run, spans, summary, batch, work, budgets>>
        /\ row[w] \in Run /\ work[w] \in Work /\ claim[w] \in Stamp
        /\ claim'[w] # NoClaim
    BY ActorFacts, StampFacts
       DEF InsertBundle, RunsInv, TypeOK, MemoryTypeOK, JobsTypeOK, ProcessInv, WorkerPlace
  <1>2. /\ row[w].state = "finalizing" /\ row[w].completion = run.completion
        /\ ~AcceptsSpans(run.state) /\ work[w].evidence = Assigned
    BY <1>1 DEF RunsInv, ProcessInv, HeldEvidence
  <1>3. JobsTypeOK' /\ RowsNumbered' /\ BudgetTypeOK' /\ work' \in [Workers -> Work]
    BY <1>1 DEF RunsInv, TypeOK, JobsTypeOK, RowsNumbered, MemoryTypeOK, BudgetTypeOK,
                budgets
  <1>4. Assigned' = Assigned
    BY <1>1 DEF Assigned
  <1>5. CASE bundle \in {None, Evidence(w)}
    <2>1. bundle' = Evidence(w) /\ Evidence(w) \in Bundle /\ bundle' # None
      BY <1>1, <1>5, RunsAssumption DEF InsertBundle, Evidence, Bundle, Work, Run
    <2>2. StoreTypeOK'
      BY <1>1, <2>1 DEF RunsInv, TypeOK, StoreTypeOK
    <2>3. bundle'.spans = Assigned /\ bundle'.completion = run.completion
      BY <1>2, <2>1 DEF Evidence
    <2>4. StoreInv'
      <3>1. CompletionFits(run)' /\ EvidenceIsComplete'
        BY <1>1, <1>2, <1>4, <2>3 DEF RunsInv, StoreInv, EvidenceIsComplete, CompletionFits
      <3>2. VerdictFromEvidence'
        BY <1>1, <1>5, <2>1 DEF RunsInv, StoreInv, VerdictFromEvidence
      <3>3. QED
        BY <3>1, <3>2 DEF StoreInv
    <2>5. Monotone
      BY <1>1, <1>4, <1>5, <2>1 DEF Monotone
    <2> DEFINE q == [row[w] EXCEPT !.spanCount = Cardinality(work[w].evidence)]
               r == TransitionTo(q, "evaluating", claim[w])
               v == [state |-> row[w].state, updatedAt |-> row[w].updatedAt]
    <2>6. /\ seen' = [seen EXCEPT ![w] = v]
          /\ row' = [row EXCEPT ![w] = r]
          /\ Goto(w, "to_evaluating")
      BY <1>5 DEF InsertBundle
    <2>7. q \in Run /\ q.completion = run.completion
      <3>1. IsFiniteSet(work[w].evidence)
        BY <1>1, RunsAssumption, FS_Subset DEF Work
      <3>2. Cardinality(work[w].evidence) \in Nat
        BY <3>1, FS_CardinalityType
      <3>3. QED
        BY <1>1, <1>2, <3>2 DEF Run
    <2>8. v \in Version /\ v.state = "finalizing"
      BY <1>1, <1>2 DEF Version, Run
    <2> HIDE DEF q, v
    <2>9. r \in Run /\ r.state = "evaluating" /\ r.completion = run.completion
      <3>1. "evaluating" \in RunStates
        BY DEF RunStates
      <3>2. QED
        BY <1>1, <2>7, <3>1, TransitionFacts
    <2> HIDE DEF r
    <2>10. /\ seen' \in [Actors -> Version] /\ row' \in [Actors -> Run]
           /\ seen'[w] = v /\ row'[w] = r
           /\ \A x \in Actors \ {w} : seen'[x] = seen[x] /\ row'[x] = row[x]
      BY <1>1, <2>6, <2>8, <2>9 DEF RunsInv, TypeOK, MemoryTypeOK
    <2>11. "to_evaluating" \in WorkerLabels /\ "to_evaluating" \notin Unclaimed
      BY DEF WorkerLabels, Labels, Resting, Unclaimed
    <2>12. ASSUME pc'[w] = "to_evaluating"
           PROVE  HeldRow(w)' /\ HeldEvidence(w)' /\ HeldVerdict(w)'
      BY <1>1, <1>2, <2>1, <2>8, <2>9, <2>10, <2>12
         DEF HeldRow, HeldEvidence, HeldVerdict, CanEnter, Allowed, CompletionFits, Early,
             AcceptsSpans
    <2>13. QED
      BY <1>1, <1>3, <2>2, <2>4, <2>5, <2>6, <2>10, <2>11, <2>12, WorkerMove
  <1>6. CASE bundle \notin {None, Evidence(w)}
    <2>1. /\ UNCHANGED <<now, jobs, claim, enq, store, seen, row, batch, work, budgets>>
          /\ Goto(w, "fail") /\ pc[w] \notin Unclaimed
      BY <1>1, <1>6 DEF InsertBundle, store, Unclaimed
    <2>2. QED
      BY <2>1, ElsewhereKeeps
  <1>7. QED
    BY <1>5, <1>6

LEMMA SaveSummaryKeeps ==
    ASSUME RunsInv, NEW w \in Workers, SaveSummary(w)
    PROVE  RunsInv' /\ run'.state = run.state /\ run'.completion = run.completion
  <1>1. /\ w \in Actors /\ pc[w] = "save_summary"
        /\ UNCHANGED <<now, jobs, claim, enq, spans, bundle, memory, budgets>>
        /\ work[w] \in Work /\ claim[w] \in Stamp /\ run \in Run
        /\ claim'[w] # NoClaim
    BY ActorFacts, StampFacts
       DEF SaveSummary, RunsInv, TypeOK, StoreTypeOK, MemoryTypeOK, JobsTypeOK,
           ProcessInv, WorkerPlace
  <1>2. CASE summary = None
    <2>1. /\ summary' = work[w].evidence
          /\ run' = [run EXCEPT !.verdict = work[w].evidence, !.updatedAt = claim[w]]
          /\ Goto(w, "reread")
      BY <1>2 DEF SaveSummary
    <2>2. /\ run' \in Run /\ run'.state = run.state /\ run'.completion = run.completion
          /\ summary' \in SUBSET Spans /\ summary' # None
      <3>1. work[w].evidence \in SUBSET Spans /\ work[w].evidence # None
        BY <1>1, RunsAssumption DEF Work
      <3>2. QED
        BY <1>1, <2>1, <3>1 DEF Run
    <2>3. bundle # None /\ summary' = bundle.spans
      BY <1>1, <2>1 DEF RunsInv, ProcessInv, HeldVerdict
    <2>4. Assigned' = Assigned
      BY <1>1 DEF Assigned
    <2>5. StoreInv' /\ Monotone /\ StoreTypeOK'
      BY <1>1, <1>2, <2>2, <2>3, <2>4
         DEF RunsInv, TypeOK, StoreTypeOK, StoreInv, EvidenceIsComplete,
             VerdictFromEvidence, CompletionFits, Monotone
    <2>6. /\ JobsTypeOK' /\ RowsNumbered' /\ BudgetTypeOK' /\ work' \in [Workers -> Work]
          /\ seen' \in [Actors -> Version] /\ row' \in [Actors -> Run]
          /\ UNCHANGED <<seen, row, batch, work>>
      BY <1>1 DEF RunsInv, TypeOK, JobsTypeOK, RowsNumbered, MemoryTypeOK, BudgetTypeOK,
                  budgets, memory
    <2>7. "reread" \in WorkerLabels /\ "reread" \notin Unclaimed /\ "reread" \notin Writing
      BY DEF WorkerLabels, Labels, Resting, Unclaimed, Writing
    <2>8. pc'[w] = "reread" => HeldRow(w)' /\ HeldEvidence(w)' /\ HeldVerdict(w)'
      BY <2>2, <2>7 DEF HeldRow, HeldEvidence, HeldVerdict
    <2>9. RunsInv'
      BY <1>1, <2>1, <2>5, <2>6, <2>7, <2>8, WorkerMove
    <2>10. QED
      BY <2>2, <2>9
  <1>3. CASE summary # None
    <2>1. /\ UNCHANGED <<now, jobs, claim, enq, store, seen, row, batch, work, budgets>>
          /\ Goto(w, "fail") /\ pc[w] \notin Unclaimed /\ run' = run
      BY <1>1, <1>3 DEF SaveSummary, store, memory, Unclaimed
    <2>2. QED
      BY <2>1, ElsewhereKeeps
  <1>4. QED
    BY <1>2, <1>3

LEMMA TimeoutCompleteKeeps ==
    ASSUME RunsInv, NEW w \in Workers, TimeoutComplete(w)
    PROVE  RunsInv'
  <1>1. /\ w \in Actors /\ pc[w] = "complete"
        /\ UNCHANGED <<now, jobs, claim, enq, store, batch, work, budgets>>
        /\ CompleteRead(w, work[w].completion, now, claim[w], "complete_write", "fail")
    BY ActorFacts DEF TimeoutComplete
  <1>2. claim[w] \in Stamp /\ claim'[w] # NoClaim /\ now \in Time
    BY <1>1, StampFacts DEF RunsInv, TypeOK, JobsTypeOK, ProcessInv, WorkerPlace
  <1>3. /\ Monotone /\ StoreInv' /\ StoreTypeOK' /\ JobsTypeOK' /\ RowsNumbered'
        /\ BudgetTypeOK' /\ work' \in [Workers -> Work]
    BY <1>1, StoreRests
       DEF RunsInv, TypeOK, JobsTypeOK, RowsNumbered, MemoryTypeOK, BudgetTypeOK, budgets
  <1>4. run' = run /\ bundle' = bundle /\ summary' = summary
    BY <1>1 DEF store
  <1>5. "fail" \in Labels \ Writing
    BY DEF Labels, Writing
  <1> DEFINE c == work[w].completion
  <1>6. /\ seen' \in [Actors -> Version] /\ row' \in [Actors -> Run]
        /\ \A x \in Actors \ {w} : seen'[x] = seen[x] /\ row'[x] = row[x]
        /\ HeldRow(w)'
    <2>1. c \in Completions
      BY <1>1 DEF RunsInv, TypeOK, MemoryTypeOK, Work, ProcessInv, HeldEvidence
    <2>2. CompleteRead(w, c, now, claim[w], "complete_write", "fail")
      BY <1>1
    <2> HIDE DEF c
    <2>3. QED
      BY <1>1, <1>2, <1>4, <1>5, <2>1, <2>2, CompleteReadFacts
  <1>7. PICK label \in {"complete_write", "fail"} : Goto(w, label)
    BY <1>1 DEF CompleteRead
  <1>8. label \in WorkerLabels /\ label \notin Unclaimed
    BY <1>7 DEF WorkerLabels, Labels, Resting, Unclaimed
  <1>9. pc'[w] = label => HeldEvidence(w)' /\ HeldVerdict(w)'
    BY <1>7 DEF HeldEvidence, HeldVerdict
  <1>10. QED
    BY <1>1, <1>2, <1>3, <1>6, <1>7, <1>8, <1>9, WorkerMove

LEMMA NoWorkType == NoWork \in Work
  BY TimeFacts DEF NoWork, Work

LEMMA WorkerClaimKeeps ==
    ASSUME RunsInv, NEW w \in Workers, NEW k \in Keys, WorkerClaim(w, k)
    PROVE  RunsInv'
  <1>1. /\ w \in Actors /\ ClaimDue(w, k) /\ Goto(w, FirstCall[k])
        /\ UNCHANGED <<store, seen, row, batch, budgets>>
    BY ActorFacts DEF WorkerClaim
  <1>2. /\ JobsTypeOK' /\ RowsNumbered' /\ claim'[w] # NoClaim
        /\ \A x \in Workers \ {w} : claim'[x] = claim[x]
    BY <1>1, ClaimKeepsTypes DEF ClaimDue, RunsInv, TypeOK, JobsTypeOK
  <1>3. k \in {"timeout", "idle", "finalize", "evaluate"}
    BY ActorFacts DEF JobKinds
  <1>4. /\ FirstCall[k] \in {"timeout", "idle_timeout", "finalize", "evaluate"}
        /\ FirstCall[k] = "timeout" <=> k = "timeout"
    BY <1>3 DEF FirstCall
  <1> DEFINE label == FirstCall[k]
             job == [NoWork EXCEPT !.completion = IF k = "timeout" THEN "max_duration" ELSE @]
  <1>5. job \in Work /\ (k = "timeout" => job.completion # NoCompletion)
    BY NoWorkType, RunsAssumption DEF NoWork, Work
  <1> HIDE DEF label, job
  <1>6. work' = [work EXCEPT ![w] = job]
    BY DEF WorkerClaim, job
  <1>7. /\ work' \in [Workers -> Work] /\ work'[w] = job
        /\ \A x \in Workers \ {w} : work'[x] = work[x]
    BY <1>5, <1>6 DEF RunsInv, TypeOK, MemoryTypeOK
  <1>8. label \in WorkerLabels /\ label \notin Unclaimed /\ label \notin Writing
    BY <1>4 DEF label, WorkerLabels, Labels, Resting, Unclaimed, Writing
  <1>9. /\ Monotone /\ StoreInv' /\ StoreTypeOK' /\ BudgetTypeOK'
        /\ seen' \in [Actors -> Version] /\ row' \in [Actors -> Run]
    BY <1>1, StoreRests DEF RunsInv, TypeOK, MemoryTypeOK, BudgetTypeOK, budgets
  <1>10. pc'[w] = label => HeldRow(w)' /\ HeldEvidence(w)' /\ HeldVerdict(w)'
    BY <1>4, <1>5, <1>7, <1>8 DEF label, HeldRow, HeldEvidence, HeldVerdict
  <1>11. Goto(w, label)
    BY <1>1 DEF label
  <1>12. QED
    BY <1>1, <1>2, <1>7, <1>8, <1>9, <1>10, <1>11, WorkerMove

(* A worker records what became of its job, or stops, or meets an error. *)
LEMMA WorkerEndKeeps ==
    ASSUME RunsInv, NEW w \in Workers,
           \/ WorkerReschedule(w) \/ WorkerFinish(w) \/ WorkerFail(w)
           \/ WorkerRescheduleLost(w) \/ WorkerCrash(w) \/ WorkerError(w)
    PROVE  RunsInv'
  <1>1. w \in Actors /\ UNCHANGED <<store, batch>>
    BY ActorFacts DEF WorkerReschedule, WorkerFinish, WorkerFail, WorkerRescheduleLost,
                      WorkerCrash, WorkerError, ProcessStops, memory
  <1>2. /\ JobsTypeOK /\ RowsNumbered /\ MemoryTypeOK /\ claim \in [Workers -> Claims \cup {NoClaim}]
        /\ work[w].until \in Time
        /\ claim[w] = NoClaim <=> pc[w] \in Unclaimed
    BY <1>1 DEF RunsInv, TypeOK, JobsTypeOK, MemoryTypeOK, Work, ProcessInv, WorkerPlace,
                Unclaimed
  <1>3. Monotone /\ StoreInv' /\ StoreTypeOK'
    BY <1>1, StoreRests DEF RunsInv
  <1>4. BudgetTypeOK'
    <2>1. CASE Fault
      BY <2>1, RunsAssumption DEF Fault, RunsInv, TypeOK, BudgetTypeOK
    <2>2. CASE UNCHANGED budgets
      BY <2>2 DEF budgets, RunsInv, TypeOK, BudgetTypeOK
    <2>3. QED
      BY <2>1, <2>2 DEF WorkerReschedule, WorkerFinish, WorkerFail, WorkerRescheduleLost,
                        WorkerCrash, WorkerError, ProcessStops
  <1>5. /\ seen' \in [Actors -> Version] /\ row' \in [Actors -> Run]
        /\ \A x \in Actors \ {w} : seen'[x] = seen[x] /\ row'[x] = row[x]
    <2>1. CASE Forget(w)
      BY <1>1, <1>2, <2>1, ForgetFacts
    <2>2. CASE UNCHANGED <<seen, row>>
      BY <1>2, <2>2 DEF MemoryTypeOK
    <2>3. QED
      BY <2>1, <2>2 DEF WorkerReschedule, WorkerFinish, WorkerFail, WorkerRescheduleLost,
                        WorkerCrash, WorkerError, ProcessStops, ClearWorker, memory
  <1>6. /\ work' \in [Workers -> Work]
        /\ \A x \in Workers \ {w} : work'[x] = work[x]
    <2>1. work' \in {work, [work EXCEPT ![w] = NoWork]}
      BY DEF WorkerReschedule, WorkerFinish, WorkerFail, WorkerRescheduleLost,
             WorkerCrash, WorkerError, ClearWorker, memory
    <2>2. QED
      BY <1>2, <2>1, NoWorkType DEF MemoryTypeOK
  <1>7. JobsTypeOK' /\ RowsNumbered'
    <2>1. CASE WorkerReschedule(w) \/ WorkerFinish(w) \/ WorkerFail(w) \/ WorkerRescheduleLost(w)
      <3>1. Answer(w) \/ \E at \in Time : RescheduleReplyLost(w, at)
        BY <1>2, <2>1 DEF WorkerReschedule, WorkerFinish, WorkerFail, WorkerRescheduleLost,
                          Answer
      <3>2. QED
        BY <1>2, <3>1, AnswerKeepsTypes
    <2>2. CASE WorkerCrash(w) \/ WorkerError(w)
      <3>1. /\ enq' = [enq EXCEPT ![w] = NoRequest] /\ UNCHANGED <<now, jobs>>
            /\ claim' \in {claim, [claim EXCEPT ![w] = NoClaim]}
        BY <2>2 DEF WorkerCrash, WorkerError, ProcessStops, Release
      <3>2. QED
        BY <1>2, <3>1, NoRequestType DEF JobsTypeOK, RowsNumbered
    <2>3. QED
      BY <2>1, <2>2
  <1>8. PICK label \in {"idle", "mark_failed", "fail"} :
           /\ Goto(w, label)
           /\ label = "fail" => claim' = claim /\ pc[w] \notin Unclaimed
           /\ label # "fail" => claim' = [claim EXCEPT ![w] = NoClaim]
    <2>1. CASE WorkerReschedule(w) \/ WorkerFinish(w) \/ WorkerFail(w) \/ WorkerCrash(w)
      BY <2>1 DEF WorkerReschedule, WorkerFinish, WorkerFail, WorkerCrash, ProcessStops,
                  RescheduleJob, CompleteJob, FailJob, Release
    <2>2. CASE WorkerRescheduleLost(w) \/ WorkerError(w)
      <3>1. WorkerError(w) => pc[w] \notin Unclaimed
        BY DEF WorkerError, ProcessStops, Resting, Unclaimed
      <3>2. WorkerRescheduleLost(w) => pc[w] \notin Unclaimed
        BY DEF WorkerRescheduleLost, Unclaimed
      <3>3. Goto(w, "fail") /\ claim' = claim
        BY <2>2 DEF WorkerRescheduleLost, WorkerError, ProcessStops, RescheduleReplyLost
      <3>4. QED
        BY <2>2, <3>1, <3>2, <3>3
    <2>3. QED
      BY <2>1, <2>2
  <1>9. label \in WorkerLabels /\ label \notin Writing
    BY <1>8 DEF WorkerLabels, Labels, Resting, Writing
  <1>10. /\ claim'[w] = NoClaim <=> label \in Unclaimed
         /\ \A x \in Workers \ {w} : claim'[x] = claim[x]
    BY <1>2, <1>8 DEF Unclaimed
  <1>11. pc'[w] = label => HeldRow(w)' /\ HeldEvidence(w)' /\ HeldVerdict(w)'
    BY <1>8, <1>9 DEF HeldRow, HeldEvidence, HeldVerdict
  <1>12. QED
    BY <1>1, <1>3, <1>4, <1>5, <1>6, <1>7, <1>8, <1>9, <1>10, <1>11, WorkerMove

(* A server stops in the middle of a request or a call. *)
LEMMA RequestCrashKeeps ==
    ASSUME RunsInv, NEW a \in Batches \cup Calls, RequestCrash(a)
    PROVE  RunsInv'
  <1>1. /\ a \in Actors /\ a \notin Workers
        /\ Fault /\ Goto(a, "failed") /\ Forget(a)
        /\ enq' = [enq EXCEPT ![a] = NoRequest]
        /\ UNCHANGED <<now, jobs, claim, store, batch, work>>
    BY ActorFacts DEF RequestCrash, ProcessStops
  <1>2. Monotone /\ StoreInv' /\ StoreTypeOK' /\ "failed" \in Labels
    BY <1>1, StoreRests DEF RunsInv, Labels, Resting
  <1>3. /\ pc' \in [Actors -> Labels] /\ pc'[a] = "failed"
        /\ \A x \in Actors \ {a} : pc'[x] = pc[x]
    BY <1>1, <1>2, GotoFacts DEF RunsInv, TypeOK
  <1>4. /\ seen' \in [Actors -> Version] /\ row' \in [Actors -> Run]
        /\ \A x \in Actors \ {a} : seen'[x] = seen[x] /\ row'[x] = row[x]
    BY <1>1, ForgetFacts DEF RunsInv, TypeOK
  <1>5. TypeOK' /\ RowsNumbered'
    <2>1. JobsTypeOK' /\ RowsNumbered'
      BY <1>1, NoRequestType DEF RunsInv, TypeOK, JobsTypeOK, RowsNumbered
    <2>2. MemoryTypeOK'
      BY <1>1, <1>3, <1>4 DEF RunsInv, TypeOK, MemoryTypeOK
    <2>3. BudgetTypeOK'
      BY <1>1, RunsAssumption DEF Fault, RunsInv, TypeOK, BudgetTypeOK
    <2>4. QED
      BY <1>2, <2>1, <2>2, <2>3 DEF TypeOK
  <1>6. OthersRest(a)
    BY <1>1, <1>3, <1>4 DEF OthersRest
  <1>7. ProcessInv(a)'
    BY <1>1, <1>3 DEF ProcessInv, HeldRow, Writing, BatchPlace, BatchLabels, CallLabels
  <1>8. QED
    BY <1>1, <1>2, <1>5, <1>6, <1>7, MoveKeeps

(* The clock, the leases and the inside of enqueue touch no process. *)
LEMMA SurroundingsKeep ==
    ASSUME RunsInv,
           \/ ClockTick
           \/ \E a \in Actors : EnqueueCall(a)
           \/ \E k \in Keys : LeaseRunsOut(k)
           \/ UNCHANGED vars
    PROVE  RunsInv'
  <1>1. UNCHANGED <<store, pc, memory, claim>>
    BY DEF ClockTick, Tick, EnqueueCall, EnqueueProgress, EnqueueFind, EnqueueRefind,
           EnqueueBump, EnqueueInsert, LeaseRunsOut, LeaseExpires, vars, store, memory
  <1>2. Monotone /\ StoreInv' /\ StoreTypeOK'
    BY <1>1, StoreRests DEF RunsInv
  <1>3. \A a \in Actors : ProcessInv(a)'
    BY <1>1, <1>2, OthersKeep DEF RunsInv, memory
  <1>4. JobsTypeOK' /\ RowsNumbered'
    <2>1. CASE ClockTick
      BY <2>1, TickKeepsTypes DEF ClockTick, RunsInv, TypeOK
    <2>2. ASSUME NEW a \in Actors, EnqueueCall(a) PROVE JobsTypeOK' /\ RowsNumbered'
      BY <2>2, EnqueueKeepsTypes, ActorFacts DEF EnqueueCall, RunsInv, TypeOK
    <2>3. ASSUME NEW k \in Keys, LeaseRunsOut(k) PROVE JobsTypeOK' /\ RowsNumbered'
      BY <2>3, LeaseKeepsTypes DEF LeaseRunsOut, RunsInv, TypeOK
    <2>4. CASE UNCHANGED vars
      BY <2>4 DEF vars, RunsInv, TypeOK, JobsTypeOK, RowsNumbered
    <2>5. QED
      BY <2>1, <2>2, <2>3, <2>4
  <1>5. MemoryTypeOK'
    BY <1>1 DEF RunsInv, TypeOK, MemoryTypeOK, memory
  <1>6. BudgetTypeOK'
    <2>1. ASSUME NEW k \in Keys, LeaseRunsOut(k) PROVE BudgetTypeOK'
      BY <2>1, RunsAssumption DEF LeaseRunsOut, RunsInv, TypeOK, BudgetTypeOK
    <2>2. QED
      BY <2>1 DEF ClockTick, EnqueueCall, vars, budgets, RunsInv, TypeOK, BudgetTypeOK
  <1>7. QED
    BY <1>2, <1>3, <1>4, <1>5, <1>6 DEF RunsInv, TypeOK

----------------------------------------------------------------------------
(* The invariant *)

LEMMA RunsInit == Init => RunsInv
  <1> SUFFICES ASSUME Init PROVE RunsInv
    OBVIOUS
  <1>1. JobsTypeOK /\ RowsNumbered
    <2>1. NewRow(1, HardDeadline) \in Job /\ NoRow \in Job
      BY RunsAssumption, JobsAssumption, TimeFacts DEF NewRow, NoRow, Job, Status
    <2>2. QED
      BY <2>1, NoRequestType, TimeFacts
         DEF Init, JobsTypeOK, RowsNumbered, NoRow, NewRow
  <1>2. StoreTypeOK
    BY NewRunType DEF Init, StoreTypeOK
  <1>3. MemoryTypeOK
    <2>1. NewBatch \in Progress
      BY TimeFacts DEF NewBatch, Progress
    <2>2. "idle" \in Labels /\ "ready" \in Labels
      BY DEF Labels, Resting
    <2>3. QED
      BY <2>1, <2>2, NewRunType, NoWorkType DEF Init, MemoryTypeOK
  <1>4. BudgetTypeOK
    BY RunsAssumption DEF Init, BudgetTypeOK
  <1>5. StoreInv
    BY NewRunType
       DEF Init, StoreInv, EvidenceIsComplete, VerdictFromEvidence, NewRun
  <1>6. ASSUME NEW a \in Actors PROVE ProcessInv(a)
    <2>1. pc[a] = IF a \in Workers THEN "idle" ELSE "ready"
      BY <1>6 DEF Init
    <2>2. CASE a \in Workers
      <3>1. pc[a] = "idle" /\ claim[a] = NoClaim /\ a \notin Batches /\ a \notin Calls
        BY <2>1, <2>2, ActorFacts DEF Init
      <3>2. QED
        BY <3>1 DEF ProcessInv, HeldRow, HeldEvidence, HeldVerdict, WorkerPlace,
                    WorkerLabels, Writing, Labels, Resting
    <2>3. CASE a \notin Workers
      BY <2>1, <2>3 DEF ProcessInv, HeldRow, Writing, BatchPlace, BatchLabels, CallLabels
    <2>4. QED
      BY <2>2, <2>3
  <1>7. QED
    BY <1>1, <1>2, <1>3, <1>4, <1>5, <1>6 DEF RunsInv, TypeOK

LEMMA RunsStep ==
    ASSUME RunsInv, [Next]_vars
    PROVE  RunsInv'
  <1>1. ASSUME NEW b \in Batches, SendBatch(b) \/ BatchStep(b) PROVE RunsInv'
    <2>1. b \in Actors /\ b \notin Workers
      BY ActorFacts
    <2>2. CASE EnqueueAnswered(b, "done", "failed")
      BY <2>1, <2>2, AnsweredKeeps
    <2>3. QED
      BY <1>1, <2>2, SendKeeps, InsertKeeps, ReconcileReadKeeps, ReconcileWriteKeeps
         DEF BatchStep
  <1>2. ASSUME NEW c \in Calls, CallComplete(c) \/ CallCancel(c) \/ CallStep(c)
        PROVE  RunsInv'
    <2>1. c \in Actors /\ c \notin Workers
      BY ActorFacts
    <2>2. CASE EnqueueAnswered(c, "done", "done")
      BY <2>1, <2>2, AnsweredKeeps
    <2>3. QED
      BY <1>2, <2>2, CallReadKeeps, CallWriteKeeps DEF CallStep
  <1>3. ASSUME NEW w \in Workers, WorkerStep(w) PROVE RunsInv'
    <2>1. w \in Actors
      BY ActorFacts
    <2>2. CASE EnqueueAnswered(w, "finish", "fail")
      BY <2>1, <2>2, AnsweredKeeps
    <2>3. QED
      BY <1>3, <2>2, WorkerClaimKeeps, LookKeeps, ReadKeeps, WorkerWriteKeeps,
         InsertBundleKeeps, SaveSummaryKeeps, TimeoutCompleteKeeps, WorkerEndKeeps
         DEF WorkerStep
  <1>4. ASSUME NEW w \in Workers, WorkerCrash(w) \/ WorkerError(w) \/ WorkerRescheduleLost(w)
        PROVE  RunsInv'
    BY <1>4, WorkerEndKeeps
  <1>5. QED
    BY <1>1, <1>2, <1>3, <1>4, RequestCrashKeeps, SurroundingsKeep DEF Next

(* What one step can do to the store. *)
StoreStep ==
    \/ UNCHANGED store
    \/ /\ UNCHANGED <<spans, bundle, summary>>
       /\ CanEnter(run.state, run'.state)
       /\ ~Early(run.state) => run'.completion = run.completion
    \/ /\ Assigned' = Assigned
       /\ UNCHANGED <<run, bundle, summary>>
    \/ /\ AcceptsSpans(run.state)
       /\ \E s \in Spans : s \notin Assigned /\ Assigned' = Assigned \cup {s}
       /\ run'.state = run.state /\ run'.completion = run.completion
       /\ UNCHANGED <<bundle, summary>>
    \/ /\ bundle = None /\ bundle' # None
       /\ UNCHANGED <<run, spans, summary>>
    \/ /\ summary = None /\ summary' # None
       /\ run'.state = run.state /\ run'.completion = run.completion
       /\ UNCHANGED <<spans, bundle>>

LEMMA StoreSteps ==
    ASSUME RunsInv, [Next]_vars
    PROVE  StoreStep
  <1>1. CASE UNCHANGED store
    BY <1>1 DEF StoreStep
  <1>2. ASSUME NEW a \in Actors, pc[a] \in Writing, UNCHANGED <<spans, bundle, summary>>,
               run' = run \/ (Unchanged(a) /\ run' = row[a])
        PROVE  StoreStep
    BY <1>2, WriteKeeps DEF StoreStep, Monotone
  <1>3. ASSUME NEW b \in Batches, SendBatch(b) \/ BatchStep(b) PROVE StoreStep
    <2>1. b \in Actors
      BY ActorFacts
    <2>2. CASE ReconcileWrite(b)
      <3>1. /\ pc[b] \in Writing /\ UNCHANGED <<spans, bundle, summary>>
            /\ run' = run \/ (Unchanged(b) /\ run' = row[b])
        BY <2>2 DEF ReconcileWrite, Writing
      <3>2. QED
        BY <1>2, <2>1, <3>1
    <2>3. CASE InsertLate(b)
      <3>1. /\ spans' = [spans EXCEPT ![CurrentSpan(b)] = "late"]
            /\ spans[CurrentSpan(b)] = "absent"
            /\ UNCHANGED <<run, bundle, summary>>
        BY <2>3 DEF InsertLate
      <3>2. Assigned' = Assigned
        BY <3>1 DEF Assigned, RunsInv, TypeOK, StoreTypeOK
      <3>3. QED
        BY <3>1, <3>2 DEF StoreStep
    <2>4. CASE InsertAccepted(b)
      <3>1. /\ pc[b] = "insert" /\ SpanDone(b, TRUE, TRUE)
            /\ spans' = [spans EXCEPT ![CurrentSpan(b)] = "assigned"]
            /\ spans[CurrentSpan(b)] = "absent" /\ AcceptsSpans(run.state)
            /\ run' = [run EXCEPT !.lastSeen = now, !.spanCount = @ + 1,
                                  !.updatedAt = SpanStamp(b, batch[b].next)]
            /\ UNCHANGED <<bundle, summary>>
        BY <2>4 DEF InsertAccepted
      <3>2. CurrentSpan(b) \in Spans
        BY <3>1, SpanDoneFacts
      <3>3. /\ CurrentSpan(b) \notin Assigned
            /\ Assigned' = Assigned \cup {CurrentSpan(b)}
        BY <3>1, <3>2 DEF Assigned, RunsInv, TypeOK, StoreTypeOK
      <3>4. run'.state = run.state /\ run'.completion = run.completion
        BY <3>1 DEF RunsInv, TypeOK, StoreTypeOK, Run
      <3>5. QED
        BY <3>1, <3>2, <3>3, <3>4 DEF StoreStep
    <2>5. QED
      BY <1>1, <1>3, <2>2, <2>3, <2>4
         DEF SendBatch, BatchStep, Authorize, InsertDuplicate, InsertRefused,
             ReconcileRead, EnqueueAnswered
  <1>4. ASSUME NEW c \in Calls, CallComplete(c) \/ CallCancel(c) \/ CallStep(c)
        PROVE  StoreStep
    <2>1. c \in Actors
      BY ActorFacts
    <2>2. CASE CallCompleteWrite(c) \/ CallCancelWrite(c)
      <3>1. /\ pc[c] \in Writing /\ UNCHANGED <<spans, bundle, summary>>
            /\ run' = run \/ (Unchanged(c) /\ run' = row[c])
        BY <2>2 DEF CallCompleteWrite, CallCancelWrite, UpdateThenEnqueue, UpdateRun, Writing
      <3>2. QED
        BY <1>2, <2>1, <3>1
    <2>3. QED
      BY <1>1, <1>4, <2>2 DEF CallComplete, CallCancel, CallStep, EnqueueAnswered
  <1>5. ASSUME NEW w \in Workers, WorkerStep(w) PROVE StoreStep
    <2>1. w \in Actors
      BY ActorFacts
    <2>2. CASE \/ TimeoutCompleteWrite(w) \/ ToFinalizing(w) \/ ToEvaluating(w)
               \/ ToCompleted(w) \/ MarkFailedWrite(w)
      <3>1. /\ pc[w] \in Writing /\ UNCHANGED <<spans, bundle, summary>>
            /\ run' = run \/ (Unchanged(w) /\ run' = row[w])
        BY <2>2 DEF TimeoutCompleteWrite, ToFinalizing, ToEvaluating, ToCompleted,
                    MarkFailedWrite, UpdateThenEnqueue, UpdateRun, Writing
      <3>2. QED
        BY <1>2, <2>1, <3>1
    <2>3. CASE InsertBundle(w)
      <3>1. UNCHANGED <<run, spans, summary>>
            /\ (bundle' = bundle \/ (bundle \in {None, Evidence(w)} /\ bundle' = Evidence(w)))
        BY <2>3 DEF InsertBundle
      <3>2. Evidence(w) \in Bundle
        BY <2>1 DEF Evidence, Bundle, RunsInv, TypeOK, MemoryTypeOK, Work, Run
      <3>3. bundle' = bundle \/ (bundle = None /\ bundle' # None)
        BY <3>1, <3>2, RunsAssumption
      <3>4. QED
        BY <1>1, <3>1, <3>3 DEF StoreStep, store
    <2>4. CASE SaveSummary(w)
      <3>1. run'.state = run.state /\ run'.completion = run.completion
        BY <2>4, SaveSummaryKeeps
      <3>2. work[w].evidence # None
        BY RunsAssumption DEF RunsInv, TypeOK, MemoryTypeOK, Work
      <3>3. QED
        BY <1>1, <2>4, <3>1, <3>2 DEF SaveSummary, StoreStep, store
    <2>5. QED
      BY <1>1, <1>5, <2>2, <2>3, <2>4
         DEF WorkerStep, WorkerClaim, ProcessTimeout, ProcessIdleTimeout, WorkerReschedule,
             TimeoutComplete, FinalizeStart, FinalizeReplay, FinalizeRead, ListSpans,
             EvaluateStart, EvaluateReplay, EvaluatePack, RereadRun, EnqueueAnswered,
             WorkerFinish, WorkerFail, MarkFailedRead
  <1>6. CASE \/ \E a \in Actors : EnqueueCall(a)
             \/ \E w \in Workers : WorkerCrash(w) \/ WorkerError(w) \/ WorkerRescheduleLost(w)
             \/ \E a \in Batches \cup Calls : RequestCrash(a)
             \/ \E k \in Keys : LeaseRunsOut(k)
             \/ ClockTick
             \/ UNCHANGED vars
    <2>1. \A a \in Actors : EnqueueCall(a) => UNCHANGED store
      BY DEF EnqueueCall
    <2>2. \A w \in Workers :
             WorkerCrash(w) \/ WorkerError(w) \/ WorkerRescheduleLost(w) => UNCHANGED store
      BY DEF WorkerCrash, WorkerError, WorkerRescheduleLost, ProcessStops
    <2>3. \A a \in Batches \cup Calls : RequestCrash(a) => UNCHANGED store
      BY DEF RequestCrash, ProcessStops
    <2>4. (\E k \in Keys : LeaseRunsOut(k)) \/ ClockTick \/ UNCHANGED vars => UNCHANGED store
      BY DEF LeaseRunsOut, ClockTick, vars, store
    <2>5. QED
      BY <1>1, <1>6, <2>1, <2>2, <2>3, <2>4
  <1>7. QED
    BY <1>3, <1>4, <1>5, <1>6 DEF Next

LEMMA RunsInvariant == Spec => []RunsInv
  <1>1. RunsInv /\ [Next]_vars => RunsInv'
    BY RunsStep
  <1>2. QED
    BY RunsInit, <1>1, PTL DEF Spec

(* Every variable keeps its type, however long the run lane works. *)
THEOREM RunTypes == Spec => []TypeOK
  <1>1. RunsInv => TypeOK
    BY DEF RunsInv
  <1>2. QED
    BY <1>1, RunsInvariant, PTL

(* The bundle is exactly the accepted spans, for any number of finalizing   *)
(* workers, concurrent requests, lost leases and crashes.                   *)
THEOREM CompleteEvidence == Spec => []EvidenceIsComplete
  <1>1. RunsInv => EvidenceIsComplete
    BY DEF RunsInv, StoreInv
  <1>2. QED
    BY <1>1, RunsInvariant, PTL

(* A stored verdict was computed from the bundle, and the states that       *)
(* presuppose bundle or summary are entered only with them.                 *)
THEOREM VerdictOnEvidence == Spec => []VerdictFromEvidence
  <1>1. RunsInv => VerdictFromEvidence
    BY DEF RunsInv, StoreInv
  <1>2. QED
    BY <1>1, RunsInvariant, PTL

(* No write, however stale the copy it was computed from, moves the run     *)
(* against the lifecycle.                                                   *)
THEOREM LifecycleIsMonotone == Spec => LifecycleAdvances
  <1>1. RunsInv /\ [Next]_vars => [CanEnter(run.state, run'.state)]_vars
    <2> SUFFICES ASSUME RunsInv, Next PROVE CanEnter(run.state, run'.state)
      OBVIOUS
    <2>1. StoreStep
      BY StoreSteps
    <2>2. QED
      BY <2>1 DEF StoreStep, store, CanEnter
  <1>2. QED
    BY <1>1, RunsInvariant, PTL DEF Spec, LifecycleAdvances

(* The first completion signal stands. *)
THEOREM CompletionIsFirst == Spec => FirstCompletionStands
  <1> DEFINE Stands ==
          /\ run.completion # NoCompletion => run'.completion = run.completion
          /\ IsTerminal(run.state) => run'.completion = run.completion
  <1>1. RunsInv /\ [Next]_vars => [Stands]_vars
    <2> SUFFICES ASSUME RunsInv, Next PROVE Stands
      OBVIOUS
    <2>1. StoreStep
      BY StoreSteps
    <2>2. run.completion # NoCompletion \/ IsTerminal(run.state) => ~Early(run.state)
      BY DEF RunsInv, StoreInv, CompletionFits, IsTerminal, Early
    <2>3. ~Early(run.state) => run'.completion = run.completion
      BY <2>1 DEF StoreStep, store
    <2>4. QED
      BY <2>2, <2>3
  <1> HIDE DEF Stands
  <1>2. Spec => [][Stands]_vars
    BY <1>1, RunsInvariant, PTL DEF Spec
  <1>3. QED
    BY <1>2 DEF FirstCompletionStands, Stands

(* The run lane implements the contract of EvidenceContract: every step is  *)
(* a step of the contract or changes nothing a reader of the result sees.   *)
THEOREM LaneKeepsContract == Spec => KeepsContract
  <1> DEFINE evidence == IF bundle = None THEN None ELSE bundle.spans
  <1>1. Init => Contract!ContractInit
    BY DEF Init, Contract!ContractInit, Assigned, NewRun, AcceptsSpans, Outcome
  <1>2. RunsInv /\ RunsInv' /\ [Next]_vars => [Contract!ContractNext]_(Contract!contractVars)
    <2> SUFFICES ASSUME RunsInv, RunsInv', [Next]_vars
                 PROVE  [Contract!ContractNext]_(Contract!contractVars)
      OBVIOUS
    <2>1. StoreStep
      BY StoreSteps
    <2>2. CASE UNCHANGED store
      BY <2>2 DEF store, Assigned, Outcome, Contract!contractVars
    <2>3. CASE /\ UNCHANGED <<spans, bundle, summary>>
               /\ CanEnter(run.state, run'.state)
      <3>1. Assigned' = Assigned /\ evidence' = evidence /\ summary' = summary
        BY <2>3 DEF Assigned
      <3>2. CASE run'.state = run.state
        BY <3>1, <3>2 DEF Outcome, Contract!contractVars
      <3>3. CASE run'.state \in {"collecting", "settling"} /\ run'.state # run.state
        <4>1. AcceptsSpans(run.state) /\ AcceptsSpans(run'.state)
          BY <2>3, <3>3 DEF CanEnter, Allowed, AcceptsSpans, IsTerminal
        <4>2. Outcome' = Outcome
          BY <4>1 DEF Outcome, AcceptsSpans
        <4>3. QED
          BY <3>1, <4>1, <4>2 DEF Contract!contractVars
      <3>4. CASE run'.state = "finalizing" /\ run'.state # run.state
        <4>1. run.state = "settling"
          BY <2>3, <3>4 DEF CanEnter, Allowed, IsTerminal
        <4>2. Contract!Close
          BY <3>1, <3>4, <4>1 DEF Contract!Close, AcceptsSpans, Outcome
        <4>3. QED
          BY <4>2 DEF Contract!ContractNext
      <3>5. CASE run'.state = "evaluating" /\ run'.state # run.state
        <4>1. run.state = "finalizing"
          BY <2>3, <3>5 DEF CanEnter, Allowed, IsTerminal
        <4>2. QED
          BY <3>1, <3>5, <4>1 DEF Contract!contractVars, AcceptsSpans, Outcome
      <3>6. CASE run'.state = "completed" /\ run'.state # run.state
        <4>1. run.state = "evaluating"
          BY <2>3, <3>6 DEF CanEnter, Allowed, IsTerminal
        <4>2. summary # None
          BY <3>1, <3>6 DEF RunsInv, StoreInv, VerdictFromEvidence
        <4>3. Contract!Complete
          BY <3>1, <3>6, <4>1, <4>2 DEF Contract!Complete, AcceptsSpans, Outcome
        <4>4. QED
          BY <4>3 DEF Contract!ContractNext
      <3>7. CASE run'.state \in {"cancelled", "failed"} /\ run'.state # run.state
        <4>1. ~IsTerminal(run.state)
          BY <2>3, <3>7 DEF CanEnter, Allowed, IsTerminal
        <4>2. Contract!Abandon
          BY <3>1, <3>7, <4>1 DEF Contract!Abandon, AcceptsSpans, Outcome, IsTerminal
        <4>3. QED
          BY <4>2 DEF Contract!ContractNext
      <3>8. QED
        BY <2>3, <3>2, <3>3, <3>4, <3>5, <3>6, <3>7 DEF CanEnter, Allowed
    <2>4. CASE Assigned' = Assigned /\ UNCHANGED <<run, bundle, summary>>
      BY <2>4 DEF Outcome, Contract!contractVars
    <2>5. CASE /\ AcceptsSpans(run.state)
               /\ \E s \in Spans : s \notin Assigned /\ Assigned' = Assigned \cup {s}
               /\ run'.state = run.state
               /\ UNCHANGED <<bundle, summary>>
      <3>1. PICK s \in Spans : s \notin Assigned /\ Assigned' = Assigned \cup {s}
        BY <2>5
      <3>2. Contract!Accept(s)
        BY <2>5, <3>1 DEF Contract!Accept, Outcome
      <3>3. QED
        BY <3>2 DEF Contract!ContractNext
    <2>6. CASE bundle = None /\ bundle' # None /\ UNCHANGED <<run, spans, summary>>
      <3>1. Assigned' = Assigned
        BY <2>6 DEF Assigned
      <3>2. bundle'.spans = Assigned /\ ~AcceptsSpans(run.state)
        BY <2>6, <3>1 DEF RunsInv, StoreInv, EvidenceIsComplete
      <3>3. Contract!Publish
        BY <2>6, <3>1, <3>2 DEF Contract!Publish, Outcome
      <3>4. QED
        BY <3>3 DEF Contract!ContractNext
    <2>7. CASE /\ summary = None /\ summary' # None
               /\ run'.state = run.state /\ UNCHANGED <<spans, bundle>>
      <3>1. Assigned' = Assigned
        BY <2>7 DEF Assigned
      <3>2. bundle # None /\ summary' = bundle.spans
        BY <2>7 DEF RunsInv, StoreInv, VerdictFromEvidence
      <3>3. bundle.spans # None
        BY <3>2, RunsAssumption DEF RunsInv, TypeOK, StoreTypeOK, Bundle
      <3>4. Contract!Judge
        BY <2>7, <3>1, <3>2, <3>3 DEF Contract!Judge, Outcome
      <3>5. QED
        BY <3>4 DEF Contract!ContractNext
    <2>8. QED
      BY <2>1, <2>2, <2>3, <2>4, <2>5, <2>6, <2>7 DEF StoreStep
  <1>3. QED
    BY <1>1, <1>2, RunsInvariant, PTL DEF Spec, KeepsContract, Contract!ContractSpec

----------------------------------------------------------------------------
(****************************************************************************)
(* Nobody forgets a run.                                                    *)
(*                                                                          *)
(* NeverForgotten is far from inductive: that some job is live says nothing *)
(* about the next step, because the job may be completed in it.  Watched    *)
(* names, for each state of the run, who takes it on from there: a live job *)
(* of the right key, a producer whose enqueue still ends in a live row, or  *)
(* a process that will write the run and whose copy is current.  Stages     *)
(* says why the wrong job never passes for the right one: a job is only     *)
(* completed once the run is past what the job was for.  A step that writes *)
(* a new version of the run brings its successor along; every other step    *)
(* leaves the version alone, so that whoever watched the run still may.     *)
(* A stopped process or a failed call can break this between writing the    *)
(* run and asking for the next job, which NothingStops excludes.            *)
(****************************************************************************)

(* No process stops and no database call of a job fails.                    *)
NothingStops == "crash" \notin FaultKinds /\ "error" \notin FaultKinds

Judging(s) == s \in {"evaluating", "completed", "cancelled", "failed"}

(* A worker that is going to fail the run. *)
Failing(w) ==
    \/ pc[w] = "mark_failed"
    \/ pc[w] = "mark_failed_write" /\ Unchanged(w)

(* A producer whose enqueue is going to insert a row of key k or find one. *)
Enqueuing(a, k) ==
    pc[a] = "enqueue" /\ enq[a].key = k /\ enq[a].step \in {"find", "insert"}

Awaited(k) == Live(k) \/ \E a \in Actors : Enqueuing(a, k)

(* A request that is going to reconcile the run. *)
Merging(b) ==
    \/ pc[b] = "insert" /\ batch[b].merged
    \/ pc[b] = "reconcile"
    \/ pc[b] = "reconcile_write" /\ Unchanged(b)

(* A worker that is going to take the run from finalizing to evaluating. *)
Freezing(w) ==
    \/ pc[w] \in {"list_spans", "insert_bundle"}
    \/ pc[w] = "to_evaluating" /\ Unchanged(w)

(* A worker that is going to complete the run. *)
Concluding(w) ==
    \/ pc[w] = "reread"
    \/ pc[w] = "to_completed" /\ Unchanged(w)

(* For each state of the run, who takes it on from there. *)
Watched ==
    \/ IsTerminal(run.state)
    \/ \E w \in Workers : Failing(w)
    \/ AcceptsSpans(run.state) /\ \E b \in Batches : Merging(b)
    \/ Early(run.state) /\ (Live("timeout") \/ Awaited("idle"))
    \/ run.state = "settling" /\ Awaited("finalize")
    \/ run.state = "finalizing" /\ (Live("finalize") \/ \E w \in Workers : Freezing(w))
    \/ run.state = "evaluating" /\ (Awaited("evaluate") \/ \E w \in Workers : Concluding(w))

TimeoutLabels == {"timeout", "idle_timeout", "reschedule", "complete", "complete_write"}

FinalizeLabels == {"finalize", "finalize_replay", "finalize_read", "to_finalizing",
                   "list_spans", "insert_bundle", "to_evaluating"}

EvaluateLabels == {"evaluate", "evaluate_replay", "evaluate_pack", "save_summary",
                   "reread", "to_completed"}

(* What the job a worker has claimed says about the run. *)
JobStage(w) ==
    /\ pc[w] \in TimeoutLabels => claim[w].key \in {"timeout", "idle"}
    /\ pc[w] \in FinalizeLabels => claim[w].key = "finalize"
    /\ pc[w] \in EvaluateLabels => claim[w].key = "evaluate"
    /\ pc[w] \in {"finish", "enqueue"} =>
          /\ claim[w].key \in {"timeout", "idle"} => ~Early(run.state)
          /\ claim[w].key = "finalize" => Judging(run.state)
          /\ claim[w].key = "evaluate" => IsTerminal(run.state)
    /\ claim[w] # NoClaim /\ claim[w].key = "evaluate" => Judging(run.state)
    /\ pc[w] \in {"list_spans", "insert_bundle"} /\ run.state = "finalizing" =>
          row[w].updatedAt = run.updatedAt

(* What a process is going to make of the run. *)
Intent(a) ==
    /\ pc[a] = "reconcile_write" => row[a].state \in {"collecting", "settling"}
    /\ pc[a] = "complete_write" =>
          \/ row[a].state = "settling"
          \/ /\ ~Early(row[a].state)
             /\ row[a].state = seen[a].state /\ row[a].updatedAt = seen[a].updatedAt
    /\ pc[a] = "cancel_write" => row[a].state = "cancelled"
    /\ pc[a] = "mark_failed_write" => row[a].state = "failed"
    /\ pc[a] = "to_finalizing" => row[a].state = "finalizing" /\ seen[a].state = "settling"
    /\ pc[a] = "to_evaluating" => row[a].state = "evaluating"
    /\ pc[a] = "to_completed" => row[a].state = "completed"

(* Nobody asks for an evaluation before the evidence is there. *)
AsksAfterEvidence(a) ==
    enq[a].step # "idle" /\ enq[a].key = "evaluate" => Judging(run.state)

EvaluatesAfterEvidence == jobs["evaluate"].status # "none" => Judging(run.state)

Stages ==
    /\ \A w \in Workers : JobStage(w)
    /\ \A a \in Actors : Intent(a) /\ AsksAfterEvidence(a)
    /\ EvaluatesAfterEvidence

----------------------------------------------------------------------------
Kept(x) ==
    /\ pc'[x] = pc[x] /\ seen'[x] = seen[x] /\ row'[x] = row[x] /\ enq'[x] = enq[x]
    /\ x \in Workers => claim'[x] = claim[x] /\ work'[x] = work[x]
    /\ x \in Batches => batch'[x] = batch[x]

RequestMoves(b) == b \in Batches /\ (SendBatch(b) \/ BatchStep(b))

CallMoves(c) == c \in Calls /\ (CallComplete(c) \/ CallCancel(c) \/ CallStep(c))

WorkerMoves(w) == w \in Workers /\ (WorkerStep(w) \/ WorkerRescheduleLost(w))

Moves(a) == RequestMoves(a) \/ CallMoves(a) \/ WorkerMoves(a) \/ EnqueueCall(a)

LEMMA OneMoves ==
    ASSUME RunsInv, NEW a \in Actors, Moves(a), NEW x \in Actors, x # a
    PROVE  Kept(x)
  <1>1. /\ pc \in [Actors -> Labels] /\ seen \in [Actors -> Version]
        /\ row \in [Actors -> Run] /\ batch \in [Batches -> Progress]
        /\ work \in [Workers -> Work] /\ claim \in [Workers -> Claims \cup {NoClaim}]
        /\ enq \in [Actors -> Requests]
    BY ActorFacts DEF RunsInv, TypeOK, MemoryTypeOK, JobsTypeOK
  <1>2. CASE SendBatch(a) /\ a \in Batches
    BY <1>1, <1>2 DEF SendBatch, Goto, Kept
  <1>3. CASE a \in Batches /\ BatchStep(a)
    <2>1. CASE InsertDuplicate(a) \/ InsertLate(a) \/ InsertRefused(a) \/ InsertAccepted(a)
      <3>1. \A l : (pc' = [pc EXCEPT ![a] = l]) => pc'[x] = pc[x]
        BY <1>1
      <3>2. \A p : (batch' = [batch EXCEPT ![a] = p]) /\ x \in Batches => batch'[x] = batch[x]
        BY <1>1
      <3>3. \A m, i : SpanDone(a, m, i) => pc'[x] = pc[x] /\ (x \in Batches => batch'[x] = batch[x])
        BY <3>1, <3>2 DEF SpanDone, Goto
      <3>4. QED
        BY <2>1, <3>3 DEF InsertDuplicate, InsertLate, InsertRefused, InsertAccepted, Kept
    <2>2. CASE ReconcileRead(a)
      BY <1>1, <2>2 DEF ReconcileRead, Schedule, Prepare, Goto, Kept
    <2>3. CASE ReconcileWrite(a)
      BY <1>1, <2>3 DEF ReconcileWrite, Schedule, Forget, Goto, Kept
    <2>4. CASE Authorize(a) \/ EnqueueAnswered(a, "done", "failed")
      BY <1>1, <2>4 DEF Authorize, memory, EnqueueAnswered, Forget, Goto, Kept
    <2>5. QED
      BY <1>3, <2>1, <2>2, <2>3, <2>4 DEF BatchStep
  <1>4. CASE CallMoves(a)
    <2>1. CASE CallComplete(a) \/ CallCancel(a)
      BY <1>1, <2>1 DEF CallComplete, CompleteRead, CallCancel, Prepare, Goto, Kept
    <2>2. CASE CallCompleteWrite(a) \/ CallCancelWrite(a)
      BY <1>1, <2>2 DEF CallCompleteWrite, CallCancelWrite, UpdateThenEnqueue, UpdateRun,
                        Forget, Goto, Kept
    <2>3. CASE EnqueueAnswered(a, "done", "done")
      BY <1>1, <2>3 DEF EnqueueAnswered, Forget, Goto, Kept
    <2>4. QED
      BY <1>4, <2>1, <2>2, <2>3 DEF CallMoves, CallStep
  <1>5. CASE WorkerMoves(a)
    <2>1. CASE \E k \in Keys : WorkerClaim(a, k)
      BY <1>1, <2>1 DEF WorkerClaim, ClaimDue, Goto, Kept
    <2>2. CASE \/ ProcessTimeout(a) \/ ProcessIdleTimeout(a) \/ FinalizeStart(a)
               \/ EvaluateStart(a) \/ EvaluatePack(a) \/ ListSpans(a) \/ SaveSummary(a)
      BY <1>1, <2>2 DEF ProcessTimeout, ProcessIdleTimeout, FinalizeStart, EvaluateStart,
                        EvaluatePack, ListSpans, SaveSummary, memory, Goto, Kept
    <2>3. CASE \/ TimeoutComplete(a) \/ FinalizeReplay(a) \/ FinalizeRead(a)
               \/ EvaluateReplay(a) \/ RereadRun(a) \/ MarkFailedRead(a)
      BY <1>1, <2>3 DEF TimeoutComplete, CompleteRead, FinalizeReplay, FinalizeRead,
                        EvaluateReplay, RereadRun, MarkFailedRead, Prepare, Goto, Kept
    <2>4. CASE TimeoutCompleteWrite(a) \/ ToFinalizing(a) \/ ToEvaluating(a)
               \/ ToCompleted(a) \/ MarkFailedWrite(a)
      BY <1>1, <2>4 DEF TimeoutCompleteWrite, ToFinalizing, ToEvaluating, ToCompleted,
                        MarkFailedWrite, UpdateThenEnqueue, UpdateRun, memory, Forget, Goto, Kept
    <2>5. CASE InsertBundle(a)
      BY <1>1, <2>5 DEF InsertBundle, Goto, Kept
    <2>6. CASE EnqueueAnswered(a, "finish", "fail")
      BY SMTT(30), <1>1, <2>6 DEF EnqueueAnswered, Forget, Goto, Kept
    <2>7. CASE WorkerFinish(a) \/ WorkerFail(a)
      BY <1>1, <2>7 DEF WorkerFinish, CompleteJob, WorkerFail, FailJob, Release, ClearWorker,
                        Forget, Goto, Kept
    <2>8. CASE WorkerReschedule(a) \/ WorkerRescheduleLost(a)
      BY <1>1, <2>8 DEF WorkerReschedule, RescheduleJob, Release, WorkerRescheduleLost,
                        RescheduleReplyLost, memory, Goto, Kept
    <2>9. QED
      BY <1>5, <2>1, <2>2, <2>3, <2>4, <2>5, <2>6, <2>7, <2>8 DEF WorkerMoves, WorkerStep
  <1>6. CASE EnqueueCall(a)
    BY <1>1, <1>6 DEF EnqueueCall, EnqueueProgress, EnqueueFind, EnqueueBump, EnqueueInsert,
                      EnqueueRefind, memory, Kept
  <1>7. QED
    BY <1>2, <1>3, <1>4, <1>5, <1>6 DEF Moves, RequestMoves

----------------------------------------------------------------------------
VersionKept == run'.state = run.state /\ run'.updatedAt = run.updatedAt

(* A step that writes another version of the run leaves it watched, and     *)
(* never takes a finalizing run to finalizing again.                        *)
NewVersion ==
    /\ Watched'
    /\ run'.state = "finalizing" => run.state # "finalizing"

LEMMA EnqueuingFacts ==
    ASSUME RunsInv, NEW a \in Actors, NEW k \in Keys, NEW at,
           enq' = [enq EXCEPT ![a] = Request(k, at)], Goto(a, "enqueue")
    PROVE  Enqueuing(a, k)'
  <1>1. enq'[a] = Request(k, at) /\ pc'[a] = "enqueue"
    BY ActorFacts DEF RunsInv, TypeOK, JobsTypeOK, MemoryTypeOK, Goto
  <1>2. Request(k, at).key = k /\ Request(k, at).step = "find"
    BY DEF Request, NoRequest
  <1>3. QED
    BY <1>1, <1>2 DEF Enqueuing

LEMMA InsertVersion ==
    ASSUME RunsInv, NEW b \in Batches, InsertAccepted(b)
    PROVE  NewVersion
  <1>1. pc[b] = "insert" /\ b \in Actors
    BY ActorFacts DEF InsertAccepted
  <1>2. /\ SpanDone(b, TRUE, TRUE) /\ AcceptsSpans(run.state)
        /\ run' = [run EXCEPT !.lastSeen = now, !.spanCount = @ + 1,
                              !.updatedAt = SpanStamp(b, batch[b].next)]
    BY DEF InsertAccepted
  <1>3. run'.state = run.state
    BY <1>2 DEF RunsInv, TypeOK, StoreTypeOK, Run
  <1> DEFINE counted == [batch[b] EXCEPT
                           !.merged = TRUE, !.last = batch[b].next, !.at = now,
                           !.inserted = @ \/ TRUE,
                           !.terminal = @ \/ CurrentSpan(b) \in TerminalSpans]
  <1>4. batch[b] \in Progress /\ pc \in [Actors -> Labels] /\ batch \in [Batches -> Progress]
    BY DEF RunsInv, TypeOK, MemoryTypeOK
  <1>5. counted.merged
    BY <1>4 DEF Progress
  <1>6. /\ batch' = [batch EXCEPT ![b] = [counted EXCEPT !.next = @ + 1]]
        /\ Goto(b, IF batch[b].next # Len(BatchSpans[b]) THEN "insert"
                   ELSE IF counted.merged THEN "reconcile" ELSE "done")
    BY <1>2 DEF SpanDone
  <1>7. Merging(b)'
    BY <1>1, <1>4, <1>5, <1>6 DEF Merging, Goto, Progress
  <1>8. QED
    BY <1>2, <1>3, <1>7 DEF NewVersion, Watched, AcceptsSpans

(* The row a process writes over the version it was computed from. *)
LEMMA Overwrites ==
    ASSUME RunsInv, NEW a \in Actors, pc[a] \in Writing, Unchanged(a)
    PROVE  CanEnter(run.state, row[a].state) /\ row[a] \in Run
  BY DEF RunsInv, TypeOK, MemoryTypeOK, ProcessInv, HeldRow, Unchanged

LEMMA ReconcileVersion ==
    ASSUME RunsInv, Stages, NEW b \in Batches, ReconcileWrite(b)
    PROVE  VersionKept \/ NewVersion
  <1>1. b \in Actors /\ pc[b] = "reconcile_write"
    BY ActorFacts DEF ReconcileWrite
  <1>2. CASE ~Unchanged(b)
    BY <1>2 DEF ReconcileWrite, VersionKept
  <1>3. CASE Unchanged(b)
    <2>1. run' = row[b] /\ Schedule(b, row[b])
      BY <1>3 DEF ReconcileWrite
    <2>2. row[b].state \in {"collecting", "settling"}
      BY <1>1 DEF Stages, Intent
    <2>3. CASE row[b].state = "settling"
      <3>1. Enqueuing(b, "finalize")'
        BY <1>1, <2>1, <2>3, EnqueuingFacts, ActorFacts DEF Schedule, JobKinds
      <3>2. QED
        BY <1>1, <2>1, <2>3, <3>1 DEF NewVersion, Watched, Awaited
    <2>4. CASE row[b].state = "collecting"
      <3>1. Enqueuing(b, "idle")'
        BY <1>1, <2>1, <2>4, EnqueuingFacts, ActorFacts DEF Schedule, JobKinds
      <3>2. QED
        BY <1>1, <2>1, <2>4, <3>1 DEF NewVersion, Watched, Awaited, Early
    <2>5. QED
      BY <2>2, <2>3, <2>4
  <1>4. QED
    BY <1>2, <1>3

LEMMA SettleVersion ==
    ASSUME RunsInv, Stages, NEW a \in Actors, NEW lost, pc[a] = "complete_write",
           UpdateThenEnqueue(a, "finalize", row[a].settleUntil, lost)
    PROVE  VersionKept \/ NewVersion
  <1>1. CASE ~Unchanged(a)
    BY <1>1 DEF UpdateThenEnqueue, UpdateRun, VersionKept
  <1>2. CASE Unchanged(a)
    <2>1. /\ run' = row[a] /\ Goto(a, "enqueue")
          /\ enq' = [enq EXCEPT ![a] = Request("finalize", row[a].settleUntil)]
      BY <1>2 DEF UpdateThenEnqueue, UpdateRun
    <2>2. CASE row[a].state = "settling"
      <3>1. Enqueuing(a, "finalize")'
        BY <2>1, EnqueuingFacts, ActorFacts DEF JobKinds
      <3>2. QED
        BY <2>1, <2>2, <3>1 DEF NewVersion, Watched, Awaited
    <2>3. CASE row[a].state # "settling"
      BY <1>2, <2>1, <2>3 DEF Stages, Intent, VersionKept, Unchanged
    <2>4. QED
      BY <2>2, <2>3
  <1>3. QED
    BY <1>1, <1>2

LEMMA WorkerVersion ==
    ASSUME RunsInv, Stages, NEW w \in Workers,
           \/ ToFinalizing(w) \/ ToEvaluating(w) \/ ToCompleted(w) \/ MarkFailedWrite(w)
           \/ SaveSummary(w)
    PROVE  VersionKept \/ NewVersion
  <1>1. w \in Actors /\ pc \in [Actors -> Labels]
    BY ActorFacts DEF RunsInv, TypeOK, MemoryTypeOK
  <1>2. CASE ToFinalizing(w)
    <2>1. CASE ~Unchanged(w)
      BY <1>2, <2>1 DEF ToFinalizing, UpdateRun, VersionKept
    <2>2. CASE Unchanged(w)
      <3>1. run' = row[w] /\ pc'[w] = "list_spans"
        BY <1>1, <1>2, <2>2 DEF ToFinalizing, UpdateRun, Goto
      <3>2. row[w].state = "finalizing" /\ run.state = "settling"
        BY <1>1, <1>2, <2>2 DEF ToFinalizing, Stages, Intent, Unchanged
      <3>3. QED
        BY <3>1, <3>2 DEF NewVersion, Watched, Freezing
    <2>3. QED
      BY <2>1, <2>2
  <1>3. CASE ToEvaluating(w)
    <2>1. CASE ~Unchanged(w)
      BY <1>3, <2>1 DEF ToEvaluating, UpdateThenEnqueue, UpdateRun, VersionKept
    <2>2. CASE Unchanged(w)
      <3>1. /\ run' = row[w] /\ Goto(w, "enqueue")
            /\ enq' = [enq EXCEPT ![w] = Request("evaluate", now)]
        BY <1>3, <2>2 DEF ToEvaluating, UpdateThenEnqueue, UpdateRun
      <3>2. row[w].state = "evaluating"
        BY <1>1, <1>3 DEF ToEvaluating, Stages, Intent
      <3>3. Enqueuing(w, "evaluate")'
        BY <1>1, <3>1, EnqueuingFacts, ActorFacts DEF JobKinds
      <3>4. QED
        BY <1>1, <3>1, <3>2, <3>3 DEF NewVersion, Watched, Awaited
    <2>3. QED
      BY <2>1, <2>2
  <1>4. CASE ToCompleted(w) \/ MarkFailedWrite(w)
    <2>1. CASE ~Unchanged(w)
      BY <1>4, <2>1 DEF ToCompleted, MarkFailedWrite, UpdateRun, VersionKept
    <2>2. CASE Unchanged(w)
      <3>1. run' = row[w] /\ row[w].state \in {"completed", "failed"}
        BY <1>1, <1>4, <2>2 DEF ToCompleted, MarkFailedWrite, UpdateRun, Stages, Intent
      <3>2. QED
        BY <3>1 DEF NewVersion, Watched, IsTerminal
    <2>3. QED
      BY <2>1, <2>2
  <1>5. CASE SaveSummary(w)
    <2>1. CASE summary # None
      BY <1>5, <2>1 DEF SaveSummary, VersionKept
    <2>2. CASE summary = None
      <3>1. run' = [run EXCEPT !.verdict = work[w].evidence, !.updatedAt = claim[w]]
            /\ pc'[w] = "reread"
        BY <1>1, <1>5, <2>2 DEF SaveSummary, Goto
      <3>2. run'.state = run.state
        BY <3>1 DEF RunsInv, TypeOK, StoreTypeOK, Run
      <3>3. pc[w] = "save_summary" /\ claim[w] # NoClaim
        BY <1>1, <1>5 DEF SaveSummary, RunsInv, ProcessInv, WorkerPlace
      <3>4. Judging(run.state)
        BY <3>3 DEF Stages, JobStage, EvaluateLabels
      <3>5. QED
        BY <3>1, <3>2, <3>4 DEF NewVersion, Watched, Judging, IsTerminal, Concluding
    <2>3. QED
      BY <2>1, <2>2
  <1>6. QED
    BY <1>2, <1>3, <1>4, <1>5

LEMMA VersionSteps ==
    ASSUME RunsInv, Stages, NEW a \in Actors, Moves(a)
    PROVE  VersionKept \/ NewVersion
  <1>1. CASE run' = run
    BY <1>1 DEF VersionKept
  <1>2. CASE RequestMoves(a)
    BY <1>1, <1>2, InsertVersion, ReconcileVersion
       DEF RequestMoves, SendBatch, BatchStep, Authorize, InsertDuplicate, InsertLate,
           InsertRefused, ReconcileRead, EnqueueAnswered, store
  <1>3. CASE CallMoves(a)
    <2>1. CASE CallCompleteWrite(a)
      BY <2>1, SettleVersion DEF CallCompleteWrite
    <2>2. CASE CallCancelWrite(a)
      <3>1. CASE Unchanged(a)
        <4>1. run' = row[a] /\ row[a].state = "cancelled"
          BY <2>2, <3>1 DEF CallCancelWrite, UpdateRun, Stages, Intent
        <4>2. QED
          BY <4>1 DEF NewVersion, Watched, IsTerminal
      <3>2. QED
        BY <1>1, <2>2, <3>1 DEF CallCancelWrite, UpdateRun
    <2>3. QED
      BY <1>1, <1>3, <2>1, <2>2
         DEF CallMoves, CallComplete, CallCancel, CallStep, EnqueueAnswered, store
  <1>4. CASE WorkerMoves(a)
    <2>1. CASE TimeoutCompleteWrite(a)
      BY <2>1, SettleVersion DEF TimeoutCompleteWrite
    <2>2. QED
      BY <1>1, <1>4, <2>1, WorkerVersion
         DEF WorkerMoves, WorkerStep, WorkerRescheduleLost, WorkerClaim, ProcessTimeout,
             ProcessIdleTimeout, WorkerReschedule, TimeoutComplete, FinalizeStart,
             FinalizeReplay, FinalizeRead, ListSpans, InsertBundle, EvaluateStart,
             EvaluateReplay, EvaluatePack, RereadRun, EnqueueAnswered, WorkerFinish,
             WorkerFail, MarkFailedRead, store
  <1>5. CASE EnqueueCall(a)
    BY <1>1, <1>5 DEF EnqueueCall, store
  <1>6. QED
    BY <1>2, <1>3, <1>4, <1>5 DEF Moves

----------------------------------------------------------------------------
(* As long as the version stands, whoever watches the run goes on. *)

(* The step a process takes from where it is. *)
LEMMA RequestAt ==
    ASSUME NEW b \in Batches, Moves(b), ~EnqueueCall(b)
    PROVE  /\ pc[b] = "insert" =>
                 \/ InsertDuplicate(b) \/ InsertLate(b)
                 \/ InsertRefused(b) \/ InsertAccepted(b)
           /\ pc[b] = "reconcile" => ReconcileRead(b)
           /\ pc[b] = "reconcile_write" => ReconcileWrite(b)
  BY ActorFacts
     DEF Moves, RequestMoves, CallMoves, WorkerMoves, SendBatch, BatchStep, Authorize,
         InsertDuplicate, InsertLate, InsertRefused, InsertAccepted, ReconcileRead,
         ReconcileWrite, EnqueueAnswered

LEMMA WorkerAt ==
    ASSUME NEW w \in Workers, Moves(w), ~EnqueueCall(w)
    PROVE  /\ pc[w] = "list_spans" => ListSpans(w)
           /\ pc[w] = "insert_bundle" => InsertBundle(w)
           /\ pc[w] = "to_evaluating" => ToEvaluating(w)
           /\ pc[w] = "reread" => RereadRun(w)
           /\ pc[w] = "to_completed" => ToCompleted(w)
           /\ pc[w] = "mark_failed" => MarkFailedRead(w)
           /\ pc[w] = "mark_failed_write" => MarkFailedWrite(w)
  BY ActorFacts
     DEF Moves, RequestMoves, CallMoves, WorkerMoves, WorkerStep, WorkerRescheduleLost,
         WorkerClaim, ProcessTimeout, ProcessIdleTimeout, WorkerReschedule,
         TimeoutComplete, TimeoutCompleteWrite, FinalizeStart, FinalizeReplay,
         FinalizeRead, ToFinalizing, ListSpans, InsertBundle, ToEvaluating, EvaluateStart,
         EvaluateReplay, EvaluatePack, SaveSummary, RereadRun, ToCompleted, WorkerFinish,
         WorkerFail, MarkFailedRead, MarkFailedWrite, EnqueueAnswered

LEMMA EnqueueGoesOn ==
    ASSUME RunsInv, NEW a \in Actors, Moves(a), NEW k \in Keys, Enqueuing(a, k)
    PROVE  Awaited(k)'
  <1>1. pc[a] = "enqueue" /\ enq[a].key = k /\ enq[a].step \in {"find", "insert"}
    BY DEF Enqueuing
  <1>2. EnqueueCall(a)
    BY <1>1
       DEF Moves, RequestMoves, CallMoves, WorkerMoves, SendBatch, BatchStep, Authorize,
           InsertDuplicate, InsertLate, InsertRefused, InsertAccepted, ReconcileRead,
           ReconcileWrite, EnqueueAnswered, CallComplete, CallCancel, CallStep,
           CallCompleteWrite, CallCancelWrite, WorkerStep, WorkerRescheduleLost,
           WorkerClaim, ProcessTimeout, ProcessIdleTimeout, WorkerReschedule,
           TimeoutComplete, TimeoutCompleteWrite, FinalizeStart, FinalizeReplay,
           FinalizeRead, ToFinalizing, ListSpans, InsertBundle, ToEvaluating, EvaluateStart,
           EvaluateReplay, EvaluatePack, SaveSummary, RereadRun, ToCompleted, WorkerFinish,
           WorkerFail, MarkFailedRead, MarkFailedWrite
  <1>3. enq \in [Actors -> Requests] /\ jobs \in [Keys -> Job] /\ pc'[a] = pc[a]
    BY <1>2, ActorFacts DEF RunsInv, TypeOK, JobsTypeOK, EnqueueCall
  <1>4. CASE EnqueueFind(a)
    <2>1. jobs' = jobs /\ enq'[a] = IF Live(k) THEN EnqueueFound(a)
                                              ELSE [enq[a] EXCEPT !.step = "insert"]
      BY <1>1, <1>3, <1>4 DEF EnqueueFind
    <2>2. CASE Live(k)
      BY <2>1, <2>2 DEF Awaited, Live
    <2>3. CASE ~Live(k)
      <3>1. enq'[a].step = "insert" /\ enq'[a].key = k
        BY <1>1, <1>3, <2>1, <2>3 DEF Requests
      <3>2. Enqueuing(a, k)'
        BY <1>1, <1>3, <3>1 DEF Enqueuing
      <3>3. QED
        BY <3>2 DEF Awaited
    <2>4. QED
      BY <2>2, <2>3
  <1>5. CASE EnqueueInsert(a)
    <2>1. CASE Live(k)
      BY <1>1, <1>5, <2>1 DEF EnqueueInsert, Awaited, Live
    <2>2. CASE ~Live(k)
      <3>1. jobs'[k].status = "pending"
        BY <1>1, <1>3, <1>5, <2>2 DEF EnqueueInsert, NewRow
      <3>2. QED
        BY <3>1 DEF Awaited, Live
    <2>3. QED
      BY <2>1, <2>2
  <1>6. QED
    BY <1>1, <1>2, <1>4, <1>5 DEF EnqueueCall, EnqueueProgress, EnqueueBump, EnqueueRefind

LEMMA MergeGoesOn ==
    ASSUME RunsInv, Stages, NEW b \in Batches, Moves(b), VersionKept, Merging(b),
           AcceptsSpans(run.state)
    PROVE  Watched'
  <1>1. /\ b \in Actors /\ b \notin Calls /\ b \notin Workers
        /\ pc \in [Actors -> Labels] /\ batch \in [Batches -> Progress]
        /\ seen \in [Actors -> Version] /\ run \in Run
        /\ AcceptsSpans(run'.state)
    BY ActorFacts DEF RunsInv, TypeOK, MemoryTypeOK, StoreTypeOK, VersionKept
  <1>2. ASSUME Merging(b)' PROVE Watched'
    BY <1>1, <1>2 DEF Watched
  <1>3. CASE EnqueueCall(b)
    <2>1. pc' = pc /\ batch' = batch /\ seen' = seen
      BY <1>3 DEF EnqueueCall, memory
    <2>2. Merging(b)'
      BY <2>1 DEF Merging, Unchanged, VersionKept
    <2>3. QED
      BY <1>2, <2>2
  <1>4. CASE pc[b] = "insert" /\ batch[b].merged /\ ~EnqueueCall(b)
    <2>1. PICK m \in BOOLEAN, i \in BOOLEAN : SpanDone(b, m, i)
      BY <1>4, RequestAt
         DEF InsertDuplicate, InsertLate, InsertRefused, InsertAccepted
    <2> DEFINE counted == IF m
                          THEN [batch[b] EXCEPT
                                 !.merged = TRUE, !.last = batch[b].next, !.at = now,
                                 !.inserted = @ \/ i,
                                 !.terminal = @ \/ CurrentSpan(b) \in TerminalSpans]
                          ELSE batch[b]
    <2>2. counted.merged
      BY <1>1, <1>4 DEF Progress
    <2>3. /\ batch' = [batch EXCEPT ![b] = [counted EXCEPT !.next = @ + 1]]
          /\ Goto(b, IF batch[b].next # Len(BatchSpans[b]) THEN "insert"
                     ELSE IF counted.merged THEN "reconcile" ELSE "done")
      BY <2>1 DEF SpanDone
    <2>4. batch'[b].merged
      <3>1. batch'[b] = [counted EXCEPT !.next = @ + 1]
        BY <1>1, <2>3
      <3>2. CASE m
        BY <1>1, <3>1, <3>2 DEF Progress
      <3>3. CASE ~m
        BY <1>1, <1>4, <3>1, <3>3 DEF Progress
      <3>4. QED
        BY <3>2, <3>3
    <2>5. pc'[b] \in {"insert", "reconcile"}
      BY <1>1, <2>2, <2>3 DEF Goto
    <2>6. Merging(b)'
      BY <2>4, <2>5 DEF Merging
    <2>7. QED
      BY <1>2, <2>6
  <1>5. CASE pc[b] = "reconcile" /\ ~EnqueueCall(b)
    <2>1. ReconcileRead(b)
      BY <1>5, RequestAt
    <2>2. CASE Reconciled(b) # run
      <3>1. Prepare(b, Reconciled(b)) /\ Goto(b, "reconcile_write") /\ run' = run
        BY <2>1, <2>2 DEF ReconcileRead, store
      <3>2. Merging(b)'
        BY <1>1, <3>1 DEF Prepare, Goto, Merging, Unchanged
      <3>3. QED
        BY <1>2, <3>2
    <2>3. CASE Reconciled(b) = run
      <3>1. Schedule(b, run) /\ run' = run
        BY <2>1, <2>3 DEF ReconcileRead, store
      <3>2. run.state # "created"
        <4>1. ASSUME run.state = "created" PROVE FALSE
          <5>1. CASE batch[b].terminal
            <6>1. Reconciled(b) = BeginSettling(run, "terminal_event",
                     Cap(batch[b].at + SettleSeconds), SpanStamp(b, batch[b].last))
              BY <4>1, <5>1 DEF Reconciled
            <6>2. run.completion = NoCompletion
              BY <4>1 DEF RunsInv, StoreInv, CompletionFits, Early
            <6>3. Reconciled(b).completion = "terminal_event"
              BY <1>1, <6>1, <6>2 DEF BeginSettling, TransitionTo, Run
            <6>4. QED
              BY <2>3, <6>2, <6>3, RunsAssumption
          <5>2. CASE ~batch[b].terminal
            <6>1. Reconciled(b) = TransitionTo(run, "collecting", SpanStamp(b, batch[b].last))
              BY <4>1, <5>2 DEF Reconciled
            <6>2. QED
              BY <1>1, <2>3, <4>1, <6>1 DEF TransitionTo, Run
          <5>3. QED
            BY <5>1, <5>2
        <4>2. QED
          BY <4>1
      <3>3. CASE run.state = "settling"
        <4>1. Enqueuing(b, "finalize")'
          BY <1>1, <3>1, <3>3, EnqueuingFacts, ActorFacts DEF Schedule, JobKinds
        <4>2. QED
          BY <1>1, <3>1, <3>3, <4>1 DEF Watched, Awaited
      <3>4. CASE run.state = "collecting"
        <4>1. Enqueuing(b, "idle")'
          BY <1>1, <3>1, <3>4, EnqueuingFacts, ActorFacts DEF Schedule, JobKinds
        <4>2. QED
          BY <1>1, <3>1, <3>4, <4>1 DEF Watched, Awaited, Early
      <3>5. QED
        BY <3>2, <3>3, <3>4 DEF AcceptsSpans
    <2>4. QED
      BY <2>2, <2>3
  <1>6. CASE pc[b] = "reconcile_write" /\ Unchanged(b) /\ ~EnqueueCall(b)
    <2>1. ReconcileWrite(b)
      BY <1>6, RequestAt
    <2>2. run' = row[b] /\ Schedule(b, row[b])
      BY <1>6, <2>1 DEF ReconcileWrite
    <2>3. CASE run'.state = "settling"
      <3>1. Enqueuing(b, "finalize")'
        BY <1>1, <2>2, <2>3, EnqueuingFacts, ActorFacts DEF Schedule, JobKinds
      <3>2. QED
        BY <1>1, <2>3, <3>1 DEF Watched, Awaited
    <2>4. CASE run'.state = "collecting"
      <3>1. Enqueuing(b, "idle")'
        BY <1>1, <2>2, <2>4, EnqueuingFacts, ActorFacts DEF Schedule, JobKinds
      <3>2. QED
        BY <1>1, <2>4, <3>1 DEF Watched, Awaited, Early
    <2>5. row[b].state \in {"collecting", "settling"}
      BY <1>1, <1>6 DEF Stages, Intent
    <2>6. QED
      BY <2>2, <2>3, <2>4, <2>5
  <1>7. QED
    BY <1>3, <1>4, <1>5, <1>6 DEF Merging

LEMMA FailureGoesOn ==
    ASSUME RunsInv, Stages, NEW w \in Workers, Moves(w), VersionKept, Failing(w)
    PROVE  Watched'
  <1>1. /\ w \in Actors /\ pc \in [Actors -> Labels] /\ run \in Run
        /\ seen \in [Actors -> Version]
    BY ActorFacts DEF RunsInv, TypeOK, MemoryTypeOK, StoreTypeOK
  <1>2. ASSUME Failing(w)' PROVE Watched'
    BY <1>2 DEF Watched
  <1>3. CASE EnqueueCall(w)
    <2>1. pc' = pc /\ seen' = seen
      BY <1>3 DEF EnqueueCall, memory
    <2>2. QED
      BY <1>2, <2>1 DEF Failing, Unchanged, VersionKept
  <1>4. CASE pc[w] = "mark_failed" /\ ~EnqueueCall(w)
    <2>1. MarkFailedRead(w)
      BY <1>4, WorkerAt
    <2>2. CASE IsTerminal(run.state)
      BY <2>2 DEF VersionKept, Watched
    <2>3. CASE ~IsTerminal(run.state)
      <3>1. /\ Prepare(w, TransitionTo(run, "failed", CallStamp(w)))
            /\ Goto(w, "mark_failed_write") /\ run' = run
        BY <2>1, <2>3 DEF MarkFailedRead, store
      <3>2. Failing(w)'
        BY <1>1, <3>1 DEF Prepare, Goto, Failing, Unchanged
      <3>3. QED
        BY <1>2, <3>2
    <2>4. QED
      BY <2>2, <2>3
  <1>5. CASE pc[w] = "mark_failed_write" /\ Unchanged(w) /\ ~EnqueueCall(w)
    <2>1. run' = row[w] /\ row[w].state = "failed"
      BY <1>1, <1>5, WorkerAt DEF MarkFailedWrite, UpdateRun, Stages, Intent
    <2>2. QED
      BY <2>1 DEF Watched, IsTerminal
  <1>6. QED
    BY <1>3, <1>4, <1>5 DEF Failing

LEMMA FreezingGoesOn ==
    ASSUME RunsInv, Stages, NEW w \in Workers, Moves(w), VersionKept,
           run.state = "finalizing", Freezing(w)
    PROVE  Watched'
  <1>1. /\ w \in Actors /\ pc \in [Actors -> Labels] /\ run \in Run
        /\ seen \in [Actors -> Version] /\ row \in [Actors -> Run]
        /\ run'.state = "finalizing"
    BY ActorFacts DEF RunsInv, TypeOK, MemoryTypeOK, StoreTypeOK, VersionKept
  <1>2. ASSUME Freezing(w)' PROVE Watched'
    BY <1>1, <1>2 DEF Watched
  <1>3. CASE EnqueueCall(w)
    <2>1. pc' = pc /\ seen' = seen
      BY <1>3 DEF EnqueueCall, memory
    <2>2. QED
      BY <1>2, <2>1 DEF Freezing, Unchanged, VersionKept
  <1>4. CASE pc[w] = "list_spans" /\ ~EnqueueCall(w)
    <2>1. pc'[w] = "insert_bundle"
      BY <1>1, <1>4, WorkerAt DEF ListSpans, Goto
    <2>2. QED
      BY <1>2, <2>1 DEF Freezing
  <1>5. CASE pc[w] = "insert_bundle" /\ ~EnqueueCall(w)
    <2>1. InsertBundle(w)
      BY <1>5, WorkerAt
    <2>2. /\ row[w].state = "finalizing" /\ row[w].completion = run.completion
          /\ work[w].evidence = Assigned
      BY <1>1, <1>5 DEF RunsInv, ProcessInv, HeldEvidence
    <2>3. bundle \in {None, Evidence(w)}
      <3>1. CASE bundle # None
        <4>1. bundle \in Bundle
          BY <3>1 DEF RunsInv, TypeOK, StoreTypeOK
        <4>2. bundle.spans = Assigned /\ bundle.completion = run.completion
          BY <3>1 DEF RunsInv, StoreInv, EvidenceIsComplete
        <4>3. QED
          BY <2>2, <4>1, <4>2 DEF Evidence, Bundle
      <3>2. QED
        BY <3>1
    <2>4. row[w].updatedAt = run.updatedAt
      BY <1>5 DEF Stages, JobStage
    <2>5. /\ seen'[w] = [state |-> row[w].state, updatedAt |-> row[w].updatedAt]
          /\ pc'[w] = "to_evaluating"
      BY <1>1, <2>1, <2>3 DEF InsertBundle, Goto
    <2>6. Freezing(w)'
      BY <2>2, <2>4, <2>5 DEF Freezing, Unchanged, VersionKept
    <2>7. QED
      BY <1>2, <2>6
  <1>6. CASE pc[w] = "to_evaluating" /\ Unchanged(w) /\ ~EnqueueCall(w)
    <2>1. ToEvaluating(w)
      BY <1>6, WorkerAt
    <2>2. run' = row[w] /\ row[w].state = "evaluating"
      BY <1>1, <1>6, <2>1 DEF ToEvaluating, UpdateThenEnqueue, UpdateRun, Stages, Intent
    <2>3. QED
      BY <1>1, <2>2
  <1>7. QED
    BY <1>3, <1>4, <1>5, <1>6 DEF Freezing

LEMMA ConcludingGoesOn ==
    ASSUME RunsInv, Stages, NEW w \in Workers, Moves(w), VersionKept,
           run.state = "evaluating", Concluding(w)
    PROVE  Watched'
  <1>1. /\ w \in Actors /\ pc \in [Actors -> Labels] /\ run \in Run
        /\ seen \in [Actors -> Version] /\ run'.state = "evaluating"
    BY ActorFacts DEF RunsInv, TypeOK, MemoryTypeOK, StoreTypeOK, VersionKept
  <1>2. ASSUME Concluding(w)' PROVE Watched'
    BY <1>1, <1>2 DEF Watched
  <1>3. CASE EnqueueCall(w)
    <2>1. pc' = pc /\ seen' = seen
      BY <1>3 DEF EnqueueCall, memory
    <2>2. QED
      BY <1>2, <2>1 DEF Concluding, Unchanged, VersionKept
  <1>4. CASE pc[w] = "reread" /\ ~EnqueueCall(w)
    <2>1. RereadRun(w) /\ CanEnter(run.state, "completed")
      BY <1>4, WorkerAt DEF CanEnter, Allowed
    <2>2. /\ Prepare(w, TransitionTo([run EXCEPT !.verdict = work[w].evidence],
                                     "completed", claim[w]))
          /\ Goto(w, "to_completed") /\ run' = run
      BY <2>1 DEF RereadRun, store
    <2>3. Concluding(w)'
      BY <1>1, <2>2 DEF Prepare, Goto, Concluding, Unchanged
    <2>4. QED
      BY <1>2, <2>3
  <1>5. CASE pc[w] = "to_completed" /\ Unchanged(w) /\ ~EnqueueCall(w)
    <2>1. run' = row[w] /\ row[w].state = "completed"
      BY <1>1, <1>5, WorkerAt DEF ToCompleted, UpdateRun, Stages, Intent
    <2>2. QED
      BY <2>1 DEF Watched, IsTerminal
  <1>6. QED
    BY <1>3, <1>4, <1>5 DEF Concluding

(* The steps that write the job table. *)
LEMMA JobMoves ==
    ASSUME NEW a \in Actors, Moves(a)
    PROVE  \/ jobs' = jobs
           \/ EnqueueCall(a)
           \/ \E l \in Keys : WorkerClaim(a, l)
           \/ /\ a \in Workers
              /\ \/ WorkerReschedule(a) \/ WorkerRescheduleLost(a)
                 \/ WorkerFail(a) \/ WorkerFinish(a)
  BY DEF Moves, RequestMoves, CallMoves, WorkerMoves, SendBatch, BatchStep, Authorize,
         InsertDuplicate, InsertLate, InsertRefused, InsertAccepted, ReconcileRead,
         ReconcileWrite, EnqueueAnswered, CallComplete, CallCancel, CallStep,
         CallCompleteWrite, CallCancelWrite, WorkerStep, ProcessTimeout, ProcessIdleTimeout,
         TimeoutComplete, TimeoutCompleteWrite, FinalizeStart, FinalizeReplay,
         FinalizeRead, ToFinalizing, ListSpans, InsertBundle, ToEvaluating, EvaluateStart,
         EvaluateReplay, EvaluatePack, SaveSummary, RereadRun, ToCompleted,
         MarkFailedRead, MarkFailedWrite

(* The run is past what the job of key k was for. *)
Past(k) ==
    /\ k \in {"timeout", "idle"} => ~Early(run.state)
    /\ k = "finalize" => Judging(run.state)
    /\ k = "evaluate" => IsTerminal(run.state)

(* A live job stays live until its work is done or its failure is final.    *)
LEMMA LiveGoesOn ==
    ASSUME RunsInv, Stages, NEW a \in Actors, Moves(a), NEW k \in Keys, Live(k)
    PROVE  Live(k)' \/ Watched' \/ Past(k)
  <1>1. /\ jobs \in [Keys -> Job] /\ claim \in [Workers -> Claims \cup {NoClaim}]
        /\ pc \in [Actors -> Labels] /\ enq \in [Actors -> Requests]
        /\ k \in JobKinds
    BY ActorFacts DEF RunsInv, TypeOK, MemoryTypeOK, JobsTypeOK
  <1>2. CASE jobs'[k] = jobs[k]
    BY <1>2 DEF Live
  <1>3. CASE EnqueueCall(a)
    <2>1. enq[a].key \in Keys
      BY <1>1 DEF Requests
    <2>2. jobs'[k] = jobs[k] \/ jobs'[k] = [jobs[k] EXCEPT !.availableAt = enq[a].to]
      BY <1>1, <1>3, <2>1
         DEF EnqueueCall, EnqueueProgress, EnqueueFind, EnqueueBump, EnqueueInsert,
             EnqueueRefind
    <2>3. jobs'[k].status = jobs[k].status
      BY <1>1, <2>2 DEF Job
    <2>4. QED
      BY <2>3 DEF Live
  <1>4. ASSUME NEW l \in Keys, WorkerClaim(a, l)
        PROVE  Live(k)'
    <2>1. jobs' = [jobs EXCEPT ![l].status = "running", ![l].leased = TRUE,
                               ![l].attempts = @ + 1]
      BY SMTT(30), <1>4 DEF WorkerClaim, ClaimDue
    <2>2. QED
      BY <1>1, <2>1 DEF Live, Job
  <1>5. CASE a \in Workers /\ (WorkerReschedule(a) \/ WorkerRescheduleLost(a))
    <2>1. jobs' = Rescheduled(a, work[a].until) /\ claim[a] # NoClaim
      BY <1>5 DEF WorkerReschedule, RescheduleJob, WorkerRescheduleLost, RescheduleReplyLost
    <2>2. claim[a] \in Claims
      BY <1>1, <1>5, <2>1
    <2>3. QED
      BY <1>1, <2>1, <2>2 DEF Rescheduled, Live, Job, Claims
  <1>6. CASE a \in Workers /\ WorkerFail(a)
    <2>1. FailJob(a) /\ claim[a] \in Claims
      BY <1>1, <1>6 DEF WorkerFail, FailJob
    <2>2. CASE Holds(a) /\ FailureIsTerminal(a)
      <3>1. pc'[a] = "mark_failed"
        BY SMTT(30), <1>1, <1>6, <2>2 DEF WorkerFail, Goto
      <3>2. QED
        BY <1>6, <3>1 DEF Watched, Failing
    <2>3. CASE Holds(a) /\ ~FailureIsTerminal(a)
      <3>1. jobs' = [jobs EXCEPT ![claim[a].key].status = "pending",
                                 ![claim[a].key].availableAt = Cap(now + Backoff),
                                 ![claim[a].key].leased = FALSE]
        BY <2>1, <2>3 DEF FailJob
      <3>2. QED
        BY <1>1, <2>1, <3>1 DEF Live, Job, Claims
    <2>4. CASE ~Holds(a)
      BY <1>2, <2>1, <2>4 DEF FailJob
    <2>5. QED
      BY <2>2, <2>3, <2>4
  <1>7. CASE a \in Workers /\ WorkerFinish(a)
    <2>1. CompleteJob(a) /\ claim[a] \in Claims /\ pc[a] = "finish"
      BY <1>1, <1>7 DEF WorkerFinish, CompleteJob
    <2>2. CASE claim[a].key = k
      BY <1>7, <2>1, <2>2 DEF Stages, JobStage, Past
    <2>3. CASE claim[a].key # k
      <3>1. jobs'[k] = jobs[k]
        BY <1>1, <2>1, <2>3 DEF CompleteJob, Claims
      <3>2. QED
        BY <1>2, <3>1
    <2>4. QED
      BY <2>2, <2>3
  <1>8. QED
    BY <1>2, <1>3, <1>4, <1>5, <1>6, <1>7, JobMoves

LEMMA AwaitedGoesOn ==
    ASSUME RunsInv, Stages, NEW a \in Actors, Moves(a), NEW k \in Keys, Awaited(k)
    PROVE  Awaited(k)' \/ Watched' \/ Past(k)
  <1>1. CASE Live(k)
    BY <1>1, LiveGoesOn DEF Awaited
  <1>2. ASSUME NEW x \in Actors, Enqueuing(x, k) PROVE Awaited(k)'
    <2>1. CASE x = a
      BY <1>2, <2>1, EnqueueGoesOn
    <2>2. CASE x # a
      <3>1. Kept(x)
        BY <2>2, OneMoves
      <3>2. Enqueuing(x, k)'
        BY <1>2, <3>1 DEF Kept, Enqueuing
      <3>3. QED
        BY <3>2 DEF Awaited
    <2>3. QED
      BY <2>1, <2>2
  <1>3. QED
    BY <1>1, <1>2 DEF Awaited

(* Whoever moves, somebody watches the run afterwards. *)
LEMMA MoveKeepsWatch ==
    ASSUME RunsInv, Stages, Watched, NEW a \in Actors, Moves(a)
    PROVE  Watched'
  <1>1. CASE NewVersion
    BY <1>1 DEF NewVersion
  <1>2. CASE VersionKept
    <2>1. run'.state = run.state
      BY <1>2 DEF VersionKept
    <2>2. \A x \in Actors \ {a} : Kept(x)
      BY OneMoves
    <2>3. CASE IsTerminal(run.state)
      BY <2>1, <2>3 DEF Watched
    <2>4. ASSUME NEW w \in Workers, Failing(w) PROVE Watched'
      <3>1. CASE w = a
        BY <1>2, <2>4, <3>1, FailureGoesOn
      <3>2. CASE w # a
        <4>1. Kept(w)
          BY <2>2, <3>2, ActorFacts
        <4>2. Failing(w)'
          BY <1>2, <2>4, <4>1 DEF Kept, Failing, Unchanged, VersionKept
        <4>3. QED
          BY <4>2 DEF Watched
      <3>3. QED
        BY <3>1, <3>2
    <2>5. ASSUME NEW b \in Batches, Merging(b), AcceptsSpans(run.state) PROVE Watched'
      <3>1. CASE b = a
        BY <1>2, <2>5, <3>1, MergeGoesOn
      <3>2. CASE b # a
        <4>1. Kept(b)
          BY <2>2, <3>2, ActorFacts
        <4>2. Merging(b)'
          BY <1>2, <2>5, <4>1 DEF Kept, Merging, Unchanged, VersionKept
        <4>3. QED
          BY <2>1, <2>5, <4>2 DEF Watched
      <3>3. QED
        BY <3>1, <3>2
    <2>6. CASE Early(run.state) /\ (Live("timeout") \/ Awaited("idle"))
      <3>1. "timeout" \in Keys /\ "idle" \in Keys
        BY ActorFacts DEF JobKinds
      <3>2. ~Past("timeout") /\ ~Past("idle")
        BY <2>6 DEF Past
      <3>3. Live("timeout")' \/ Awaited("idle")' \/ Watched'
        BY <2>6, <3>1, <3>2, LiveGoesOn, AwaitedGoesOn
      <3>4. QED
        BY <2>1, <2>6, <3>3 DEF Watched
    <2>7. CASE run.state = "settling" /\ Awaited("finalize")
      <3>1. "finalize" \in Keys /\ ~Past("finalize")
        BY <2>7, ActorFacts DEF JobKinds, Past, Judging
      <3>2. Awaited("finalize")' \/ Watched'
        BY <2>7, <3>1, AwaitedGoesOn
      <3>3. QED
        BY <2>1, <2>7, <3>2 DEF Watched
    <2>8. CASE run.state = "finalizing" /\ Live("finalize")
      <3>1. "finalize" \in Keys /\ ~Past("finalize")
        BY <2>8, ActorFacts DEF JobKinds, Past, Judging
      <3>2. Live("finalize")' \/ Watched'
        BY <2>8, <3>1, LiveGoesOn
      <3>3. QED
        BY <2>1, <2>8, <3>2 DEF Watched
    <2>9. ASSUME NEW w \in Workers, Freezing(w), run.state = "finalizing" PROVE Watched'
      <3>1. CASE w = a
        BY <1>2, <2>9, <3>1, FreezingGoesOn
      <3>2. CASE w # a
        <4>1. Kept(w)
          BY <2>2, <3>2, ActorFacts
        <4>2. Freezing(w)'
          BY <1>2, <2>9, <4>1 DEF Kept, Freezing, Unchanged, VersionKept
        <4>3. QED
          BY <2>1, <2>9, <4>2 DEF Watched
      <3>3. QED
        BY <3>1, <3>2
    <2>10. CASE run.state = "evaluating" /\ Awaited("evaluate")
      <3>1. "evaluate" \in Keys /\ ~Past("evaluate")
        BY <2>10, ActorFacts DEF JobKinds, Past, IsTerminal
      <3>2. Awaited("evaluate")' \/ Watched'
        BY <2>10, <3>1, AwaitedGoesOn
      <3>3. QED
        BY <2>1, <2>10, <3>2 DEF Watched
    <2>11. ASSUME NEW w \in Workers, Concluding(w), run.state = "evaluating" PROVE Watched'
      <3>1. CASE w = a
        BY <1>2, <2>11, <3>1, ConcludingGoesOn
      <3>2. CASE w # a
        <4>1. Kept(w)
          BY <2>2, <3>2, ActorFacts
        <4>2. Concluding(w)'
          BY <1>2, <2>11, <4>1 DEF Kept, Concluding, Unchanged, VersionKept
        <4>3. QED
          BY <2>1, <2>11, <4>2 DEF Watched
      <3>3. QED
        BY <3>1, <3>2
    <2>12. QED
      BY <2>3, <2>4, <2>5, <2>6, <2>7, <2>8, <2>9, <2>10, <2>11 DEF Watched
  <1>3. QED
    BY <1>1, <1>2, VersionSteps

(* The clock and the leases move the run's watchers nowhere. *)
LEMMA SurroundingsKeepWatch ==
    ASSUME RunsInv, Watched,
           (\E k \in Keys : LeaseRunsOut(k)) \/ ClockTick \/ UNCHANGED vars
    PROVE  Watched'
  <1>1. /\ pc' = pc /\ seen' = seen /\ enq' = enq /\ batch' = batch /\ run' = run
    BY DEF LeaseRunsOut, LeaseExpires, ClockTick, Tick, store, memory, vars
  <1>2. \A k \in Keys : jobs'[k].status = jobs[k].status
    BY DEF LeaseRunsOut, LeaseExpires, ClockTick, Tick, vars, RunsInv, TypeOK, JobsTypeOK, Job
  <1>3. \A k \in Keys : Live(k) => Live(k)'
    BY <1>2 DEF Live
  <1>4. \A k \in Keys : Awaited(k) => Awaited(k)'
    BY <1>1, <1>3 DEF Awaited, Enqueuing
  <1>5. \A w \in Workers :
           /\ Failing(w) => Failing(w)'
           /\ Freezing(w) => Freezing(w)'
           /\ Concluding(w) => Concluding(w)'
    BY <1>1 DEF Failing, Freezing, Concluding, Unchanged
  <1>6. \A b \in Batches : Merging(b) => Merging(b)'
    BY <1>1 DEF Merging, Unchanged
  <1>7. /\ "timeout" \in Keys /\ "idle" \in Keys /\ "finalize" \in Keys
        /\ "evaluate" \in Keys
    BY ActorFacts DEF JobKinds
  <1>8. QED
    BY <1>1, <1>3, <1>4, <1>5, <1>6, <1>7 DEF Watched

----------------------------------------------------------------------------
(* The stages are kept. *)

LEMMA StateFacts ==
    ASSUME NEW s, NEW t, CanEnter(s, t)
    PROVE  /\ ~Early(s) => ~Early(t)
           /\ Judging(s) => Judging(t)
           /\ IsTerminal(s) => IsTerminal(t)
           /\ t = "finalizing" /\ ~AcceptsSpans(s) => s = "finalizing"
  BY DEF CanEnter, Allowed, Early, Judging, IsTerminal, AcceptsSpans

LEMMA SettledRow ==
    ASSUME NEW r \in Run, CompletionFits(r), NEW c \in Completions,
           NEW until, NEW stamp, CanBeginSettling(r, c)
    PROVE  LET s == BeginSettling(r, c, until, stamp)
           IN  s.state = "settling" \/ (s = r /\ ~Early(r.state))
  <1>1. CASE r.completion = NoCompletion
    <2>1. TransitionTo(r, "settling", stamp).state = "settling"
      BY DEF TransitionTo, Run
    <2>2. DOMAIN TransitionTo(r, "settling", stamp) = DOMAIN r
      BY DEF TransitionTo, Run
    <2>3. QED
      BY <1>1, <2>1, <2>2 DEF BeginSettling, Run
  <1>2. CASE r.completion # NoCompletion /\ r.state = "settling"
    BY <1>2 DEF BeginSettling, Run
  <1>3. CASE r.completion # NoCompletion /\ r.state # "settling"
    BY <1>3 DEF BeginSettling, CompletionFits
  <1>4. QED
    BY <1>1, <1>2, <1>3

(* What a process that stays behind remembers remains true. *)
LEMMA KeptStage ==
    ASSUME RunsInv, Stages, NEW x \in Actors, Kept(x), CanEnter(run.state, run'.state),
           VersionKept \/ (run'.state = "finalizing" => run.state # "finalizing")
    PROVE  /\ x \in Workers => JobStage(x)'
           /\ Intent(x)' /\ AsksAfterEvidence(x)'
  <1>1. /\ ~Early(run.state) => ~Early(run'.state)
        /\ Judging(run.state) => Judging(run'.state)
        /\ IsTerminal(run.state) => IsTerminal(run'.state)
        /\ run'.state = "finalizing" /\ ~AcceptsSpans(run.state) => run.state = "finalizing"
    BY StateFacts
  <1>2. Intent(x)' /\ AsksAfterEvidence(x)'
    BY <1>1 DEF Stages, Kept, Intent, AsksAfterEvidence
  <1>3. ASSUME x \in Workers PROVE JobStage(x)'
    <2>1. JobStage(x) /\ claim'[x] = claim[x] /\ pc'[x] = pc[x] /\ row'[x] = row[x]
      BY <1>3 DEF Stages, Kept
    <2>2. ASSUME pc[x] \in {"list_spans", "insert_bundle"}, run'.state = "finalizing"
          PROVE  row[x].updatedAt = run'.updatedAt
      <3>1. ~AcceptsSpans(run.state)
        BY <1>3, <2>2 DEF RunsInv, ProcessInv, HeldEvidence
      <3>2. run.state = "finalizing" /\ VersionKept
        BY <1>1, <2>2, <3>1
      <3>3. QED
        BY <2>1, <2>2, <3>2 DEF JobStage, VersionKept
    <2>3. QED
      BY <1>1, <2>1, <2>2 DEF JobStage
  <1>4. QED
    BY <1>2, <1>3

(* An evaluation is asked for by the finalization that ends it. *)
LEMMA AskingStage ==
    ASSUME RunsInv, Stages, NEW a \in Actors, Moves(a), CanEnter(run.state, run'.state)
    PROVE  AsksAfterEvidence(a)'
  <1>1. /\ enq \in [Actors -> Requests] /\ pc \in [Actors -> Labels]
        /\ Judging(run.state) => Judging(run'.state)
    BY StateFacts, ActorFacts DEF RunsInv, TypeOK, JobsTypeOK, MemoryTypeOK
  <1>2. CASE enq'[a] = enq[a]
    BY <1>1, <1>2 DEF Stages, AsksAfterEvidence
  <1>3. CASE enq' = [enq EXCEPT ![a] = NoRequest]
    BY <1>1, <1>3 DEF AsksAfterEvidence, NoRequest
  <1>4. ASSUME NEW k, NEW at, k # "evaluate" \/ Judging(run'.state),
               enq' = [enq EXCEPT ![a] = Request(k, at)]
        PROVE  AsksAfterEvidence(a)'
    <2>1. enq'[a].key = k
      BY <1>1, <1>4 DEF Request, NoRequest
    <2>2. QED
      BY <1>4, <2>1 DEF AsksAfterEvidence
  <1>5. CASE EnqueueCall(a)
    <2>1. enq[a].step # "idle" /\ enq'[a].key = enq[a].key
      <3>1. CASE EnqueueFind(a) \/ EnqueueRefind(a)
        <4>1. \E label \in {"insert", "error"} :
                 enq'[a] \in {EnqueueFound(a), [enq[a] EXCEPT !.step = label]}
          BY <1>1, <3>1 DEF EnqueueFind, EnqueueRefind
        <4>2. enq[a] \in Requests /\ enq[a].step # "idle"
          BY <1>1, <3>1 DEF EnqueueFind, EnqueueRefind
        <4>3. EnqueueFound(a).key = enq[a].key
          BY <4>2 DEF EnqueueFound, Requests
        <4>4. \A label : [enq[a] EXCEPT !.step = label].key = enq[a].key
          BY <4>2 DEF Requests
        <4>5. QED
          BY <4>1, <4>2, <4>3, <4>4
      <3>2. CASE EnqueueBump(a) \/ EnqueueInsert(a)
        BY <1>1, <3>2 DEF EnqueueBump, EnqueueInsert, Requests
      <3>3. QED
        BY <1>5, <3>1, <3>2 DEF EnqueueCall, EnqueueProgress
    <2>2. QED
      BY <1>1, <2>1 DEF Stages, AsksAfterEvidence
  <1>6. CASE RequestMoves(a)
    <2>1. ASSUME NEW r, Schedule(a, r) PROVE AsksAfterEvidence(a)'
      <3>1. CASE r.state = "settling"
        <4>1. enq' = [enq EXCEPT ![a] = Request("finalize", r.settleUntil)]
          BY <2>1, <3>1 DEF Schedule
        <4>2. QED
          BY <1>4, <4>1
      <3>2. CASE r.state = "collecting"
        <4>1. enq' = [enq EXCEPT ![a] = Request("idle", Cap(batch[a].at + IdleSeconds))]
          BY <2>1, <3>2 DEF Schedule
        <4>2. "idle" # "evaluate"
          OBVIOUS
        <4>3. QED
          BY <1>4, <4>1, <4>2
      <3>3. CASE r.state \notin {"settling", "collecting"}
        BY <1>2, <2>1, <3>3 DEF Schedule
      <3>4. QED
        BY <3>1, <3>2, <3>3
    <2>2. QED
      BY <1>2, <1>3, <1>6, <2>1
         DEF RequestMoves, SendBatch, BatchStep, Authorize,
             InsertDuplicate, InsertLate, InsertRefused, InsertAccepted, ReconcileRead,
             ReconcileWrite, EnqueueAnswered
  <1>7. ASSUME NEW at, NEW lost, UpdateThenEnqueue(a, "finalize", at, lost)
        PROVE  AsksAfterEvidence(a)'
    BY <1>2, <1>4, <1>7 DEF UpdateThenEnqueue
  <1>8. CASE CallMoves(a)
    BY <1>2, <1>3, <1>7, <1>8
       DEF CallMoves, CallComplete, CallCancel, CallStep, CallCompleteWrite,
           CallCancelWrite, EnqueueAnswered
  <1>9. CASE a \in Workers /\ ToEvaluating(a)
    <2>1. CASE Unchanged(a)
      <3>1. /\ run' = row[a] /\ row[a].state = "evaluating"
            /\ enq' = [enq EXCEPT ![a] = Request("evaluate", now)]
        BY <1>9, <2>1 DEF ToEvaluating, UpdateThenEnqueue, UpdateRun, Stages, Intent
      <3>2. QED
        BY <1>4, <3>1 DEF Judging
    <2>2. CASE ~Unchanged(a)
      BY <1>2, <1>9, <2>2 DEF ToEvaluating, UpdateThenEnqueue
    <2>3. QED
      BY <2>1, <2>2
  <1>10. CASE WorkerMoves(a)
    BY ZenonT(30), <1>2, <1>3, <1>7, <1>9, <1>10
       DEF WorkerMoves, WorkerStep, WorkerRescheduleLost, RescheduleReplyLost,
           WorkerClaim, ClaimDue, ProcessTimeout, ProcessIdleTimeout, WorkerReschedule,
           RescheduleJob, TimeoutComplete, TimeoutCompleteWrite, FinalizeStart,
           FinalizeReplay, FinalizeRead, ToFinalizing, ListSpans, InsertBundle,
           EvaluateStart, EvaluateReplay, EvaluatePack, SaveSummary, RereadRun,
           ToCompleted, WorkerFinish, CompleteJob, WorkerFail, FailJob, MarkFailedRead,
           MarkFailedWrite, EnqueueAnswered
  <1>11. QED
    BY <1>5, <1>6, <1>8, <1>10 DEF Moves

LEMMA EvaluateStage ==
    ASSUME RunsInv, Stages, NEW a \in Actors, Moves(a), CanEnter(run.state, run'.state)
    PROVE  EvaluatesAfterEvidence'
  <1>1. /\ jobs \in [Keys -> Job] /\ claim \in [Workers -> Claims \cup {NoClaim}]
        /\ enq \in [Actors -> Requests] /\ "evaluate" \in Keys
        /\ Judging(run.state) => Judging(run'.state)
    BY StateFacts, ActorFacts DEF RunsInv, TypeOK, JobsTypeOK, JobKinds
  <1>2. CASE \/ jobs'["evaluate"].status = jobs["evaluate"].status
             \/ jobs["evaluate"].status # "none"
    BY <1>1, <1>2 DEF Stages, EvaluatesAfterEvidence
  <1>3. CASE EnqueueCall(a)
    <2>1. CASE EnqueueInsert(a) /\ enq[a].key = "evaluate"
      BY <1>1, <2>1 DEF EnqueueInsert, Stages, AsksAfterEvidence, EvaluatesAfterEvidence
    <2>2. CASE EnqueueInsert(a) /\ enq[a].key # "evaluate"
      BY <1>1, <1>2, <2>2 DEF EnqueueInsert, Requests
    <2>3. CASE EnqueueBump(a)
      BY <1>1, <1>2, <2>3 DEF EnqueueBump, Requests, Job
    <2>4. QED
      BY <1>2, <1>3, <2>1, <2>2, <2>3
         DEF EnqueueCall, EnqueueProgress, EnqueueFind, EnqueueRefind
  <1>4. ASSUME NEW l \in Keys, WorkerClaim(a, l) PROVE EvaluatesAfterEvidence'
    <2>1. CASE l = "evaluate"
      <3>1. jobs[l].status # "none"
        BY <1>4 DEF WorkerClaim, ClaimDue, Due
      <3>2. QED
        BY <1>2, <2>1, <3>1
    <2>2. CASE l # "evaluate"
      BY <1>1, <1>2, <1>4, <2>2 DEF WorkerClaim, ClaimDue
    <2>3. QED
      BY <2>1, <2>2
  <1>5. CASE /\ a \in Workers
             /\ \/ WorkerReschedule(a) \/ WorkerRescheduleLost(a)
                \/ WorkerFail(a) \/ WorkerFinish(a)
    <2>1. claim[a] \in Claims
      BY <1>1, <1>5 DEF WorkerReschedule, RescheduleJob, WorkerRescheduleLost,
                        RescheduleReplyLost, WorkerFail, FailJob, WorkerFinish, CompleteJob
    <2>2. CASE Holds(a) /\ claim[a].key = "evaluate"
      BY <1>2, <2>2 DEF Holds
    <2>3. CASE ~(Holds(a) /\ claim[a].key = "evaluate")
      <3>1. jobs'["evaluate"] = jobs["evaluate"]
        BY <1>1, <1>5, <2>1, <2>3
           DEF WorkerReschedule, RescheduleJob, WorkerRescheduleLost, RescheduleReplyLost,
               Rescheduled, WorkerFail, FailJob, WorkerFinish, CompleteJob, Claims
      <3>2. QED
        BY <1>2, <3>1
    <2>4. QED
      BY <2>2, <2>3
  <1>6. CASE jobs' = jobs
    BY <1>2, <1>6
  <1>7. QED
    BY <1>3, <1>4, <1>5, <1>6, JobMoves

LEMMA RequestIntent ==
    ASSUME RunsInv, NEW b \in Batches, RequestMoves(b)
    PROVE  Intent(b)'
  <1>1. b \in Actors /\ pc \in [Actors -> Labels] /\ row \in [Actors -> Run]
    BY ActorFacts DEF RunsInv, TypeOK, MemoryTypeOK
  <1>2. ASSUME pc'[b] \notin Writing PROVE Intent(b)'
    BY <1>2 DEF Intent, Writing
  <1>3. CASE SendBatch(b) \/ Authorize(b) \/ EnqueueAnswered(b, "done", "failed")
    <2>1. pc'[b] \in {"authorize", "insert", "done", "failed"}
      BY <1>1, <1>3 DEF SendBatch, Authorize, EnqueueAnswered, Goto
    <2>2. QED
      BY <1>2, <2>1 DEF Writing
  <1>4. CASE \/ InsertDuplicate(b) \/ InsertLate(b) \/ InsertRefused(b) \/ InsertAccepted(b)
    <2>1. pc'[b] \in {"insert", "reconcile", "done"}
      BY <1>4, SpanDoneFacts DEF InsertDuplicate, InsertLate, InsertRefused, InsertAccepted
    <2>2. QED
      BY <1>2, <2>1 DEF Writing
  <1>5. CASE ReconcileRead(b)
    <2>1. CASE Reconciled(b) = run
      <3>1. pc'[b] \in {"enqueue", "done"}
        BY <1>1, <1>5, <2>1 DEF ReconcileRead, Schedule, Goto
      <3>2. QED
        BY <1>2, <3>1 DEF Writing
    <2>2. CASE Reconciled(b) # run
      <3>1. row'[b] = Reconciled(b) /\ pc'[b] = "reconcile_write"
        BY <1>1, <1>5, <2>2 DEF ReconcileRead, Prepare, Goto
      <3>2. Reconciled(b).state \in {"collecting", "settling"}
        BY <2>2, ReconciledFacts
      <3>3. QED
        BY <3>1, <3>2 DEF Intent
    <2>3. QED
      BY <2>1, <2>2
  <1>6. CASE ReconcileWrite(b)
    <2>1. pc'[b] \in {"enqueue", "done", "reconcile", "failed"}
      BY <1>1, <1>6 DEF ReconcileWrite, Schedule, Goto
    <2>2. QED
      BY <1>2, <2>1 DEF Writing
  <1>7. QED
    BY <1>3, <1>4, <1>5, <1>6 DEF RequestMoves, BatchStep

(* get_run and begin_settling, by a call or by a timeout. *)
LEMMA CompleteIntent ==
    ASSUME RunsInv, NEW a \in Actors, NEW c \in Completions, NEW until, NEW stamp,
           NEW refused \in Labels \ Writing, UNCHANGED run,
           CompleteRead(a, c, until, stamp, "complete_write", refused)
    PROVE  Intent(a)' /\ pc'[a] \in {"complete_write", refused}
  <1>1. /\ pc \in [Actors -> Labels] /\ row \in [Actors -> Run]
        /\ seen \in [Actors -> Version] /\ run \in Run /\ CompletionFits(run)
    BY DEF RunsInv, TypeOK, MemoryTypeOK, StoreTypeOK, StoreInv
  <1>2. CASE CanBeginSettling(run, c)
    <2>1. /\ pc'[a] = "complete_write"
          /\ row'[a] = BeginSettling(run, c, until, stamp)
          /\ seen'[a] = [state |-> run.state, updatedAt |-> run.updatedAt]
      BY <1>1, <1>2 DEF CompleteRead, Prepare, Goto
    <2>2. row'[a].state = "settling" \/ (row'[a] = run /\ ~Early(run.state))
      BY <1>1, <1>2, <2>1, SettledRow
    <2>3. QED
      BY <2>1, <2>2 DEF Intent
  <1>3. CASE ~CanBeginSettling(run, c)
    <2>1. pc'[a] = refused
      BY <1>1, <1>3 DEF CompleteRead, Goto
    <2>2. QED
      BY <2>1 DEF Intent, Writing
  <1>4. QED
    BY <1>2, <1>3

LEMMA CallIntent ==
    ASSUME RunsInv, NEW c \in Calls, CallMoves(c)
    PROVE  Intent(c)'
  <1>1. /\ c \in Actors /\ pc \in [Actors -> Labels] /\ row \in [Actors -> Run]
        /\ run \in Run
    BY ActorFacts DEF RunsInv, TypeOK, MemoryTypeOK, StoreTypeOK
  <1>2. ASSUME pc'[c] \notin Writing PROVE Intent(c)'
    BY <1>2 DEF Intent, Writing
  <1>3. CASE CallComplete(c)
    <2>1. /\ CallCompletion[c] \in Completions /\ "done" \in Labels \ Writing /\ run' = run
          /\ CompleteRead(c, CallCompletion[c], Cap(now + CallSettle[c]),
                          CallStamp(c), "complete_write", "done")
      BY <1>3, RunsAssumption DEF CallComplete, Labels, Resting, Writing, store
    <2>2. QED
      BY <1>1, <2>1, CompleteIntent
  <1>4. CASE CallCancel(c)
    <2>1. CASE CanEnter(run.state, "cancelled")
      <3>1. row'[c] = TransitionTo(run, "cancelled", CallStamp(c)) /\ pc'[c] = "cancel_write"
        BY <1>1, <1>4, <2>1 DEF CallCancel, Prepare, Goto
      <3>2. row'[c].state = "cancelled"
        BY <1>1, <3>1 DEF TransitionTo, Run
      <3>3. QED
        BY <3>1, <3>2 DEF Intent
    <2>2. CASE ~CanEnter(run.state, "cancelled")
      <3>1. pc'[c] = "done"
        BY <1>1, <1>4, <2>2 DEF CallCancel, Goto
      <3>2. QED
        BY <1>2, <3>1 DEF Writing
    <2>3. QED
      BY <2>1, <2>2
  <1>5. CASE CallStep(c)
    <2>1. pc'[c] \in {"enqueue", "done"}
      BY <1>1, <1>5 DEF CallStep, CallCompleteWrite, CallCancelWrite, UpdateThenEnqueue,
                        UpdateRun, EnqueueAnswered, Goto
    <2>2. QED
      BY <1>2, <2>1 DEF Writing
  <1>6. QED
    BY <1>3, <1>4, <1>5 DEF CallMoves

(* A worker's step leaves it at the stage its job and the run are in. *)
LEMMA LookStage ==
    ASSUME RunsInv, Stages, NEW w \in Workers,
           \/ ProcessTimeout(w) \/ ProcessIdleTimeout(w) \/ FinalizeStart(w)
           \/ EvaluateStart(w) \/ EvaluatePack(w) \/ ListSpans(w)
    PROVE  JobStage(w)' /\ Intent(w)'
  <1>1. /\ w \in Actors /\ pc \in [Actors -> Labels] /\ JobStage(w)
        /\ run' = run /\ claim' = claim /\ row' = row
    BY ActorFacts DEF RunsInv, TypeOK, MemoryTypeOK, Stages, ProcessTimeout,
       ProcessIdleTimeout, FinalizeStart, EvaluateStart, EvaluatePack, ListSpans, store, memory
  <1>2. CASE ProcessTimeout(w) \/ ProcessIdleTimeout(w)
    <2>1. /\ claim[w].key \in {"timeout", "idle"}
          /\ \/ pc'[w] \in {"complete", "timeout", "reschedule"}
             \/ pc'[w] = "finish" /\ ~Early(run.state)
      BY <1>1, <1>2 DEF ProcessTimeout, ProcessIdleTimeout, Collecting, Early, Goto,
                        JobStage, TimeoutLabels
    <2>2. QED
      BY <1>1, <2>1 DEF JobStage, Intent, TimeoutLabels, FinalizeLabels, EvaluateLabels
  <1>3. CASE FinalizeStart(w)
    <2>1. claim[w].key = "finalize" /\ pc'[w] \in {"finalize_replay", "finalize_read"}
      BY <1>1, <1>3 DEF FinalizeStart, Goto, JobStage, FinalizeLabels
    <2>2. QED
      BY <1>1, <2>1 DEF JobStage, Intent, TimeoutLabels, FinalizeLabels, EvaluateLabels
  <1>4. CASE EvaluateStart(w) \/ EvaluatePack(w)
    <2>1. /\ claim[w].key = "evaluate"
          /\ pc'[w] \in {"evaluate_replay", "evaluate_pack", "save_summary", "fail"}
      BY <1>1, <1>4 DEF EvaluateStart, EvaluatePack, Goto, JobStage, EvaluateLabels
    <2>2. QED
      BY <1>1, <2>1 DEF JobStage, Intent, TimeoutLabels, FinalizeLabels, EvaluateLabels
  <1>5. CASE ListSpans(w)
    <2>1. claim[w].key = "finalize" /\ pc[w] = "list_spans" /\ pc'[w] = "insert_bundle"
      BY <1>1, <1>5 DEF ListSpans, Goto, JobStage, FinalizeLabels
    <2>2. QED
      BY <1>1, <2>1 DEF JobStage, Intent, TimeoutLabels, FinalizeLabels, EvaluateLabels
  <1>6. QED
    BY <1>2, <1>3, <1>4, <1>5

LEMMA ReadStage ==
    ASSUME RunsInv, Stages, NEW w \in Workers,
           \/ TimeoutComplete(w) \/ FinalizeReplay(w) \/ FinalizeRead(w)
           \/ EvaluateReplay(w) \/ RereadRun(w) \/ MarkFailedRead(w)
    PROVE  JobStage(w)' /\ Intent(w)'
  <1>1. /\ w \in Actors /\ pc \in [Actors -> Labels] /\ JobStage(w)
        /\ run' = run /\ claim' = claim /\ run \in Run
        /\ row \in [Actors -> Run] /\ seen \in [Actors -> Version]
    BY ActorFacts DEF RunsInv, TypeOK, MemoryTypeOK, StoreTypeOK, Stages, TimeoutComplete,
       FinalizeReplay, FinalizeRead, EvaluateReplay, RereadRun, MarkFailedRead, store
  <1>2. bundle # None => ~AcceptsSpans(run.state)
    BY DEF RunsInv, StoreInv, EvidenceIsComplete
  <1>3. \A r \in Run : \A t, stamp : TransitionTo(r, t, stamp).state = t
    BY DEF TransitionTo, Run
  <1>4. CASE TimeoutComplete(w)
    <2>1. claim[w].key \in {"timeout", "idle"} /\ pc[w] = "complete"
      BY <1>1, <1>4 DEF TimeoutComplete, JobStage, TimeoutLabels
    <2>2. work[w].completion \in Completions
      BY <1>1, <2>1 DEF RunsInv, ProcessInv, HeldEvidence, TypeOK, MemoryTypeOK, Work
    <2>3. "fail" \in Labels \ Writing
      BY DEF Labels, Writing
    <2>4. Intent(w)' /\ pc'[w] \in {"complete_write", "fail"}
      BY <1>1, <1>4, <2>2, <2>3, CompleteIntent DEF TimeoutComplete
    <2>5. QED
      BY <1>1, <2>1, <2>4 DEF JobStage, TimeoutLabels, FinalizeLabels, EvaluateLabels
  <1>5. CASE FinalizeReplay(w)
    <2>1. claim[w].key = "finalize" /\ bundle # None
      BY <1>1, <1>5 DEF FinalizeReplay, JobStage, FinalizeLabels, RunsInv, ProcessInv,
                        HeldVerdict
    <2>2. CASE run.state = "finalizing"
      <3>1. /\ row'[w] = TransitionTo(run, "evaluating", claim[w])
            /\ pc'[w] = "to_evaluating"
        BY <1>1, <1>5, <2>2 DEF FinalizeReplay, Prepare, Goto
      <3>2. QED
        BY <1>1, <1>3, <2>1, <3>1
           DEF JobStage, Intent, TimeoutLabels, FinalizeLabels, EvaluateLabels
    <2>3. CASE run.state # "finalizing"
      <3>1. pc'[w] = "finish"
        BY <1>1, <1>5, <2>3 DEF FinalizeReplay, Goto
      <3>2. Judging(run.state)
        BY <1>1, <1>2, <2>1, <2>3 DEF Judging, AcceptsSpans, Run, RunStates
      <3>3. QED
        BY <1>1, <2>1, <3>1, <3>2
           DEF JobStage, Intent, TimeoutLabels, FinalizeLabels, EvaluateLabels
    <2>4. QED
      BY <2>2, <2>3
  <1>6. CASE FinalizeRead(w)
    <2>1. claim[w].key = "finalize"
      BY <1>1, <1>6 DEF FinalizeRead, JobStage, FinalizeLabels
    <2>2. CASE run.state = "settling" /\ pc'[w] # "fail"
      <3>1. /\ row'[w] = TransitionTo(run, "finalizing", claim[w])
            /\ seen'[w] = [state |-> run.state, updatedAt |-> run.updatedAt]
            /\ pc'[w] = "to_finalizing"
        BY <1>1, <1>6, <2>2 DEF FinalizeRead, Prepare, Goto
      <3>2. QED
        BY <1>1, <1>3, <2>1, <2>2, <3>1
           DEF JobStage, Intent, TimeoutLabels, FinalizeLabels, EvaluateLabels
    <2>3. CASE run.state = "finalizing"
      <3>1. row'[w] = run /\ pc'[w] = "list_spans"
        BY <1>1, <1>6, <2>3 DEF FinalizeRead, Prepare, Goto
      <3>2. QED
        BY <1>1, <2>1, <3>1
           DEF JobStage, Intent, TimeoutLabels, FinalizeLabels, EvaluateLabels
    <2>4. CASE pc'[w] = "fail"
      BY <1>1, <2>4 DEF JobStage, Intent, TimeoutLabels, FinalizeLabels, EvaluateLabels
    <2>5. QED
      BY <1>1, <1>6, <2>2, <2>3, <2>4 DEF FinalizeRead, Goto
  <1>7. CASE EvaluateReplay(w)
    <2>1. claim[w].key = "evaluate" /\ Judging(run.state)
      <3>1. pc[w] = "evaluate_replay" /\ claim[w] # NoClaim
        BY <1>1, <1>7 DEF EvaluateReplay, RunsInv, ProcessInv, WorkerPlace
      <3>2. QED
        BY <1>1, <3>1 DEF JobStage, EvaluateLabels
    <2>2. CASE run.state = "evaluating"
      <3>1. pc'[w] = "to_completed"
            /\ row'[w] = TransitionTo([run EXCEPT !.verdict = summary], "completed", claim[w])
        BY <1>1, <1>7, <2>2 DEF EvaluateReplay, Prepare, Goto
      <3>2. [run EXCEPT !.verdict = summary] \in Run
        BY <1>1 DEF Run, RunsInv, TypeOK, StoreTypeOK
      <3>3. QED
        BY <1>1, <1>3, <2>1, <3>1, <3>2
           DEF JobStage, Intent, TimeoutLabels, FinalizeLabels, EvaluateLabels
    <2>3. CASE run.state # "evaluating"
      <3>1. pc'[w] = "finish"
        BY <1>1, <1>7, <2>3 DEF EvaluateReplay, Goto
      <3>2. QED
        BY <1>1, <2>1, <2>3, <3>1 DEF JobStage, Intent, TimeoutLabels, FinalizeLabels,
                                    EvaluateLabels, Judging, IsTerminal
    <2>4. QED
      BY <2>2, <2>3
  <1>8. CASE RereadRun(w)
    <2>1. claim[w].key = "evaluate"
      BY <1>1, <1>8 DEF RereadRun, JobStage, EvaluateLabels
    <2>2. CASE CanEnter(run.state, "completed")
      <3>1. pc'[w] = "to_completed"
            /\ row'[w] = TransitionTo([run EXCEPT !.verdict = work[w].evidence],
                                      "completed", claim[w])
        BY <1>1, <1>8, <2>2 DEF RereadRun, Prepare, Goto
      <3>2. [run EXCEPT !.verdict = work[w].evidence] \in Run
        BY <1>1 DEF Run, RunsInv, TypeOK, MemoryTypeOK, Work
      <3>3. QED
        BY <1>1, <1>3, <2>1, <3>1, <3>2
           DEF JobStage, Intent, TimeoutLabels, FinalizeLabels, EvaluateLabels
    <2>3. CASE ~CanEnter(run.state, "completed")
      <3>1. pc'[w] = "fail"
        BY <1>1, <1>8, <2>3 DEF RereadRun, Goto
      <3>2. QED
        BY <1>1, <3>1 DEF JobStage, Intent, TimeoutLabels, FinalizeLabels, EvaluateLabels
    <2>4. QED
      BY <2>2, <2>3
  <1>9. CASE MarkFailedRead(w)
    <2>1. CASE IsTerminal(run.state)
      <3>1. pc'[w] = "idle"
        BY <1>1, <1>9, <2>1 DEF MarkFailedRead, Goto
      <3>2. QED
        BY <1>1, <3>1 DEF JobStage, Intent, TimeoutLabels, FinalizeLabels, EvaluateLabels
    <2>2. CASE ~IsTerminal(run.state)
      <3>1. /\ row'[w] = TransitionTo(run, "failed", CallStamp(w))
            /\ pc'[w] = "mark_failed_write"
        BY <1>1, <1>9, <2>2 DEF MarkFailedRead, Prepare, Goto
      <3>2. QED
        BY <1>1, <1>3, <3>1
           DEF JobStage, Intent, TimeoutLabels, FinalizeLabels, EvaluateLabels
    <2>3. QED
      BY <2>1, <2>2
  <1>10. QED
    BY <1>4, <1>5, <1>6, <1>7, <1>8, <1>9

LEMMA WriteStage ==
    ASSUME RunsInv, Stages, NEW w \in Workers, CanEnter(run.state, run'.state),
           \/ TimeoutCompleteWrite(w) \/ ToFinalizing(w) \/ ToEvaluating(w)
           \/ ToCompleted(w) \/ MarkFailedWrite(w)
    PROVE  JobStage(w)' /\ Intent(w)'
  <1>1. /\ w \in Actors /\ pc \in [Actors -> Labels] /\ JobStage(w) /\ Intent(w)
        /\ claim' = claim
    BY ActorFacts DEF RunsInv, TypeOK, MemoryTypeOK, Stages, TimeoutCompleteWrite,
       ToFinalizing, ToEvaluating, ToCompleted, MarkFailedWrite
  <1>2. Judging(run.state) => Judging(run'.state)
    BY StateFacts
  <1>3. CASE TimeoutCompleteWrite(w)
    <2>1. pc[w] = "complete_write" /\ claim[w].key \in {"timeout", "idle"}
      BY <1>1, <1>3 DEF TimeoutCompleteWrite, JobStage, TimeoutLabels
    <2>2. CASE Unchanged(w)
      <3>1. run' = row[w] /\ pc'[w] = "enqueue"
        BY <1>1, <1>3, <2>2 DEF TimeoutCompleteWrite, UpdateThenEnqueue, UpdateRun, Goto
      <3>2. ~Early(row[w].state)
        BY <1>1, <2>1 DEF Intent, Early
      <3>3. QED
        BY <1>1, <2>1, <3>1, <3>2
           DEF JobStage, Intent, TimeoutLabels, FinalizeLabels, EvaluateLabels
    <2>3. CASE ~Unchanged(w)
      <3>1. pc'[w] = "fail"
        BY <1>1, <1>3, <2>3 DEF TimeoutCompleteWrite, UpdateThenEnqueue, UpdateRun, Goto
      <3>2. QED
        BY <1>1, <2>1, <3>1
           DEF JobStage, Intent, TimeoutLabels, FinalizeLabels, EvaluateLabels
    <2>4. QED
      BY <2>2, <2>3
  <1>4. CASE ToFinalizing(w)
    <2>1. claim[w].key = "finalize" /\ row' = row
      BY <1>1, <1>4 DEF ToFinalizing, memory, JobStage, FinalizeLabels
    <2>2. CASE Unchanged(w)
      <3>1. run' = row[w] /\ pc'[w] = "list_spans"
        BY <1>1, <1>4, <2>2 DEF ToFinalizing, UpdateRun, Goto
      <3>2. QED
        BY <1>1, <2>1, <3>1
           DEF JobStage, Intent, TimeoutLabels, FinalizeLabels, EvaluateLabels
    <2>3. CASE ~Unchanged(w)
      <3>1. pc'[w] = "fail"
        BY <1>1, <1>4, <2>3 DEF ToFinalizing, UpdateRun, Goto
      <3>2. QED
        BY <1>1, <2>1, <3>1
           DEF JobStage, Intent, TimeoutLabels, FinalizeLabels, EvaluateLabels
    <2>4. QED
      BY <2>2, <2>3
  <1>5. CASE ToEvaluating(w)
    <2>1. claim[w].key = "finalize" /\ pc[w] = "to_evaluating"
      BY <1>1, <1>5 DEF ToEvaluating, JobStage, FinalizeLabels
    <2>2. CASE Unchanged(w)
      <3>1. run' = row[w] /\ pc'[w] = "enqueue"
        BY <1>1, <1>5, <2>2 DEF ToEvaluating, UpdateThenEnqueue, UpdateRun, Goto
      <3>2. Judging(row[w].state)
        BY <1>1, <2>1 DEF Intent, Judging
      <3>3. QED
        BY <1>1, <2>1, <3>1, <3>2
           DEF JobStage, Intent, TimeoutLabels, FinalizeLabels, EvaluateLabels
    <2>3. CASE ~Unchanged(w)
      <3>1. pc'[w] = "fail"
        BY <1>1, <1>5, <2>3 DEF ToEvaluating, UpdateThenEnqueue, UpdateRun, Goto
      <3>2. QED
        BY <1>1, <2>1, <3>1
           DEF JobStage, Intent, TimeoutLabels, FinalizeLabels, EvaluateLabels
    <2>4. QED
      BY <2>2, <2>3
  <1>6. CASE ToCompleted(w)
    <2>1. claim[w].key = "evaluate" /\ pc[w] = "to_completed"
      BY <1>1, <1>6 DEF ToCompleted, JobStage, EvaluateLabels
    <2>2. Judging(run'.state)
      <3>1. claim[w] # NoClaim
        BY <1>1, <2>1 DEF RunsInv, ProcessInv, WorkerPlace
      <3>2. QED
        BY <1>1, <1>2, <2>1, <3>1 DEF JobStage
    <2>3. CASE Unchanged(w)
      <3>1. run' = row[w] /\ pc'[w] = "finish"
        BY <1>1, <1>6, <2>3 DEF ToCompleted, UpdateRun, Goto
      <3>2. IsTerminal(row[w].state)
        BY <1>1, <2>1 DEF Intent, IsTerminal
      <3>3. QED
        BY <1>1, <2>1, <2>2, <3>1, <3>2
           DEF JobStage, Intent, TimeoutLabels, FinalizeLabels, EvaluateLabels
    <2>4. CASE ~Unchanged(w)
      <3>1. pc'[w] = "fail"
        BY <1>1, <1>6, <2>4 DEF ToCompleted, UpdateRun, Goto
      <3>2. QED
        BY <1>1, <2>1, <2>2, <3>1
           DEF JobStage, Intent, TimeoutLabels, FinalizeLabels, EvaluateLabels
    <2>5. QED
      BY <2>3, <2>4
  <1>7. CASE MarkFailedWrite(w)
    <2>1. pc'[w] = "idle"
      BY <1>1, <1>7 DEF MarkFailedWrite, UpdateRun, Goto
    <2>2. QED
      BY <1>1, <1>2, <2>1 DEF JobStage, Intent, TimeoutLabels, FinalizeLabels, EvaluateLabels
  <1>8. QED
    BY <1>3, <1>4, <1>5, <1>6, <1>7

LEMMA OtherStage ==
    ASSUME RunsInv, Stages, NEW w \in Workers, CanEnter(run.state, run'.state),
           \/ \E k \in Keys : WorkerClaim(w, k)
           \/ InsertBundle(w) \/ SaveSummary(w) \/ EnqueueAnswered(w, "finish", "fail")
           \/ WorkerFinish(w) \/ WorkerFail(w)
           \/ WorkerReschedule(w) \/ WorkerRescheduleLost(w)
    PROVE  JobStage(w)' /\ Intent(w)'
  <1>1. /\ w \in Actors /\ pc \in [Actors -> Labels] /\ JobStage(w) /\ Intent(w)
        /\ claim \in [Workers -> Claims \cup {NoClaim}]
        /\ row \in [Actors -> Run]
        /\ Judging(run.state) => Judging(run'.state)
    BY ActorFacts, StateFacts DEF RunsInv, TypeOK, MemoryTypeOK, JobsTypeOK, Stages
  <1>2. ASSUME NEW k \in Keys, WorkerClaim(w, k) PROVE JobStage(w)' /\ Intent(w)'
    <2>1. /\ k \in JobKinds /\ pc'[w] = FirstCall[k] /\ claim'[w].key = k /\ run' = run
          /\ jobs[k].status # "none"
      BY <1>1, <1>2, ActorFacts DEF WorkerClaim, ClaimDue, Due, Goto, store
    <2>2. /\ k \in {"timeout", "idle"} => pc'[w] \in {"timeout", "idle_timeout"}
          /\ k = "finalize" => pc'[w] = "finalize"
          /\ k = "evaluate" => pc'[w] = "evaluate"
      BY <2>1 DEF FirstCall, JobKinds
    <2>3. k = "evaluate" => Judging(run.state)
      BY <2>1 DEF Stages, EvaluatesAfterEvidence
    <2>4. QED
      BY <2>1, <2>2, <2>3 DEF JobStage, Intent, JobKinds, TimeoutLabels, FinalizeLabels,
                              EvaluateLabels
  <1>3. CASE InsertBundle(w)
    <2>1. claim[w].key = "finalize" /\ claim' = claim /\ run' = run
      BY <1>1, <1>3 DEF InsertBundle, JobStage, FinalizeLabels
    <2>2. CASE bundle \in {None, Evidence(w)}
      <3>1. pc'[w] = "to_evaluating"
        BY <1>1, <1>3, <2>2 DEF InsertBundle, Goto
      <3>2. row'[w] = TransitionTo([row[w] EXCEPT !.spanCount = Cardinality(work[w].evidence)],
                                  "evaluating", claim[w])
        BY <1>1, <1>3, <2>2 DEF InsertBundle
      <3>3. row'[w].state = "evaluating"
        BY <1>1, <3>2 DEF TransitionTo, Run
      <3>4. QED
        BY <1>1, <2>1, <3>1, <3>3
           DEF JobStage, Intent, TimeoutLabels, FinalizeLabels, EvaluateLabels
    <2>3. CASE bundle \notin {None, Evidence(w)}
      <3>1. pc'[w] = "fail"
        BY <1>1, <1>3, <2>3 DEF InsertBundle, Goto
      <3>2. QED
        BY <1>1, <2>1, <3>1
           DEF JobStage, Intent, TimeoutLabels, FinalizeLabels, EvaluateLabels
    <2>4. QED
      BY <2>2, <2>3
  <1>4. CASE SaveSummary(w)
    <2>1. claim[w].key = "evaluate" /\ claim' = claim /\ pc'[w] \in {"reread", "fail"}
      BY <1>1, <1>4 DEF SaveSummary, JobStage, EvaluateLabels, Goto
    <2>2. QED
      BY <1>1, <2>1 DEF JobStage, Intent, TimeoutLabels, FinalizeLabels, EvaluateLabels
  <1>5. CASE EnqueueAnswered(w, "finish", "fail")
    <2>1. /\ pc[w] = "enqueue" /\ pc'[w] \in {"finish", "fail"}
          /\ claim' = claim /\ run' = run
      BY <1>1, <1>5 DEF EnqueueAnswered, Goto, store
    <2>2. QED
      BY <1>1, <2>1 DEF JobStage, Intent, TimeoutLabels, FinalizeLabels, EvaluateLabels
  <1>6. CASE WorkerFinish(w) \/ WorkerFail(w) \/ WorkerReschedule(w)
    <2>1. /\ pc'[w] \in {"idle", "mark_failed"} /\ claim'[w] = NoClaim
      BY <1>1, <1>6 DEF WorkerFinish, CompleteJob, WorkerFail, FailJob, WorkerReschedule,
                        RescheduleJob, Release, Goto
    <2>2. QED
      BY <1>1, <2>1 DEF JobStage, Intent, TimeoutLabels, FinalizeLabels, EvaluateLabels
  <1>7. CASE WorkerRescheduleLost(w)
    <2>1. /\ pc'[w] = "fail" /\ claim' = claim /\ run' = run
      BY <1>1, <1>7 DEF WorkerRescheduleLost, RescheduleReplyLost, Goto, store
    <2>2. QED
      BY <1>1, <2>1 DEF JobStage, Intent, TimeoutLabels, FinalizeLabels, EvaluateLabels
  <1>8. QED
    BY <1>2, <1>3, <1>4, <1>5, <1>6, <1>7

LEMMA OwnStage ==
    ASSUME RunsInv, Stages, NEW a \in Actors, Moves(a), CanEnter(run.state, run'.state)
    PROVE  (a \in Workers => JobStage(a)') /\ Intent(a)'
  <1>1. CASE EnqueueCall(a)
    <2>1. UNCHANGED <<pc, run, claim, seen, row>>
      BY <1>1 DEF EnqueueCall, EnqueueProgress, EnqueueFind, EnqueueBump, EnqueueInsert,
                  EnqueueRefind, store, memory
    <2>2. QED
      BY <2>1 DEF Stages, JobStage, Intent
  <1>2. CASE RequestMoves(a)
    BY <1>2, RequestIntent, ActorFacts DEF RequestMoves
  <1>3. CASE CallMoves(a)
    BY <1>3, CallIntent, ActorFacts DEF CallMoves
  <1>4. CASE WorkerMoves(a)
    BY <1>4, LookStage, ReadStage, WriteStage, OtherStage DEF WorkerMoves, WorkerStep
  <1>5. QED
    BY <1>1, <1>2, <1>3, <1>4 DEF Moves

LEMMA MoveKeepsStages ==
    ASSUME RunsInv, Stages, NEW a \in Actors, Moves(a), CanEnter(run.state, run'.state)
    PROVE  Stages'
  <1>1. VersionKept \/ (run'.state = "finalizing" => run.state # "finalizing")
    BY VersionSteps DEF NewVersion
  <1>2. ASSUME NEW x \in Actors
        PROVE  (x \in Workers => JobStage(x)') /\ Intent(x)' /\ AsksAfterEvidence(x)'
    <2>1. CASE x = a
      BY <2>1, OwnStage, AskingStage
    <2>2. CASE x # a
      BY <1>1, <2>2, OneMoves, KeptStage
    <2>3. QED
      BY <2>1, <2>2
  <1>3. QED
    BY <1>2, EvaluateStage, ActorFacts DEF Stages

LEMMA SurroundingsKeepStages ==
    ASSUME RunsInv, Stages,
           (\E k \in Keys : LeaseRunsOut(k)) \/ ClockTick \/ UNCHANGED vars
    PROVE  Stages'
  <1>1. UNCHANGED <<pc, run, claim, seen, row, enq>>
    BY DEF LeaseRunsOut, LeaseExpires, ClockTick, Tick, store, memory, vars
  <1>2. \A k \in Keys : jobs'[k].status = jobs[k].status
    BY DEF LeaseRunsOut, LeaseExpires, ClockTick, Tick, vars, RunsInv, TypeOK, JobsTypeOK, Job
  <1>3. "evaluate" \in Keys
    BY ActorFacts DEF JobKinds
  <1>4. QED
    BY <1>1, <1>2, <1>3 DEF Stages, JobStage, Intent, AsksAfterEvidence,
                            EvaluatesAfterEvidence

----------------------------------------------------------------------------
(* Unless a process stops or a database call of a job fails, a run that is  *)
(* not terminal always has somebody who will take it on, for any number of  *)
(* workers, requests, calls, keys' rows and attempts, lost leases, lost     *)
(* answers and compare-and-set conflicts.                                   *)
THEOREM RunsAreWatched ==
    ASSUME NothingStops
    PROVE  Spec => []NeverForgotten
  <1> DEFINE Inv == RunsInv /\ Stages /\ Watched
  <1>1. Init => Stages /\ Watched
    <2> SUFFICES ASSUME Init PROVE Stages /\ Watched
      OBVIOUS
    <2>1. Watched
      <3>1. run.state = "created" /\ jobs["timeout"].status = "pending"
        BY ActorFacts DEF Init, NewRun, NewRow, JobKinds
      <3>2. QED
        BY <3>1 DEF Watched, Early, Live
    <2>2. \A w \in Workers : JobStage(w)
      <3>1. \A w \in Workers : pc[w] = "idle" /\ claim[w] = NoClaim
        BY ActorFacts DEF Init
      <3>2. QED
        BY <3>1 DEF JobStage, TimeoutLabels, FinalizeLabels, EvaluateLabels
    <2>3. \A a \in Actors : Intent(a) /\ AsksAfterEvidence(a)
      <3>1. \A a \in Actors : pc[a] \in {"idle", "ready"} /\ enq[a].step = "idle"
        BY ActorFacts DEF Init, NoRequest
      <3>2. QED
        BY <3>1 DEF Intent, AsksAfterEvidence
    <2>4. EvaluatesAfterEvidence
      BY ActorFacts DEF Init, EvaluatesAfterEvidence, JobKinds, NoRow
    <2>5. QED
      BY <2>1, <2>2, <2>3, <2>4 DEF Stages
  <1>2. Inv /\ [Next]_vars => Inv'
    <2> SUFFICES ASSUME Inv, [Next]_vars PROVE Inv'
      OBVIOUS
    <2>1. RunsInv'
      BY RunsStep
    <2>2. CanEnter(run.state, run'.state)
      BY StoreSteps DEF StoreStep, store, CanEnter
    <2>3. \/ \E a \in Actors : Moves(a)
          \/ (\E k \in Keys : LeaseRunsOut(k)) \/ ClockTick \/ UNCHANGED vars
      BY ActorFacts, NothingStops
         DEF Next, NothingStops, Moves, RequestMoves, CallMoves, WorkerMoves, WorkerCrash,
             WorkerError, RequestCrash
    <2>4. Stages' /\ Watched'
      BY <2>2, <2>3, MoveKeepsStages, MoveKeepsWatch, SurroundingsKeepStages,
         SurroundingsKeepWatch
    <2>5. QED
      BY <2>1, <2>4
  <1>3. Inv => NeverForgotten
    <2> SUFFICES ASSUME RunsInv, Watched PROVE NeverForgotten
      OBVIOUS
    <2>1. Workers \subseteq Actors /\ Batches \subseteq Actors /\ Keys = JobKinds
      BY ActorFacts
    <2>2. \A k \in Keys : Awaited(k) => NeverForgotten
      BY DEF Awaited, Enqueuing, NeverForgotten, Resting
    <2>3. \A w \in Workers : Failing(w) \/ Freezing(w) \/ Concluding(w) => NeverForgotten
      BY <2>1 DEF Failing, Freezing, Concluding, NeverForgotten, Resting
    <2>4. \A b \in Batches : Merging(b) => NeverForgotten
      BY <2>1 DEF Merging, NeverForgotten, Resting
    <2>5. QED
      BY <2>1, <2>2, <2>3, <2>4 DEF Watched, Awaited, NeverForgotten, JobKinds
  <1>4. QED
    BY RunsInit, <1>1, <1>2, <1>3, PTL DEF Spec
==============================================================================
