--------------------------- MODULE EvidenceContract ---------------------------
(****************************************************************************)
(* What an evaluation run promises whoever reads its result, with no word   *)
(* of jobs, workers, time stamps or retries: spans are accepted until the   *)
(* run is closed, the evidence is published once and is exactly what was    *)
(* accepted, one verdict is given on that evidence, and a run completes     *)
(* only with a verdict.  A run may be abandoned at any point before that;   *)
(* work already under way may still publish or judge afterwards.            *)
(****************************************************************************)
CONSTANTS Spans, None

VARIABLES
    accepted,  \* the spans accepted so far
    open,      \* whether spans are still accepted
    evidence,  \* the published evidence, or None
    verdict,   \* the evidence the verdict was given on, or None
    outcome    \* "running", "completed" or "abandoned"

contractVars == <<accepted, open, evidence, verdict, outcome>>

Accept(s) ==
    /\ open
    /\ s \notin accepted
    /\ accepted' = accepted \cup {s}
    /\ UNCHANGED <<open, evidence, verdict, outcome>>

Close ==
    /\ open
    /\ open' = FALSE
    /\ UNCHANGED <<accepted, evidence, verdict, outcome>>

Publish ==
    /\ ~open
    /\ evidence = None
    /\ evidence' = accepted
    /\ UNCHANGED <<accepted, open, verdict, outcome>>

Judge ==
    /\ evidence # None
    /\ verdict = None
    /\ verdict' = evidence
    /\ UNCHANGED <<accepted, open, evidence, outcome>>

Complete ==
    /\ outcome = "running"
    /\ verdict # None
    /\ outcome' = "completed"
    /\ UNCHANGED <<accepted, open, evidence, verdict>>

Abandon ==
    /\ outcome = "running"
    /\ outcome' = "abandoned"
    /\ open' = FALSE
    /\ UNCHANGED <<accepted, evidence, verdict>>

ContractInit ==
    /\ accepted = {}
    /\ open = TRUE
    /\ evidence = None
    /\ verdict = None
    /\ outcome = "running"

ContractNext ==
    \/ \E s \in Spans : Accept(s)
    \/ Close \/ Publish \/ Judge \/ Complete \/ Abandon

ContractSpec == ContractInit /\ [][ContractNext]_contractVars
================================================================================
