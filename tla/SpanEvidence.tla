----------------------------- MODULE SpanEvidence ------------------------------
(****************************************************************************)
(* The judgement of one correlated run: the spans that were stored for it,  *)
(* the completion that closed it, the evidence bundle made of them and the  *)
(* verdict of the pinned rules on that bundle.  Composes the normalization, *)
(* order and quality of TraceEvidence with Evaluator.  When and how often   *)
(* the steps happen is the business of EvaluationRuns; here is what they    *)
(* compute.                                                                 *)
(****************************************************************************)
EXTENDS TraceEvidence, Evaluator

CONSTANTS
    Exported,     \* the spans instrumented code may export, ranks of identities
    Contents,     \* what they may hold: functions from Exported to span records
    Completions,  \* [reason, state]: how a run may be closed
    Rules         \* the rules of the pinned pack, in order

(* Spans are ranks of identities, and their clocks can be compared.         *)
EvidenceAssumption ==
    /\ Exported \subseteq Int /\ IsFiniteSet(Exported) /\ None \notin Exported
    /\ \A c \in Contents :
        /\ DOMAIN c = Exported
        /\ \A s \in Exported : c[s].started \in Int
    /\ Rules \in Seq(Range(Rules))
    /\ \A r \in DOMAIN Rules : RuleOK(Rules[r])

VARIABLES
    content,     \* what the instrumented code exports
    stored,      \* the spans stored for the run while it was open
    completion,  \* the completion, or None
    evidence,    \* the bundle, or None
    summary      \* the evaluation summary, or None

judgedVars == <<content, stored, completion, evidence, summary>>

JudgeInit ==
    /\ content \in Contents
    /\ stored = {}
    /\ completion = None
    /\ evidence = None
    /\ summary = None

(* Spans arrive in any order, a child before its parent included. *)
Store(s) ==
    /\ completion = None
    /\ s \notin stored
    /\ stored' = stored \cup {s}
    /\ UNCHANGED <<content, completion, evidence, summary>>

Close(c) ==
    /\ completion = None
    /\ completion' = c
    /\ UNCHANGED <<content, stored, evidence, summary>>

Bundle(S, c) == FinalizeObservedSpans(Restrict(content, S), c.reason, c.state)

Finalize ==
    /\ completion # None
    /\ evidence = None
    /\ evidence' = Bundle(stored, completion)
    /\ UNCHANGED <<content, stored, completion, summary>>

Evaluate ==
    /\ evidence # None
    /\ summary = None
    /\ summary' = EvaluatePack(Rules, evidence)
    /\ UNCHANGED <<content, stored, completion, evidence>>

JudgeNext ==
    \/ \E s \in Exported : Store(s)
    \/ \E c \in Completions : Close(c)
    \/ Finalize
    \/ Evaluate

JudgeSpec == JudgeInit /\ [][JudgeNext]_judgedVars

-----------------------------------------------------------------------------
(* Properties. *)

Statuses == {"pass"} \cup MissingEvidence

(* Type invariant. *)
SpanEvidenceTypeOK ==
    /\ stored \subseteq Exported
    /\ completion \in Completions \cup {None}
    /\ evidence # None =>
        /\ evidence.quality \in {"complete", "degraded", "insufficient"}
        /\ {evidence.events[i].id : i \in DOMAIN evidence.events} = stored
        /\ Len(evidence.events) = Cardinality(stored)
        /\ \A i \in DOMAIN evidence.events : evidence.events[i].type \in EventTypes
    /\ summary # None =>
        /\ \A i \in DOMAIN summary.results : summary.results[i].status \in Statuses
        /\ summary.passed + summary.failed + summary.inconclusive = Len(Rules)

(* One span led to the other, through parents and links of stored spans.    *)
CausallyBefore(a, b) ==
    /\ a # b
    /\ \A S \in SUBSET stored :
        (b \in S /\ \A s \in S : CausesOf(Restrict(content, stored), s) \subseteq S) => a \in S

RequiredBefore(rule) ==
    {rule.assertions[j].matcher :
        j \in {j \in DOMAIN rule.assertions : rule.assertions[j].kind = "exists_before"}}

(* An approval that the tool call itself caused never counts as an approval *)
(* before it, whatever the clocks of the two services said.                 *)
ApprovalNotAfterwards ==
    summary # None =>
        \A r \in DOMAIN Rules : summary.results[r].status = "pass" =>
            \A t \in Triggers(Rules[r], evidence) : \A m \in RequiredBefore(Rules[r]) :
                \E i \in Matching(m, evidence) :
                    ~CausallyBefore(evidence.events[t].id, evidence.events[i].id)

(* An approval that led to every triggering call counts, whatever the       *)
(* clocks said: a rule that asks for nothing else does not fail.            *)
CausalApprovalCounts ==
    summary # None =>
        \A r \in DOMAIN Rules :
            (/\ ~EvidenceMissing(Rules[r], evidence)
             /\ \A j \in DOMAIN Rules[r].assertions :
                    Rules[r].assertions[j].kind = "exists_before"
             /\ \A t \in Triggers(Rules[r], evidence) : \A m \in RequiredBefore(Rules[r]) :
                \E i \in Matching(m, evidence) :
                    CausallyBefore(evidence.events[i].id, evidence.events[t].id))
            => summary.results[r].status = "pass"

(* A rule is kept by a bundle: enough evidence, and every assertion at      *)
(* every trigger.  No order of checks, no early return.                     *)
Kept(rule, ev) ==
    /\ ~EvidenceMissing(rule, ev)
    /\ \A t \in Triggers(rule, ev) : \A j \in DOMAIN rule.assertions :
            Outcome(rule.assertions[j], t, ev) = "pass"

Broken(rule, ev) ==
    /\ ~EvidenceMissing(rule, ev)
    /\ \E t \in Triggers(rule, ev) : \E j \in DOMAIN rule.assertions :
            Outcome(rule.assertions[j], t, ev) = "fail"

(* The verdict is justified by the bundle as a whole: PASS only when every  *)
(* blocking rule is kept, FAIL only when one is broken or fails for want of *)
(* evidence by its own policy.                                              *)
VerdictJustified ==
    summary # None =>
        LET blocking == {r \in DOMAIN Rules : Blocking(Rules[r].severity)}
        IN  /\ summary.verdict = "PASS" => \A r \in blocking : Kept(Rules[r], evidence)
            /\ summary.verdict = "FAIL" =>
                    \E r \in blocking : \/ Broken(Rules[r], evidence)
                                        \/ /\ ~Kept(Rules[r], evidence)
                                           /\ Rules[r].on_missing_evidence = "fail"

(* A trace that is not sufficient - cut off by a timeout, empty, without a  *)
(* root, or with a causal cycle - never yields PASS, as long as one rule    *)
(* does not turn missing evidence into a failure that blocks nothing.       *)
InsufficientNeverPasses ==
    /\ summary # None
    /\ \/ completion.reason \in {"idle_timeout", "max_duration"}
       \/ stored = {}
       \/ \E s, t \in stored : CausallyBefore(s, t) /\ CausallyBefore(t, s)
       \/ \A s \in stored : content[s].parent \in stored
    /\ \E r \in DOMAIN Rules : \/ Blocking(Rules[r].severity)
                               \/ Rules[r].on_missing_evidence # "fail"
    => summary.verdict # "PASS"

(* A prohibited event that was seen, or seen too often, at a trigger.       *)
ProhibitedSeen(rule, ev) ==
    /\ Triggers(rule, ev) # {}
    /\ \E j \in DOMAIN rule.assertions :
        /\ rule.assertions[j].kind \in {"absent", "max_count"}
        /\ \A t \in Triggers(rule, ev) : Outcome(rule.assertions[j], t, ev) = "fail"

(* More evidence never turns a prohibited event into a pass: whatever spans *)
(* are stored after it, and in whatever order they are put, a rule that was *)
(* broken by what happened stays unpassed.                                  *)
ViolationNeverForgiven ==
    [][\A c \in Completions :
        \A before \in {Bundle(stored, c)} : \A after \in {Bundle(stored', c)} :
            \A r \in DOMAIN Rules :
                ProhibitedSeen(Rules[r], before)
                    => EvaluateRule(Rules[r], after).status # "pass"]_judgedVars

(* A failure that was observed cites its evidence: a trigger and, for a     *)
(* prohibited event, the event; all of them events of the bundle.           *)
FailureCited ==
    summary # None =>
        \A r \in DOMAIN Rules :
            LET res == summary.results[r]
            IN  /\ res.cited \subseteq DOMAIN evidence.events
                /\ res.status = "fail" /\ Broken(Rules[r], evidence) =>
                    \/ res.cited \cap Triggers(Rules[r], evidence) # {}
                    \/ Rules[r].on_missing_evidence = "fail" /\ res.cited = {}
                /\ (/\ res.status = "fail" /\ ProhibitedSeen(Rules[r], evidence)
                    /\ Len(Rules[r].assertions) = 1 /\ res.cited # {})
                   => \E i \in res.cited :
                        Matches(evidence.events[i], Rules[r].assertions[1].matcher)
================================================================================
