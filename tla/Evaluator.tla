------------------------------- MODULE Evaluator -------------------------------
(****************************************************************************)
(* The deterministic evaluator: what evaluate_rule and evaluate_pack answer *)
(* for a rule or a pack and an evidence bundle.  There is no state here;    *)
(* SpanEvidence and InlineEvaluation evaluate the bundles they build.       *)
(*                                                                          *)
(* Evidence is [quality, terminal_state, events, ...].  events is in        *)
(* sequence order, so the index of an event is its sequence number.  JSON   *)
(* objects are functions from the keys that are present.                    *)
(****************************************************************************)
EXTENDS Rows, Naturals, Sequences, FiniteSets, Functions, FiniteSetsExt

Severities == {"critical", "high", "medium", "advisory"}
MissingEvidence == {"not_observable", "fail", "error"}
AssertionKinds == {"exists_before", "absent", "max_count", "terminal_state"}

(* What parsing leaves of a rule: a list of assertions of known kinds.      *)
RuleOK(rule) ==
    /\ rule.on_missing_evidence \in MissingEvidence
    /\ rule.assertions \in Seq(Range(rule.assertions))
    /\ \A j \in DOMAIN rule.assertions :
        /\ rule.assertions[j].kind \in AssertionKinds
        /\ rule.assertions[j].kind = "max_count" => rule.assertions[j].count \in Nat

-----------------------------------------------------------------------------
(* Matching. *)

(* numeric_argument: the value at the path exists, is a number, exceeds. *)
NumberAbove(e, m) ==
    \/ m.path = None
    \/ /\ m.path \in DOMAIN e.input
       /\ e.input[m.path] \in Nat
       /\ e.input[m.path] > m.above

Matches(e, m) ==
    /\ e.type = m.type
    /\ m.name \in {None, e.name}
    /\ \A k \in DOMAIN m.equals : k \in DOMAIN e.attrs /\ e.attrs[k] = m.equals[k]
    /\ NumberAbove(e, m)

Matching(m, ev) == {i \in DOMAIN ev.events : Matches(ev.events[i], m)}

(* The key of an event that names a terminal state: the first one present.  *)
StateKeys == <<"terminal_state", "run_terminal_state", "legacy_terminal_state">>

NamesState(e, state) ==
    \E i \in DOMAIN StateKeys :
        /\ StateKeys[i] \in DOMAIN e.attrs
        /\ \A j \in 1..(i - 1) : StateKeys[j] \notin DOMAIN e.attrs
        /\ e.attrs[StateKeys[i]] = state

StateMatches(state, ev) ==
    \/ ev.terminal_state = state
    \/ \E i \in DOMAIN ev.events : NamesState(ev.events[i], state)

(* has_required_evidence, the requirement already parsed. *)
HasEvidence(req, ev) ==
    CASE req.kind = "terminal_state" ->
            ev.terminal_state # None
      [] req.kind = "attribute" ->
            \E i \in DOMAIN ev.events :
                /\ req.key \in DOMAIN ev.events[i].attrs
                /\ req.value \in {None, ev.events[i].attrs[req.key]}
      [] req.kind = "path" ->
            \E i \in DOMAIN ev.events :
                /\ ev.events[i].type = req.type
                /\ req.key \in DOMAIN ev.events[i][req.side]
      [] req.kind = "name" ->
            \E i \in DOMAIN ev.events :
                ev.events[i].type = req.key \/ req.key \in DOMAIN ev.events[i].attrs

-----------------------------------------------------------------------------
(* One assertion of a rule at one trigger.  The trigger is an index. *)

\* Faulty variant of Outcome: an approval anywhere in the run counts.
OutcomeAnywhere(a, t, ev) ==
    CASE a.kind = "exists_before" ->
            IF Matching(a.matcher, ev) # {} THEN "pass" ELSE "fail"
      [] a.kind = "absent" ->
            IF Matching(a.matcher, ev) = {} THEN "pass" ELSE "fail"
      [] a.kind = "max_count" ->
            IF Cardinality(Matching(a.matcher, ev)) <= a.count THEN "pass" ELSE "fail"
      [] a.kind = "terminal_state" ->
            IF ev.events[t].ended = "no" THEN "not_observable"
            ELSE IF StateMatches(a.state, ev) THEN "pass" ELSE "fail"

\* Faulty variant of Outcome: prohibited events count up to the trigger only.
OutcomeAbsentBefore(a, t, ev) ==
    CASE a.kind = "exists_before" ->
            IF \E i \in Matching(a.matcher, ev) : i < t THEN "pass" ELSE "fail"
      [] a.kind = "absent" ->
            IF ~\E i \in Matching(a.matcher, ev) : i < t THEN "pass" ELSE "fail"
      [] a.kind = "max_count" ->
            IF Cardinality(Matching(a.matcher, ev)) <= a.count THEN "pass" ELSE "fail"
      [] a.kind = "terminal_state" ->
            IF ev.events[t].ended = "no" THEN "not_observable"
            ELSE IF StateMatches(a.state, ev) THEN "pass" ELSE "fail"

Outcome(a, t, ev) ==
    CASE a.kind = "exists_before" ->
            IF \E i \in Matching(a.matcher, ev) : i < t THEN "pass" ELSE "fail"
      [] a.kind = "absent" ->
            IF Matching(a.matcher, ev) = {} THEN "pass" ELSE "fail"
      [] a.kind = "max_count" ->
            IF Cardinality(Matching(a.matcher, ev)) <= a.count THEN "pass" ELSE "fail"
      [] a.kind = "terminal_state" ->
            IF ev.events[t].ended = "no" THEN "not_observable"
            ELSE IF StateMatches(a.state, ev) THEN "pass" ELSE "fail"

(* The events an assertion cites. *)
Cites(a, t, ev) ==
    CASE a.kind = "exists_before" ->
            LET before == {i \in Matching(a.matcher, ev) : i < t}
            IN IF before = {} THEN {} ELSE {Max(before)}
      [] a.kind \in {"absent", "max_count"} -> Matching(a.matcher, ev)
      [] a.kind = "terminal_state" ->
            IF Outcome(a, t, ev) = "pass" THEN {t} ELSE {}

-----------------------------------------------------------------------------
(* One rule. *)

Triggers(rule, ev) == Matching(rule.trigger, ev)

(* The checks of a rule, in the order of its two loops. *)
Checks(rule, ev) == Triggers(rule, ev) \X DOMAIN rule.assertions
NotAfter(c, d) == c[1] < d[1] \/ (c[1] = d[1] /\ c[2] <= d[2])
CheckOutcome(rule, c, ev) == Outcome(rule.assertions[c[2]], c[1], ev)

(* The first check that does not pass decides; none: the rule passes. *)
Deciding(rule, ev) ==
    {c \in Checks(rule, ev) :
        /\ CheckOutcome(rule, c, ev) # "pass"
        /\ \A d \in Checks(rule, ev) :
                CheckOutcome(rule, d, ev) # "pass" => NotAfter(c, d)}

EvidenceMissing(rule, ev) ==
    \/ ev.quality = "insufficient"
    \/ \E req \in rule.evidence_required : ~HasEvidence(req, ev)

CitedUpTo(rule, c, ev) ==
    {d[1] : d \in {d \in Checks(rule, ev) : NotAfter(d, c)}}
        \cup UNION {Cites(rule.assertions[d[2]], d[1], ev) :
                        d \in {d \in Checks(rule, ev) : NotAfter(d, c)}}

Result(rule, status, cited) ==
    [severity |-> rule.severity, status |-> status, cited |-> cited]

MissingEvidenceResult(rule) == Result(rule, rule.on_missing_evidence, {})

\* Faulty variant of EvaluateRule: a rule that was not triggered passes first.
EvaluateRuleTriggerFirst(rule, ev) ==
    IF Triggers(rule, ev) = {} THEN Result(rule, "pass", {})
    ELSE IF EvidenceMissing(rule, ev) THEN MissingEvidenceResult(rule)
    ELSE IF Deciding(rule, ev) = {} THEN Result(rule, "pass", Triggers(rule, ev))
    ELSE Result(rule, "fail", {})

EvaluateRule(rule, ev) ==
    IF EvidenceMissing(rule, ev) THEN MissingEvidenceResult(rule)
    ELSE IF Deciding(rule, ev) = {}
         THEN Result(rule, "pass",
                     Triggers(rule, ev)
                       \cup UNION {Cites(rule.assertions[c[2]], c[1], ev) :
                                        c \in Checks(rule, ev)})
    ELSE LET c == CHOOSE c \in Deciding(rule, ev) : TRUE
         IN  IF CheckOutcome(rule, c, ev) = "not_observable"
             THEN MissingEvidenceResult(rule)
             ELSE Result(rule, "fail", CitedUpTo(rule, c, ev))

-----------------------------------------------------------------------------
(* A pack. *)

Blocking(severity) == severity \in {"critical", "high"}

Verdict(results) ==
    IF \E i \in DOMAIN results : results[i].status = "fail" /\ Blocking(results[i].severity)
    THEN "FAIL"
    ELSE IF \E i \in DOMAIN results : results[i].status \notin {"pass", "fail"}
    THEN "INCONCLUSIVE"
    ELSE "PASS"

EvaluatePack(rules, ev) ==
    LET results == [i \in DOMAIN rules |-> EvaluateRule(rules[i], ev)]
        passed == Cardinality({i \in DOMAIN results : results[i].status = "pass"})
        failed == Cardinality({i \in DOMAIN results : results[i].status = "fail"})
    IN  [results |-> results,
         verdict |-> Verdict(results),
         passed |-> passed,
         failed |-> failed,
         inconclusive |-> Len(rules) - (passed + failed)]
================================================================================
