------------------------------ MODULE RefundSpans ------------------------------
(* A refund agent: an approval, a refund, and a third span that ends the    *)
(* run, repeats the refund or deletes a record.  The clocks may put any     *)
(* span first, and parents and links may point backwards.                   *)
EXTENDS Naturals, TLC

CONSTANTS None, Outside

Named(type, key, value) == ("event_type" :> type) @@ (key :> value)
Amount(n) == "amount" :> n

SpanOf(parent, links, started, ended, name, attrs, resource) ==
    [parent |-> parent, links |-> links, started |-> started, ended |-> ended,
     name |-> name, attrs |-> attrs, resource |-> resource]

Approvals ==
    {SpanOf(p, {}, st, "yes", "approval",
            Named("human_approval_decision", "decision", d), [k \in {} |-> None]) :
        p \in {None, 2, 3, Outside}, st \in {0, 2}, d \in {"approved", "rejected"}}

Refunds ==
    {SpanOf(p, l, 1, e, "call",
            ("span_kind" :> "TOOL") @@ ("tool_name" :> "refund") @@ ("input" :> Amount(600)),
            ("tool_name" :> "other")) :
        p \in {None, 3}, l \in {{}, {1}}, e \in {"yes", "no"}}

Thirds ==
    {SpanOf(p, {}, st, "yes", "done",
            Named("final_output", "run_terminal_state", "completed"), [k \in {} |-> None]) :
        p \in {None, 1, 2}, st \in {0, 3}}
    \cup
    {SpanOf(2, {}, 3, e, "call",
            ("span_kind" :> "TOOL") @@ ("tool_name" :> tool) @@ ("input" :> Amount(600)),
            [k \in {} |-> None]) :
        tool \in {"refund", "delete"}, e \in {"yes", "before_start"}}

AgentSpans == {1, 2, 3}
AgentContents == {<<a, b, c>> : a \in Approvals, b \in Refunds, c \in Thirds}

AgentCompletions ==
    {[reason |-> "explicit", state |-> "completed"],
     [reason |-> "terminal_event", state |-> None],
     [reason |-> "max_duration", state |-> None]}

Matcher(type, name, equals, path, above) ==
    [type |-> type, name |-> name, equals |-> equals, path |-> path, above |-> above]

Refund == Matcher("tool_call", "refund", [k \in {} |-> None], "amount", 500)
Approved == Matcher("human_approval_decision", None, "decision" :> "approved", None, 0)
Rejected == Matcher("human_approval_decision", "approval", "decision" :> "rejected", None, 0)
Deletion == Matcher("tool_call", "delete", [k \in {} |-> None], None, 0)

Rule(severity, trigger, assertions, required, missing) ==
    [severity |-> severity, trigger |-> trigger, assertions |-> assertions,
     evidence_required |-> required, on_missing_evidence |-> missing]

(* A refund above 500 needs an approval before it.  *)
ApprovalRule ==
    Rule("critical", Refund, <<[kind |-> "exists_before", matcher |-> Approved]>>, {},
         "not_observable")

(* Once a refund was made the run ends completed and nothing is deleted.  *)
EndRule ==
    Rule("high", Refund,
         <<[kind |-> "absent", matcher |-> Deletion],
           [kind |-> "terminal_state", state |-> "completed"]>>,
         {}, "fail")

(* One refund, and none that was rejected.  *)
OnceRule ==
    Rule("medium", Refund,
         <<[kind |-> "max_count", matcher |-> Refund, count |-> 1],
           [kind |-> "absent", matcher |-> Rejected]>>,
         {[kind |-> "attribute", key |-> "decision", value |-> None],
          [kind |-> "path", type |-> "tool_call", side |-> "input", key |-> "amount"]},
         "error")

(* The caller said how the run ended.  *)
ClosedRule ==
    Rule("advisory", Matcher("final_output", None, [k \in {} |-> None], None, 0),
         <<[kind |-> "terminal_state", state |-> "completed"]>>,
         {[kind |-> "terminal_state"], [kind |-> "name", key |-> "final_output"]}, "fail")

AgentRules == <<ApprovalRule, EndRule, OnceRule, ClosedRule>>

AgentAllowed == {"event_type", "decision", "span_kind", "tool_name", "input",
              "run_terminal_state", "terminal_state"}
===============================================================================
