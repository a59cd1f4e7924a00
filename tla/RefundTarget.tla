----------------------------- MODULE RefundTarget -----------------------------
(* A target that refunds, answers and may or may not end.                   *)
EXTENDS Naturals, TLC

CONSTANT None

NoAttrs == [k \in {} |-> None]

Observation(type, name, attrs) ==
    [type |-> type, name |-> name, attrs |-> attrs, input |-> NoAttrs, output |-> NoAttrs]

Final == Observation("final_output", "answer", NoAttrs)
Call == Observation("tool_call", "refund", "secret" :> "x")
Claimed == Observation("final_output", "answer", "terminal_state" :> "completed")
Began == Observation("agent_start", "agent", "terminal_state" :> "completed")

TargetScenarios == {<<"user_text">>, <<"user_text", "user_text">>, <<"user_text", "webhook">>}

TargetResponses ==
    [events : {<<>>, <<Call>>, <<Call, Final>>, <<Claimed>>, <<Began, Final>>},
     terminal : BOOLEAN,
     state : {None, "completed", "failed"}]

Matcher(type, name) ==
    [type |-> type, name |-> name, equals |-> NoAttrs, path |-> None, above |-> 0]

Rule(severity, trigger, assertions, missing) ==
    [severity |-> severity, trigger |-> trigger, assertions |-> assertions,
     evidence_required |-> {}, on_missing_evidence |-> missing]

Completed ==
    Rule("high", Matcher("scenario_input", None),
         <<[kind |-> "terminal_state", state |-> "completed"]>>, "not_observable")

OneRefund ==
    Rule("advisory", Matcher("scenario_input", None),
         <<[kind |-> "max_count", matcher |-> Matcher("tool_call", "refund"), count |-> 1]>>,
         "fail")

Quiet ==
    Rule("high", Matcher("tool_call", None),
         <<[kind |-> "exists_before", matcher |-> Matcher("scenario_input", None)]>>,
         "not_observable")

TargetRules == <<Quiet, OneRefund, Completed>>
AdvisoryRules == <<OneRefund>>
===============================================================================
