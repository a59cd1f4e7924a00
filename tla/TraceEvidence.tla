----------------------------- MODULE TraceEvidence -----------------------------
(****************************************************************************)
(* From spans or target observations to an evidence bundle: normalization,  *)
(* trace quality and redaction, as governance-telemetry does it, over the   *)
(* order of SpanGraph.  Definitions only.                                   *)
(*                                                                          *)
(* A span is [parent, links, started, ended, name, attrs, resource]; attrs  *)
(* and resource are functions from the attribute keys present.  The content *)
(* of governance.input and governance.output is kept parsed.                *)
(****************************************************************************)
EXTENDS SpanGraph

CONSTANTS
    Outside,    \* a parent or link that names a span outside the run
    Allowlist,  \* attribute keys the redaction policy lets through
    Sensitive   \* attribute keys that contain a secret-like fragment

EventTypes ==
    {"scenario_input", "agent_start", "model_call", "model_result", "tool_call",
     "tool_result", "retrieval", "human_approval_request", "human_approval_decision",
     "guardrail_decision", "handoff", "side_effect", "retry", "error", "timeout",
     "cancellation", "final_output", "unclassified"}

-----------------------------------------------------------------------------
(* Redaction. *)

Redacted(attrs, allowed) == Restrict(attrs, (DOMAIN attrs \cap allowed) \ Sensitive)

(* At finalization every attribute that was stored is let through again.    *)
FinalizationAllowed(spans) ==
    Allowlist \cup UNION {DOMAIN spans[s].attrs \cup DOMAIN spans[s].resource : s \in DOMAIN spans}

(* Span attributes over resource defaults. *)
Merged(span) ==
    [k \in DOMAIN span.attrs \cup DOMAIN span.resource |->
        IF k \in DOMAIN span.attrs THEN span.attrs[k] ELSE span.resource[k]]

-----------------------------------------------------------------------------
(* Normalized events. *)

(* The explicit type wins over the legacy key, which is not consulted when  *)
(* the explicit one does not parse; then the span kind, then the operation. *)
InferEventType(attrs) ==
    LET named == IF "event_type" \in DOMAIN attrs THEN attrs["event_type"]
                 ELSE IF "legacy_event_type" \in DOMAIN attrs THEN attrs["legacy_event_type"]
                 ELSE None
        kind == IF "span_kind" \in DOMAIN attrs THEN attrs["span_kind"] ELSE None
    IN  CASE named \in EventTypes -> named
          [] named \notin EventTypes /\ kind = "TOOL" -> "tool_call"
          [] named \notin EventTypes /\ kind = "LLM" -> "model_call"
          [] named \notin EventTypes /\ kind = "RETRIEVER" -> "retrieval"
          [] named \notin EventTypes /\ kind = "GUARDRAIL" -> "guardrail_decision"
          [] named \notin EventTypes /\ kind \in {"AGENT", "CHAIN"} -> "agent_start"
          [] OTHER -> IF /\ "operation" \in DOMAIN attrs
                         /\ attrs["operation"] \in {"invoke_agent", "invoke_workflow"}
                      THEN "agent_start" ELSE "unclassified"

Without(f, keys) == Restrict(f, DOMAIN f \ keys)
NoFields == [k \in {} |-> None]
Field(attrs, key) == IF key \in DOMAIN attrs THEN attrs[key] ELSE NoFields

(* A stored span has a correlation that parses, or ingest would have        *)
(* refused it, so that invalid_correlation is no defect here.               *)
NormalizeSpans(spans) ==
    LET order == SpanOrder(spans)
        allowed == FinalizationAllowed(spans)
    IN  [i \in DOMAIN order |->
            LET s == order[i]
                attrs == Redacted(Merged(spans[s]), allowed)
            IN  [id |-> s,
                 parent |-> IF spans[s].parent \in DOMAIN spans THEN spans[s].parent ELSE None,
                 links |-> spans[s].links \cap DOMAIN spans,
                 type |-> InferEventType(attrs),
                 name |-> IF "tool_name" \in DOMAIN attrs THEN attrs["tool_name"]
                          ELSE spans[s].name,
                 ended |-> spans[s].ended,
                 attrs |-> Without(attrs, {"input", "output"}),
                 input |-> Field(attrs, "input"),
                 output |-> Field(attrs, "output")]]

(* Observations of an inline target: the first is the root of the others.   *)
NormalizeObservations(observations) ==
    [i \in DOMAIN observations |->
        [id |-> i,
         parent |-> IF i = 1 THEN None ELSE 1,
         links |-> {},
         type |-> observations[i].type,
         name |-> observations[i].name,
         ended |-> "yes",
         attrs |-> Redacted(observations[i].attrs, Allowlist),
         input |-> observations[i].input,
         output |-> observations[i].output]]

-----------------------------------------------------------------------------
(* Trace quality. *)

BlockingDefects ==
    {"empty_trace", "missing_root", "missing_terminal", "causal_cycle",
     "forced_timeout", "non_terminal"}

AssessTraceQuality(events) ==
    (IF events = <<>> THEN {"empty_trace"} ELSE {})
    \cup (IF \E i \in DOMAIN events : events[i].parent = None
          THEN {} ELSE {"missing_root"})
    \cup (IF \E i \in DOMAIN events : events[i].type = "final_output"
          THEN {} ELSE {"missing_terminal"})
    \cup {"negative_duration" : i \in {i \in DOMAIN events : events[i].ended = "before_start"}}

QualityOf(defects) ==
    IF defects \cap BlockingDefects # {} THEN "insufficient"
    ELSE IF defects = {} THEN "complete" ELSE "degraded"

(* finalize_evidence: the bundle of an inline run. *)
FinalizeEvidence(state, events, extra) ==
    LET defects == AssessTraceQuality(events) \cup extra
    IN  [events |-> events, terminal_state |-> state,
         reason |-> IF state = None THEN None ELSE "target_terminal_response",
         defects |-> defects, quality |-> QualityOf(defects)]

\* Faulty variant of CompletionDefects: a timeout counts as a completion.
CompletionDefectsTimeout(reason, defects) == defects \ {"missing_terminal"}

(* A run that was completed needs no final output; one that timed out is    *)
(* never sufficient.                                                        *)
CompletionDefects(reason, defects) ==
    CASE reason \in {"explicit", "terminal_event", "target_terminal_response"} ->
            defects \ {"missing_terminal"}
      [] reason \in {"idle_timeout", "max_duration"} -> defects \cup {"forced_timeout"}
      [] OTHER -> defects

(* finalize_observed_spans: the bundle of a correlated run. *)
FinalizeObservedSpans(spans, reason, state) ==
    LET events == NormalizeSpans(spans)
        defects == CompletionDefects(reason,
                        CausalDefects(spans) \cup AssessTraceQuality(events))
    IN  [events |-> events, terminal_state |-> state, reason |-> reason,
         defects |-> defects, quality |-> QualityOf(defects)]
================================================================================
