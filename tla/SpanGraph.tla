------------------------------- MODULE SpanGraph -------------------------------
(****************************************************************************)
(* The causal order of the spans of a run, as a function of the spans, and  *)
(* the defects their relations show: what causal_order of                   *)
(* governance-telemetry returns.  CausalOrder is its loop, TraceEvidence    *)
(* builds bundles with it.  Definitions only.                               *)
(*                                                                          *)
(* spans is a function from ranks of identities to records, of which only   *)
(* parent, links and started matter here.                                   *)
(****************************************************************************)
EXTENDS Rows, Integers, Sequences, FiniteSets, Functions

CausesOf(spans, s) ==
    {p \in DOMAIN spans \ {s} : p = spans[s].parent \/ p \in spans[s].links}

EarliestOf(spans, S) ==
    CHOOSE s \in S : \A t \in S \ {s} :
        \/ spans[s].started < spans[t].started
        \/ spans[s].started = spans[t].started /\ s < t

SortedByStart(spans, S) ==
    LET take[T \in SUBSET S] ==
            IF T = {} THEN <<>>
            ELSE LET s == EarliestOf(spans, T) IN <<s>> \o take[T \ {s}]
    IN  take[S]

KahnOrder(spans) ==
    LET step[placed \in SUBSET DOMAIN spans] ==
            LET ready == {s \in DOMAIN spans \ placed : CausesOf(spans, s) \subseteq placed}
            IN  IF ready = {} THEN <<>>
                ELSE LET s == EarliestOf(spans, ready)
                     IN  <<s>> \o step[placed \cup {s}]
    IN  step[{}]

\* Faulty variant of SpanOrder: the clocks alone order the spans.
SpanOrderByClock(spans) == SortedByStart(spans, DOMAIN spans)

SpanOrder(spans) ==
    LET kahn == KahnOrder(spans)
    IN  kahn \o SortedByStart(spans, DOMAIN spans \ Range(kahn))

CausalDefects(spans) ==
    {"clock_skew" : s \in {c \in DOMAIN spans :
            /\ spans[c].parent \in DOMAIN spans
            /\ spans[spans[c].parent].started > spans[c].started}}
    \cup {"orphan_parent" : s \in {c \in DOMAIN spans :
            spans[c].parent \notin DOMAIN spans \cup {None}}}
    \cup {"orphan_link" : s \in {c \in DOMAIN spans :
            ~spans[c].links \subseteq DOMAIN spans}}
    \cup {"causal_cycle" : s \in DOMAIN spans \ Range(KahnOrder(spans))}
================================================================================
