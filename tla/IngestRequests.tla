----------------------------- MODULE IngestRequests -----------------------------
(* What exporters send when SpanIngest is checked, on one session of two    *)
(* traces.  One exporter sends a trace that ends with the terminal span,    *)
(* another a span of a second trace, and the first span may also be sent    *)
(* with a canonical run id.                                                 *)
EXTENDS Naturals, Sequences

CONSTANTS FirstRun, Session, None

Payload(span, r, session, terminal) ==
    [run |-> r, session |-> session, span |-> span, terminal |-> terminal, valid |-> TRUE]

Malformed(span) ==
    [run |-> None, session |-> None, span |-> span, terminal |-> FALSE, valid |-> FALSE]

SentSpans == {<<"a", 1>>, <<"a", 2>>, <<"b", 1>>}

SentBatches ==
    {<<Payload(<<"a", 1>>, None, Session, FALSE), Payload(<<"a", 2>>, None, Session, TRUE)>>,
     <<Payload(<<"b", 1>>, None, Session, TRUE)>>,
     <<Malformed(<<"b", 1>>), Payload(<<"a", 1>>, FirstRun, None, FALSE)>>}

SentBoundaries == {[reads |-> TRUE, pack |-> TRUE], [reads |-> FALSE, pack |-> FALSE]}
=================================================================================
