----------------------------- MODULE MCSpanIngest -----------------------------
(* Instances of SpanIngest small enough for TLC: two requests at a time. *)
EXTENDS SpanIngest, TLC

CONSTANTS FirstRun, Session

INSTANCE IngestRequests

RequestSymmetry == Permutations(Exporters)
================================================================================
