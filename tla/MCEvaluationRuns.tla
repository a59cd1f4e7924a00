--------------------------- MODULE MCEvaluationRuns ---------------------------
(* Instances of the run lane small enough for TLC. *)
EXTENDS EvaluationRuns, TLC

CONSTANTS b1, b2, c1, c2, s1, s2

AllCompletions == {"terminal_event", "idle_timeout", "max_duration", "explicit"}

(* One request with a plain span, one with the terminal span. *)
TwoBatches == b1 :> <<s1>> @@ b2 :> <<s2>>

(* One request that carries both. *)
OneBatch == b1 :> <<s1, s2>>

(* The terminal span comes first. *)
TerminalFirst == b1 :> <<s2, s1>>

NoBatches == <<>>

ExplicitCalls == [c \in Calls |-> "explicit"]

OneSecondCalls == [c \in Calls |-> 1]

WorkerSymmetry == Permutations(Workers)

(* Bound: two faults, or one lease lost by a worker that is alive.          *)
OneTrouble == faults + 2 * slow <= 2
================================================================================
