------------------------------ MODULE CommandLine ------------------------------
(****************************************************************************)
(* gov-eval, the client a pipeline calls: starting a run, completing it and *)
(* waiting for its result with a deadline, retries and polls, reporting a   *)
(* verdict it gets at once, and the exit code each of them ends with        *)
(* (apps/gov-eval, main.rs); and the evaluation request of the API, which   *)
(* reads a run and its summary in statements of their own (loco_app.rs).    *)
(*                                                                          *)
(* The run is what EvaluationRuns makes of it, told by its lifecycle: it    *)
(* moves on, ends or is judged at any moment, between two statements too.   *)
(****************************************************************************)
EXTENDS Rows, Naturals, Sequences

CONSTANTS
    Commands,      \* sequences of commands a pipeline calls
    Strictness,    \* whether inconclusive fails: values of --fail-on-inconclusive
    Timeouts,      \* values of --timeout
    Intervals,     \* values of --poll-interval
    RequestMost    \* a request is given up after this time, 30 in the code

VARIABLES
    row,      \* the run: [completion, state, summary], or None
    offline,  \* the verdict a command evaluated by itself, or None
    flags,    \* [interval, strict, timeout] of the commands
    called,   \* commands called so far
    script,   \* the commands of the pipeline
    now,
    stands    \* where the command called last stands: [step, ...]

commandVars == <<row, offline, flags, called, script, now, stands>>

INSTANCE RunLifecycle WITH HardDeadline <- 0, NoCompletion <- None

Verdicts == {"PASS", "FAIL", "INCONCLUSIVE"}

RunCompletions == {None, "signal", "explicit"}

Runs == [completion : RunCompletions, state : RunStates, summary : Verdicts \cup {None}]

\* What the parameters are: numbers of seconds, a flag, commands; None is no value.
CommandAssumption ==
    /\ Commands \subseteq Seq({"start", "complete", "wait", "judge"})
    /\ Strictness \subseteq BOOLEAN
    /\ Timeouts \cup Intervals \cup {RequestMost} \subseteq Nat
    /\ None \notin Verdicts \cup {"signal", "explicit"} \cup Runs

CommandInit ==
    /\ row = None /\ offline = None
    /\ flags \in [interval : Intervals, strict : Strictness, timeout : Timeouts]
    /\ called = 0 /\ script \in Commands
    /\ now = 0
    /\ stands = [step |-> "idle"]

At(step) == stands.step = step

Command == script[called]

Exit(code, why) == stands' = [code |-> code, step |-> "exit", why |-> why]

-----------------------------------------------------------------------------
(* The run *)

\* Bound: not a step of the run once the pipeline is done.
Going == called < Len(script) \/ ~At("exit")

LaneMoves(state) ==
    /\ Going
    /\ row # None /\ Allowed(row.state, state)
    /\ state = "completed" => row.summary # None
    /\ row' = [row EXCEPT !.state = state,
                          !.completion = IF state = "settling" THEN "signal" ELSE @]
    /\ UNCHANGED <<offline, flags, called, script, now, stands>>

(* save_summary: once, whatever became of the run.                          *)
LaneJudges(verdict) ==
    /\ Going
    /\ row # None /\ row.summary = None
    /\ row.state \in {"evaluating", "cancelled", "failed"}
    /\ row' = [row EXCEPT !.summary = verdict]
    /\ UNCHANGED <<offline, flags, called, script, now, stands>>

-----------------------------------------------------------------------------
(* Commands *)

Call ==
    /\ \/ At("idle")
       \/ At("exit") /\ stands.code = 0
    /\ called < Len(script)
    /\ called' = called + 1
    /\ now' = 0
    /\ stands' = [step |-> IF script[called + 1] = "wait" THEN "check" ELSE "post"]
    /\ UNCHANGED <<row, offline, flags, script>>

(* No connection, a refusal, or an answer that is none: `?` everywhere.     *)
Fails ==
    /\ At("post") \/ At("answer")
    /\ Exit(2, "error")
    /\ UNCHANGED <<row, offline, flags, called, script, now>>

StartRun ==
    /\ At("post") /\ Command = "start" /\ row = None
    /\ row' = [completion |-> None, state |-> "collecting", summary |-> None]
    /\ stands' = [step |-> "answer"]
    /\ UNCHANGED <<offline, flags, called, script, now>>

(* CompleteEvaluationRun; another completion than the first is a conflict.  *)
Complete ==
    /\ At("post") /\ Command = "complete" /\ row # None
    /\ CanBeginSettling(row, "explicit")
    /\ row' = [row EXCEPT !.completion = "explicit",
                          !.state = IF row.completion = None THEN "settling" ELSE @]
    /\ stands' = [step |-> "answer"]
    /\ UNCHANGED <<offline, flags, called, script, now>>

(* Run: the target is driven and judged before the answer.  Evaluate: the   *)
(* bundle is judged here, by an approved pack.                              *)
Judge(verdict) ==
    /\ At("post") /\ Command = "judge"
    /\ offline' = verdict
    /\ stands' = [step |-> "answer"]
    /\ UNCHANGED <<row, flags, called, script, now>>

ExitCode(verdict) ==
    IF verdict = "FAIL" \/ (verdict = "INCONCLUSIVE" /\ flags.strict) THEN 1 ELSE 0

Answered ==
    /\ At("answer")
    /\ IF Command = "judge" THEN Exit(ExitCode(offline), "verdict") ELSE Exit(0, "accepted")
    /\ UNCHANGED <<row, offline, flags, called, script, now>>

-----------------------------------------------------------------------------
(* Waiting *)

AtLeastOne(n) == IF n = 0 THEN 1 ELSE n

Lesser(m, n) == IF m <= n THEN m ELSE n

Deadline == AtLeastOne(flags.timeout)

Remaining == Deadline - now

(* Faulty variant of TimedOut: the deadline itself is one more round.       *)
TimedOutAfter == now > Deadline

TimedOut == now >= Deadline

(* No request is given longer than what remains.                            *)
Patience == Lesser(Remaining, RequestMost)

Waits(place) ==
    /\ stands' = place
    /\ UNCHANGED <<row, offline, flags, called, script, now>>

Check ==
    /\ At("check")
    /\ IF TimedOut THEN /\ Exit(2, "late")
                        /\ UNCHANGED <<row, offline, flags, called, script, now>>
       ELSE Waits([step |-> "read"])

(* Faulty variant of ReadRun: the summary is read before the run.           *)
ReadRunLast ==
    \/ /\ At("read") /\ row # None
       /\ Waits([step |-> "read run", summary |-> row.summary])
    \/ /\ At("read run")
       /\ Waits([state |-> row.state, step |-> "report", summary |-> stands.summary])

(* loco_evaluation: get_run, ...                                            *)
ReadRun ==
    /\ At("read") /\ row # None
    /\ Waits([state |-> row.state, step |-> "read summary"])

(* ... and get_summary in a second statement.                               *)
ReadSummary ==
    /\ At("read summary")
    /\ Waits([state |-> stands.state, step |-> "report", summary |-> row.summary])

(* What a detail of the run makes the command do.                           *)
Report ==
    /\ At("report")
    /\ \E d \in 0..Patience : (d = 0 \/ d < Patience) /\ now' = now + d
    /\ CASE stands.state = "completed" /\ stands.summary # None ->
                Exit(ExitCode(stands.summary), "verdict")
         [] stands.state = "completed" /\ stands.summary = None -> Exit(2, "incomplete")
         [] stands.state \in {"cancelled", "failed"} -> Exit(2, "ended")
         [] OTHER -> stands' = [step |-> "sleep"]
    /\ UNCHANGED <<row, offline, flags, called, script>>

(* A request that fails, is not answered in time, or is answered by 5xx,    *)
(* 408 or 429 is made again; anything else that is no detail ends the wait. *)
Retried ==
    /\ stands.step \in {"read", "read summary", "report"}
    /\ \E d \in 0..Patience : now' = now + d
    /\ stands' = [step |-> "sleep"]
    /\ UNCHANGED <<row, offline, flags, called, script>>

Rejected ==
    /\ stands.step \in {"read", "read summary", "report"}
    /\ Exit(2, "error")
    /\ UNCHANGED <<row, offline, flags, called, script, now>>

(* sleep_before_retry *)
Sleep ==
    /\ At("sleep")
    /\ now' = now + Lesser(AtLeastOne(flags.interval), Remaining)
    /\ stands' = [step |-> "check"]
    /\ UNCHANGED <<row, offline, flags, called, script>>

-----------------------------------------------------------------------------
Wait == Check \/ ReadRun \/ ReadSummary \/ Report \/ Retried \/ Rejected \/ Sleep

CommandNext ==
    \/ \E state \in RunStates : LaneMoves(state)
    \/ \E verdict \in Verdicts : LaneJudges(verdict) \/ Judge(verdict)
    \/ Call \/ Fails \/ StartRun \/ Complete \/ Answered
    \/ Wait

(* The command goes on; nothing is assumed of the run.                      *)
CommandSpec == CommandInit /\ [][CommandNext]_commandVars /\ WF_commandVars(Wait)

-----------------------------------------------------------------------------
(* Properties *)

CommandTypeOK ==
    /\ row # None => /\ row.state \in RunStates
                     /\ row.completion \in RunCompletions
                     /\ row.summary \in Verdicts \cup {None}
    /\ called \in 0..Len(script)
    /\ At("exit") => stands.code \in 0..2

Passes(verdict) == verdict = "PASS" \/ (verdict = "INCONCLUSIVE" /\ ~flags.strict)

(* "Exit code 0 means pass, 1 means fail (or strict inconclusive), and 2    *)
(* means invalid input, timeout, or an operational error" (README.md): what *)
(* a command exits with is true of the run it speaks of although the run    *)
(* went on between the statements of every request, and a wait that saw a   *)
(* completed run always has its verdict.                                    *)
ExitIsTrue ==
    At("exit") =>
        CASE stands.why = "accepted" ->
                row # None /\ (Command = "complete" => /\ row.completion = "explicit"
                                                       /\ row.state # "collecting")
          [] stands.why = "verdict" /\ Command = "judge" -> (stands.code = 0) = Passes(offline)
          [] stands.why = "verdict" /\ Command = "wait" ->
                row.state = "completed" /\ (stands.code = 0) = Passes(row.summary)
          [] stands.why = "ended" -> row.state \in {"cancelled", "failed"}
          [] OTHER -> stands.code = 2 /\ stands.why # "incomplete"

(* A wait ends at its deadline at the latest, whatever the API answers and  *)
(* the run does (wait_for_run, sleep_before_retry).                         *)
WaitEnds ==
    /\ [](now <= Deadline)
    /\ (called > 0 /\ Command = "wait" /\ At("check")) ~> At("exit")
================================================================================
