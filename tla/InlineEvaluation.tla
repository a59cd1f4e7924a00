--------------------------- MODULE InlineEvaluation ----------------------------
(****************************************************************************)
(* The synchronous lane: RunTargetEvaluation drives a registered target     *)
(* through a scenario, one exchange after another, makes the answers into   *)
(* evidence, evaluates the pack and saves the run.  Nothing is stored       *)
(* before the last step, so an error anywhere leaves no run behind.         *)
(*                                                                          *)
(* What the target answers is untrusted and chosen from Responses.          *)
(****************************************************************************)
EXTENDS TraceEvidence, Evaluator, TLC

CONSTANTS
    Scenarios,        \* sequences of test events, by the kind of event
    Accepts,          \* the kinds of event the driver of the target sends
    Responses,        \* [events, terminal, state]: contract-conforming answers
    MaxObservations,  \* normalize_observations: 1000
    InlineRules       \* the rules of the pack

(* What parsing leaves of an answer and of a rule. *)
InlineAssumption ==
    /\ \A r \in Responses :
        /\ r.events \in Seq(Range(r.events))
        /\ \A i \in DOMAIN r.events : {"type", "attrs"} \subseteq DOMAIN r.events[i]
    /\ \A r \in DOMAIN InlineRules : RuleOK(InlineRules[r])

VARIABLES
    scenario,        \* the scenario of the request
    answered,        \* exchanges that were answered
    observations,    \* observations collected so far
    terminal,        \* whether the last answer was terminal
    terminal_state,  \* terminal state of the last answer
    outcome,         \* "reset", "sending", "saved" or the error returned
    run              \* the stored run, or None

inlineVars == <<scenario, answered, observations, terminal, terminal_state, outcome, run>>

InlineInit ==
    /\ scenario \in Scenarios
    /\ answered = 0
    /\ observations = <<>>
    /\ terminal = FALSE
    /\ terminal_state = None
    /\ outcome = "reset"
    /\ run = None

Abandons(error) ==
    /\ outcome' = error
    /\ UNCHANGED <<scenario, answered, observations, terminal, terminal_state, run>>

(* The target is reset first; without a reset endpoint nothing is sent.     *)
Reset ==
    /\ outcome = "reset"
    /\ outcome' = "sending"
    /\ UNCHANGED <<scenario, answered, observations, terminal, terminal_state, run>>

ResetFails == outcome = "reset" /\ \E e \in {"timeout", "transport", "contract"} : Abandons(e)

ScenarioInput(kind) ==
    [type |-> "scenario_input", name |-> kind, attrs |-> [k \in {} |-> None],
     input |-> [k \in {} |-> None], output |-> [k \in {} |-> None]]

(* The state the target declares is written on its last final output.       *)
WithState(events, state) ==
    [i \in DOMAIN events |->
        IF /\ state # None
           /\ events[i].type = "final_output"
           /\ \A j \in DOMAIN events : j > i => events[j].type # "final_output"
        THEN [events[i] EXCEPT !.attrs = ("terminal_state" :> state) @@ @]
        ELSE events[i]]

Exchange ==
    /\ outcome = "sending"
    /\ answered < Len(scenario)
    /\ scenario[answered + 1] \in Accepts
    /\ \E r \in Responses :
        /\ observations' = observations \o <<ScenarioInput(scenario[answered + 1])>>
                                        \o WithState(r.events, r.state)
        /\ terminal' = r.terminal
        /\ terminal_state' = r.state
    /\ answered' = answered + 1
    /\ UNCHANGED <<scenario, outcome, run>>

(* The driver does not send this kind of event, or there is no usable       *)
(* answer.                                                                  *)
ExchangeFails ==
    /\ outcome = "sending"
    /\ answered < Len(scenario)
    /\ \E e \in (IF scenario[answered + 1] \in Accepts
                 THEN {"timeout", "transport", "contract"} ELSE {"contract"}) : Abandons(e)

\* Faulty variant of Closed: a final output counts without a terminal answer.
ClosedAnyway(obs) == obs

(* Without a terminal answer no observation is a final output.              *)
Closed(obs) ==
    IF terminal THEN obs
    ELSE [i \in DOMAIN obs |->
            IF obs[i].type = "final_output"
            THEN [obs[i] EXCEPT !.type = "agent_start",
                                !.attrs = Without(@, {"terminal_state"})]
            ELSE obs[i]]

Evidence ==
    FinalizeEvidence(terminal_state, NormalizeObservations(Closed(observations)),
                     IF terminal THEN {} ELSE {"non_terminal"})

Conclude ==
    /\ outcome = "sending"
    /\ answered = Len(scenario)

(* normalize_observations refuses too many.  A name that is blank, which it *)
(* refuses as well, is taken for an answer that breaks the contract         *)
(* (ExchangeFails): either way nothing is stored.                           *)
TooManyObservations ==
    /\ Conclude
    /\ Len(observations) > MaxObservations
    /\ Abandons("contract")

(* save_run: one transaction. *)
Save ==
    /\ Conclude
    /\ Len(observations) <= MaxObservations
    /\ run' = [evidence |-> Evidence, summary |-> EvaluatePack(InlineRules, Evidence)]
    /\ outcome' = "saved"
    /\ UNCHANGED <<scenario, answered, observations, terminal, terminal_state>>

SaveFails ==
    /\ Conclude
    /\ Len(observations) <= MaxObservations
    /\ Abandons("storage")

InlineNext ==
    \/ Reset \/ ResetFails
    \/ Exchange \/ ExchangeFails
    \/ TooManyObservations \/ Save \/ SaveFails

InlineSpec == InlineInit /\ [][InlineNext]_inlineVars

-----------------------------------------------------------------------------
(* Properties. *)

Errors == {"timeout", "transport", "contract", "storage"}

(* Type invariant. *)
InlineTypeOK ==
    /\ answered \in 0..Len(scenario)
    /\ outcome \in {"reset", "sending", "saved"} \cup Errors
    /\ terminal \in BOOLEAN
    /\ (run # None) = (outcome = "saved")
    /\ run # None => run.evidence.quality \in {"complete", "degraded", "insufficient"}

(* A final output in the evidence means that the last answer of the target  *)
(* was terminal: of a target that goes on after a final output neither that *)
(* output nor the state of it is in the evidence.  A state it names on      *)
(* another event, the start of an agent say, stays there.                   *)
FinalOutputIsFinal ==
    run # None /\ ~terminal =>
        \A i \in DOMAIN run.evidence.events :
            /\ run.evidence.events[i].type # "final_output"
            /\ "terminal_state" \in DOMAIN run.evidence.events[i].attrs
                    => observations[i].type # "final_output"

\* Whether some rule cannot turn missing evidence into a harmless failure.
Demanding == \E r \in DOMAIN InlineRules :
    Blocking(InlineRules[r].severity) \/ InlineRules[r].on_missing_evidence # "fail"

(* A run whose target never declared an end, or never gave a final output,  *)
(* does not pass.                                                           *)
OpenEndNeverPasses ==
    run # None /\ Demanding
        /\ (~terminal \/ \A i \in DOMAIN observations : observations[i].type # "final_output")
        => run.summary.verdict # "PASS"

(* The inline lane as the integration guide states it: missing terminal     *)
(* evidence never becomes a pass, whatever the rules.                       *)
MissingTerminalNeverPasses ==
    run # None /\ "missing_terminal" \in run.evidence.defects
        => run.summary.verdict # "PASS"
================================================================================
