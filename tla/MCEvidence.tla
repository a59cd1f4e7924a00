------------------------------ MODULE MCEvidence ------------------------------
(* From spans and observations to a verdict, four questions on one instance *)
(* each: the loop that orders spans (CausalOrder), a correlated run         *)
(* (SpanEvidence, on the spans of RefundSpans), an inline run               *)
(* (InlineEvaluation, on the answers of RefundTarget) and the pipeline that *)
(* waits for a verdict (CommandLine).  They share no state, so a behaviour  *)
(* takes one of them (lane); the loop then rests in a state it returned in, *)
(* the others in one where nothing was received or called.                  *)
EXTENDS CausalOrder, SpanEvidence, InlineEvaluation, CommandLine

CONSTANT MaxLinks  \* bound: links of all spans together, in the loop

VARIABLE lane

Agent == INSTANCE RefundSpans
MCContents == Agent!AgentContents
MCCompletions == Agent!AgentCompletions
MCRules == Agent!AgentRules
MCAllowlist == Agent!AgentAllowed

Target == INSTANCE RefundTarget
MCScenarios == Target!TargetScenarios
MCResponses == Target!TargetResponses
MCInlineRules == Target!TargetRules

MCCommands == {<<"start", "complete", "wait">>, <<"start", "wait">>, <<"judge">>}

(* What the proofs assume of the parameters. *)
ASSUME OfSpans == EvidenceAssumption
ASSUME OfAnswers == InlineAssumption
ASSUME OfCommands == CommandAssumption

(* Every parent relation with at most MaxLinks links, the spans read in the *)
(* order of their identities and in the opposite one.                       *)
LinksOf(pairs) == [s \in Spans |-> {t \in Spans \cup {Unknown} : <<s, t>> \in pairs}]

LinkPairs == {p \in SUBSET (Spans \X (Spans \cup {Unknown})) : Cardinality(p) <= MaxLinks}

OrderInit ==
    /\ parent \in [Spans -> Spans \cup {None, Unknown}]
    /\ links \in {LinksOf(p) : p \in LinkPairs}
    /\ started \in [Spans -> Times]
    /\ position \in {[s \in Spans |-> s], [s \in Spans |-> Cardinality(Spans) - s]}
    /\ Start

OrderAtRest ==
    /\ parent = [s \in Spans |-> None]
    /\ links = [s \in Spans |-> {}]
    /\ started = [s \in Spans |-> 0]
    /\ position = [s \in Spans |-> s]
    /\ indegree = [s \in Spans |-> 0]
    /\ ready = {}
    /\ ordered = [i \in 1..Cardinality(Spans) |-> i]
    /\ defects = {}
    /\ done = TRUE

JudgedAtRest ==
    /\ content = <<>>
    /\ stored = {} /\ completion = None /\ evidence = None /\ summary = None

InlineAtRest ==
    /\ scenario = <<>> /\ answered = 0 /\ observations = <<>>
    /\ terminal = FALSE /\ terminal_state = None
    /\ outcome = "reset" /\ run = None

PipelineAtRest ==
    /\ row = None /\ offline = None /\ flags = [interval |-> 1, strict |-> TRUE, timeout |-> 1]
    /\ called = 0 /\ script = <<>> /\ now = 0 /\ stands = [step |-> "idle"]

MCInit ==
    \/ lane = "order" /\ OrderInit /\ JudgedAtRest /\ InlineAtRest /\ PipelineAtRest
    \/ lane = "spans" /\ OrderAtRest /\ JudgeInit /\ InlineAtRest /\ PipelineAtRest
    \/ lane = "inline" /\ OrderAtRest /\ JudgedAtRest /\ InlineInit /\ PipelineAtRest
    \/ lane = "pipeline" /\ OrderAtRest /\ JudgedAtRest /\ InlineAtRest /\ CommandInit

MCNext ==
    \/ lane = "order" /\ Next /\ UNCHANGED <<lane, judgedVars, inlineVars, commandVars>>
    \/ lane = "spans" /\ JudgeNext /\ UNCHANGED <<lane, vars, inlineVars, commandVars>>
    \/ lane = "inline" /\ InlineNext /\ UNCHANGED <<lane, vars, judgedVars, commandVars>>
    \/ lane = "pipeline" /\ CommandNext /\ UNCHANGED <<lane, vars, judgedVars, inlineVars>>

MCSpec ==
    /\ MCInit /\ [][MCNext]_<<lane, vars, judgedVars, inlineVars, commandVars>>
    /\ WF_vars(Next) /\ WF_commandVars(Wait)

(* Type invariant of the two runs and of the pipeline. *)
RunsTypeOK == SpanEvidenceTypeOK /\ InlineTypeOK /\ CommandTypeOK
================================================================================
