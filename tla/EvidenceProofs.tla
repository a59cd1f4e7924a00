---------------------------- MODULE EvidenceProofs -----------------------------
(****************************************************************************)
(* What a verdict rests on, for any finite set of spans, any content of     *)
(* them and any rules: from the evaluator, over the bundle of a correlated  *)
(* and of an inline run, to the exit code of the pipeline that waits for    *)
(* it.                                                                      *)
(****************************************************************************)
EXTENDS SpanEvidence, InlineEvaluation, CommandLine, SpanGraphProofs

-----------------------------------------------------------------------------
(* The evaluator.  Evidence is any record whose events are numbered.        *)

Numbered(ev) == DOMAIN ev.events \subseteq Nat

LEMMA LeastNumber ==
    ASSUME NEW T, T \subseteq Nat, T # {}
    PROVE  \E n \in T : \A m \in T : n <= m
<1>1. PICK n \in T : \A m \in T : ~ (<<m, n>> \in OpToRel(<, Nat))
  BY NatLessThanWellFounded, WFMin, Zenon
<1>2. \A m \in T : ~(m < n)
  BY <1>1 DEF OpToRel
<1> QED BY <1>2

(* A check that does not pass means that a first one decides. *)
LEMMA SomeCheckDecides ==
    ASSUME NEW rule, RuleOK(rule), NEW ev, Numbered(ev),
           NEW c \in Checks(rule, ev), CheckOutcome(rule, c, ev) # "pass"
    PROVE  Deciding(rule, ev) # {}
<1> DEFINE F == {d \in Checks(rule, ev) : CheckOutcome(rule, d, ev) # "pass"}
           SecondsOf(n) == {d[2] : d \in {d \in F : d[1] = n}}
<1>1. \A d \in F : /\ d[1] \in Nat /\ d[2] \in Nat
                   /\ d = <<d[1], d[2]>>
  BY DEF Checks, Triggers, Matching, RuleOK, Numbered
<1>2. PICK n \in {d[1] : d \in F} : \A m \in {d[1] : d \in F} : n <= m
  <2>1. {d[1] : d \in F} \subseteq Nat /\ c[1] \in {d[1] : d \in F}
    BY <1>1
  <2> QED BY <2>1, LeastNumber
<1>3. PICK k \in SecondsOf(n) : \A m \in SecondsOf(n) : k <= m
  <2>1. SecondsOf(n) \subseteq Nat
    BY <1>1
  <2>2. PICK d \in F : d[1] = n
    BY <1>2
  <2>3. d[2] \in SecondsOf(n)
    BY <2>2
  <2> HIDE DEF SecondsOf
  <2> QED BY <2>1, <2>3, LeastNumber
<1>4. PICK d \in F : d[1] = n /\ d[2] = k
  BY <1>3
<1>5. ASSUME NEW e \in F PROVE NotAfter(d, e)
  <2>1. n <= e[1] /\ e[1] \in Nat /\ n \in Nat
    BY <1>1, <1>2, <1>4
  <2>2. e[1] = n => k <= e[2]
    BY <1>3
  <2> QED BY <1>4, <2>1, <2>2 DEF NotAfter
<1>6. d \in Deciding(rule, ev)
  BY <1>4, <1>5 DEF Deciding
<1> QED BY <1>6

(* A check has one of three outcomes. *)
LEMMA OutcomeType ==
    ASSUME NEW rule, RuleOK(rule), NEW ev, NEW t, NEW j \in DOMAIN rule.assertions
    PROVE  Outcome(rule.assertions[j], t, ev) \in {"pass", "fail", "not_observable"}
<1> DEFINE a == rule.assertions[j]
<1>1. a.kind \in AssertionKinds
  BY DEF RuleOK
<1> HIDE DEF a
<1>2. Outcome(a, t, ev) \in {"pass", "fail", "not_observable"}
  BY <1>1 DEF Outcome, AssertionKinds
<1> QED BY <1>2 DEF a

(* A rule passes exactly when it is kept. *)
LEMMA PassIsKept ==
    ASSUME NEW rule, RuleOK(rule), NEW ev, Numbered(ev)
    PROVE  EvaluateRule(rule, ev).status = "pass" <=> Kept(rule, ev)
<1>1. EvidenceMissing(rule, ev) => EvaluateRule(rule, ev).status # "pass"
  BY DEF EvaluateRule, MissingEvidenceResult, Result, RuleOK, MissingEvidence
<1>2. Deciding(rule, ev) # {} => EvaluateRule(rule, ev).status # "pass"
  BY DEF EvaluateRule, MissingEvidenceResult, Result, RuleOK, MissingEvidence
<1>3. ~EvidenceMissing(rule, ev) /\ Deciding(rule, ev) = {}
        => EvaluateRule(rule, ev).status = "pass"
  BY DEF EvaluateRule, Result
<1>4. Deciding(rule, ev) = {} <=>
        \A t \in Triggers(rule, ev) : \A j \in DOMAIN rule.assertions :
            Outcome(rule.assertions[j], t, ev) = "pass"
  <2>1. ASSUME NEW t \in Triggers(rule, ev), NEW j \in DOMAIN rule.assertions,
               Outcome(rule.assertions[j], t, ev) # "pass"
        PROVE  Deciding(rule, ev) # {}
    <3>1. <<t, j>> \in Checks(rule, ev) /\ CheckOutcome(rule, <<t, j>>, ev) # "pass"
      BY <2>1 DEF Checks, CheckOutcome
    <3> QED BY <3>1, SomeCheckDecides
  <2>2. ASSUME NEW c \in Deciding(rule, ev)
        PROVE  \E t \in Triggers(rule, ev), j \in DOMAIN rule.assertions :
                    Outcome(rule.assertions[j], t, ev) # "pass"
    BY DEF Deciding, Checks, CheckOutcome
  <2> QED BY <2>1, <2>2
<1> QED BY <1>1, <1>2, <1>3, <1>4 DEF Kept

(* With enough evidence, a deciding check makes the result. *)
LEMMA DecidingIsChosen ==
    ASSUME NEW rule, NEW ev, ~EvidenceMissing(rule, ev), Deciding(rule, ev) # {}
    PROVE  \E c \in Deciding(rule, ev) :
                EvaluateRule(rule, ev) =
                    IF CheckOutcome(rule, c, ev) = "not_observable"
                    THEN MissingEvidenceResult(rule)
                    ELSE Result(rule, "fail", CitedUpTo(rule, c, ev))
<1> DEFINE c == CHOOSE c \in Deciding(rule, ev) : TRUE
<1>1. c \in Deciding(rule, ev)
  OBVIOUS
<1>2. EvaluateRule(rule, ev) =
            IF CheckOutcome(rule, c, ev) = "not_observable"
            THEN MissingEvidenceResult(rule)
            ELSE Result(rule, "fail", CitedUpTo(rule, c, ev))
  BY DEF EvaluateRule
<1> HIDE DEF c
<1> QED BY <1>1, <1>2

(* A rule fails because an assertion fails, or for want of evidence.        *)
LEMMA FailIsBroken ==
    ASSUME NEW rule, RuleOK(rule), NEW ev, Numbered(ev),
           EvaluateRule(rule, ev).status = "fail"
    PROVE  \/ Broken(rule, ev)
           \/ ~Kept(rule, ev) /\ rule.on_missing_evidence = "fail"
<1>1. ~Kept(rule, ev)
  BY PassIsKept
<1>2. CASE EvidenceMissing(rule, ev)
  BY <1>1, <1>2 DEF EvaluateRule, MissingEvidenceResult, Result
<1>3. CASE ~EvidenceMissing(rule, ev)
  <2>1. Deciding(rule, ev) # {}
    BY <1>3 DEF EvaluateRule, Result
  <2>2. PICK c \in Deciding(rule, ev) :
            EvaluateRule(rule, ev) =
                IF CheckOutcome(rule, c, ev) = "not_observable"
                THEN MissingEvidenceResult(rule)
                ELSE Result(rule, "fail", CitedUpTo(rule, c, ev))
    BY <1>3, <2>1, DecidingIsChosen
  <2>3. CASE CheckOutcome(rule, c, ev) = "not_observable"
    BY <1>1, <2>2, <2>3 DEF MissingEvidenceResult, Result
  <2>4. CASE CheckOutcome(rule, c, ev) # "not_observable"
    <3>1. c[1] \in Triggers(rule, ev) /\ c[2] \in DOMAIN rule.assertions
          /\ Outcome(rule.assertions[c[2]], c[1], ev) \notin {"pass", "not_observable"}
      BY <2>4 DEF Deciding, Checks, CheckOutcome
    <3>2. Outcome(rule.assertions[c[2]], c[1], ev) = "fail"
      BY SMTT(30), <3>1, OutcomeType
    <3> QED BY <1>3, <3>1, <3>2 DEF Broken
  <2> QED BY <2>3, <2>4
<1> QED BY <1>2, <1>3

(* The summary of a pack. *)
LEMMA PackResults ==
    ASSUME NEW rules, NEW ev
    PROVE  LET pack == EvaluatePack(rules, ev)
           IN  /\ DOMAIN pack.results = DOMAIN rules
               /\ \A r \in DOMAIN rules :
                    /\ pack.results[r] = EvaluateRule(rules[r], ev)
                    /\ pack.results[r].severity = rules[r].severity
               /\ pack.verdict = Verdict(pack.results)
  BY DEF EvaluatePack, EvaluateRule, MissingEvidenceResult, Result

-----------------------------------------------------------------------------
(* The bundle of a correlated run, as a function of the stored spans. *)

(* The event of one span. *)
EventOf(spans, s) ==
    LET attrs == Redacted(Merged(spans[s]), FinalizationAllowed(spans))
    IN  [id |-> s,
         parent |-> IF spans[s].parent \in DOMAIN spans THEN spans[s].parent ELSE None,
         links |-> spans[s].links \cap DOMAIN spans,
         type |-> InferEventType(attrs),
         name |-> IF "tool_name" \in DOMAIN attrs THEN attrs["tool_name"]
                  ELSE spans[s].name,
         ended |-> spans[s].ended,
         attrs |-> Without(attrs, {"input", "output"}),
         input |-> Field(attrs, "input"),
         output |-> Field(attrs, "output")]

(* The events of a bundle are those of its spans in causal order, each once. *)
LEMMA BundleEvents ==
    ASSUME NEW spans, Clocked(spans), NEW reason, NEW state
    PROVE  LET ev == FinalizeObservedSpans(spans, reason, state)
               order == SpanOrder(spans)
           IN  /\ Numbered(ev)
               /\ IsFiniteSet(DOMAIN ev.events)
               /\ DOMAIN ev.events = DOMAIN order
               /\ \A i \in DOMAIN order : order[i] \in DOMAIN spans
               /\ \A i \in DOMAIN order : ev.events[i] = EventOf(spans, order[i])
               /\ \A i \in DOMAIN order : ev.events[i].id = order[i]
               /\ \A s \in DOMAIN spans : \E i \in DOMAIN order : order[i] = s
               /\ Distinct(order)
<1> DEFINE ev == FinalizeObservedSpans(spans, reason, state)
           order == SpanOrder(spans)
<1>1. /\ order \in Seq(DOMAIN spans) /\ Distinct(order)
      /\ Range(order) = DOMAIN spans
  BY SpanOrderEnumerates
<1>2. ev.events = [i \in DOMAIN order |-> EventOf(spans, order[i])]
  BY DEF FinalizeObservedSpans, NormalizeSpans, EventOf
<1> HIDE DEF ev, order
<1>3. /\ Len(order) \in Nat /\ DOMAIN order = 1..Len(order)
      /\ \A i \in DOMAIN order : order[i] \in DOMAIN spans
  BY <1>1
<1>4. IsFiniteSet(1..Len(order))
  <2>1. \A n \in Int : IsFiniteSet(1..n)
    BY FS_Interval
  <2> QED BY <1>3, <2>1
<1>5. \A s \in DOMAIN spans : \E i \in DOMAIN order : order[i] = s
  BY <1>1 DEF Range
<1>6. \A i \in DOMAIN order : ev.events[i].id = order[i]
  BY <1>2 DEF EventOf
<1>7. Numbered(ev)
  BY <1>2, <1>3 DEF Numbered
<1> QED BY <1>1, <1>2, <1>3, <1>4, <1>5, <1>6, <1>7 DEF ev, order

(* Evidence that is not insufficient has no causal cycle: its order is the  *)
(* one that places a span after its causes.                                 *)
LEMMA SufficientIsPlaced ==
    ASSUME NEW spans, Clocked(spans), NEW reason, NEW state,
           FinalizeObservedSpans(spans, reason, state).quality # "insufficient"
    PROVE  SpanOrder(spans) = KahnOrder(spans)
<1> DEFINE defects == FinalizeObservedSpans(spans, reason, state).defects
<1>1. "causal_cycle" \notin defects
  BY DEF FinalizeObservedSpans, QualityOf, BlockingDefects
<1>2. "causal_cycle" \in CausalDefects(spans) => "causal_cycle" \in defects
  BY DEF FinalizeObservedSpans, CompletionDefects
<1>3. DOMAIN spans \ Range(KahnOrder(spans)) = {}
  BY <1>1, <1>2 DEF CausalDefects
<1>4. KahnOrder(spans) \in Seq(DOMAIN spans)
  BY KahnOrders
<1>5. Range(KahnOrder(spans)) \subseteq DOMAIN spans
  BY <1>4 DEF Range
<1> QED BY <1>3, <1>5, SpanOrderEnumerates

(* One span led to another. *)
LedTo(spans, a, b) ==
    /\ a # b
    /\ \A S \in SUBSET DOMAIN spans :
        (b \in S /\ \A s \in S : CausesOf(spans, s) \subseteq S) => a \in S

(* In such an order what led to a span stands before it. *)
LEMMA CausesStandBefore ==
    ASSUME NEW spans, Clocked(spans), SpanOrder(spans) = KahnOrder(spans),
           NEW i \in DOMAIN SpanOrder(spans), NEW j \in DOMAIN SpanOrder(spans),
           LedTo(spans, SpanOrder(spans)[i], SpanOrder(spans)[j])
    PROVE  i < j
<1> DEFINE order == SpanOrder(spans)
           prefix == {order[k] : k \in 1..j}
<1>1. order \in Seq(DOMAIN spans) /\ Distinct(order)
  BY SpanOrderEnumerates
<1>2. /\ prefix \subseteq DOMAIN spans
      /\ \A s \in prefix : CausesOf(spans, s) \subseteq prefix
  BY PrefixesClosed
<1>3. LedTo(spans, order[i], order[j])
  OBVIOUS
<1> HIDE DEF order
<1>4. Len(order) \in Nat /\ DOMAIN order = 1..Len(order)
      /\ i \in DOMAIN order /\ j \in DOMAIN order
  BY <1>1 DEF order
<1>5. j \in 1..j
  BY <1>4
<1>6. order[j] \in prefix
  BY <1>5
<1>7. order[i] \in prefix
  BY <1>2, <1>3, <1>6 DEF LedTo
<1>8. PICK k \in 1..j : order[i] = order[k]
  BY <1>7
<1>9. k \in DOMAIN order
  BY <1>4
<1>10. i = k /\ i # j
  BY <1>1, <1>3, <1>4, <1>8, <1>9 DEF Distinct, LedTo
<1> QED BY <1>4, <1>10

(* What a rule can match of a span, but for the spans it refers to, does    *)
(* not depend on the others: finalization lets through what was stored.     *)
LEMMA EventIsOfItsSpan ==
    ASSUME NEW fewer, NEW more, NEW s \in DOMAIN fewer, s \in DOMAIN more,
           fewer[s] = more[s], NEW matcher
    PROVE  Matches(EventOf(fewer, s), matcher) <=> Matches(EventOf(more, s), matcher)
<1> DEFINE AttrsIn(spans) == Redacted(Merged(spans[s]), FinalizationAllowed(spans))
<1>1. ASSUME NEW spans, s \in DOMAIN spans
      PROVE  AttrsIn(spans) = Restrict(Merged(spans[s]), DOMAIN Merged(spans[s]) \ Sensitive)
  <2>1. DOMAIN Merged(spans[s]) \subseteq DOMAIN spans[s].attrs \cup DOMAIN spans[s].resource
    BY DEF Merged
  <2>2. DOMAIN spans[s].attrs \cup DOMAIN spans[s].resource \subseteq FinalizationAllowed(spans)
    BY <1>1 DEF FinalizationAllowed
  <2>3. DOMAIN Merged(spans[s]) \cap FinalizationAllowed(spans) = DOMAIN Merged(spans[s])
    BY <2>1, <2>2
  <2> QED BY <2>3 DEF Redacted
<1>2. AttrsIn(fewer) = AttrsIn(more)
  BY <1>1
<1>3. /\ EventOf(fewer, s).type = EventOf(more, s).type
      /\ EventOf(fewer, s).name = EventOf(more, s).name
      /\ EventOf(fewer, s).attrs = EventOf(more, s).attrs
      /\ EventOf(fewer, s).input = EventOf(more, s).input
  BY <1>2 DEF EventOf
<1> QED BY <1>3 DEF Matches, NumberAbove

(* More spans never match less: every event of the smaller bundle has its   *)
(* counterpart in the larger one.                                           *)
LEMMA MatchesGrow ==
    ASSUME NEW fewer, Clocked(fewer), NEW more, Clocked(more),
           DOMAIN fewer \subseteq DOMAIN more,
           \A s \in DOMAIN fewer : fewer[s] = more[s],
           NEW reason, NEW state, NEW matcher
    PROVE  LET before == FinalizeObservedSpans(fewer, reason, state)
               after == FinalizeObservedSpans(more, reason, state)
           IN  /\ Matching(matcher, before) # {} => Matching(matcher, after) # {}
               /\ Cardinality(Matching(matcher, before)) \in Nat
               /\ Cardinality(Matching(matcher, after)) \in Nat
               /\ Cardinality(Matching(matcher, before))
                    <= Cardinality(Matching(matcher, after))
<1> DEFINE before == FinalizeObservedSpans(fewer, reason, state)
           after == FinalizeObservedSpans(more, reason, state)
           S == Matching(matcher, before)
           T == Matching(matcher, after)
           place == [i \in S |-> CHOOSE j \in DOMAIN SpanOrder(more) :
                                    SpanOrder(more)[j] = SpanOrder(fewer)[i]]
<1>1. /\ DOMAIN before.events = DOMAIN SpanOrder(fewer)
      /\ IsFiniteSet(DOMAIN before.events)
      /\ Distinct(SpanOrder(fewer))
      /\ \A i \in DOMAIN SpanOrder(fewer) :
            /\ SpanOrder(fewer)[i] \in DOMAIN fewer
            /\ before.events[i] = EventOf(fewer, SpanOrder(fewer)[i])
  BY BundleEvents
<1>2. /\ DOMAIN after.events = DOMAIN SpanOrder(more)
      /\ IsFiniteSet(DOMAIN after.events)
      /\ \A j \in DOMAIN SpanOrder(more) :
            after.events[j] = EventOf(more, SpanOrder(more)[j])
      /\ \A s \in DOMAIN more : \E j \in DOMAIN SpanOrder(more) : SpanOrder(more)[j] = s
  BY BundleEvents
<1> HIDE DEF before, after
<1>3. ASSUME NEW i \in S
      PROVE  /\ place[i] \in T
             /\ SpanOrder(more)[place[i]] = SpanOrder(fewer)[i]
  <2>1. /\ i \in DOMAIN SpanOrder(fewer)
        /\ Matches(before.events[i], matcher)
    BY <1>1 DEF Matching
  <2>2. SpanOrder(fewer)[i] \in DOMAIN fewer /\ SpanOrder(fewer)[i] \in DOMAIN more
    BY <1>1, <2>1
  <2>3. \E j \in DOMAIN SpanOrder(more) : SpanOrder(more)[j] = SpanOrder(fewer)[i]
    BY <1>2, <2>2
  <2>4. /\ place[i] \in DOMAIN SpanOrder(more)
        /\ SpanOrder(more)[place[i]] = SpanOrder(fewer)[i]
    BY <2>3
  <2> HIDE DEF place
  <2>5. Matches(EventOf(more, SpanOrder(fewer)[i]), matcher)
    BY <1>1, <2>1, <2>2, EventIsOfItsSpan
  <2>6. Matches(after.events[place[i]], matcher)
    BY <1>2, <2>4, <2>5
  <2> QED BY <1>2, <2>4, <2>6 DEF Matching
<1>4. DOMAIN place = S
  OBVIOUS
<1>5. place \in [S -> T]
  BY <1>3, <1>4
<1> HIDE DEF place
<1>6. ASSUME NEW i \in S, NEW k \in S, place[i] = place[k]
      PROVE  i = k
  <2>1. SpanOrder(fewer)[i] = SpanOrder(fewer)[k]
    BY <1>3, <1>6
  <2>2. i \in DOMAIN SpanOrder(fewer) /\ k \in DOMAIN SpanOrder(fewer)
    BY <1>1 DEF Matching
  <2> QED BY <1>1, <2>1, <2>2 DEF Distinct
<1>7. IsFiniteSet(S) /\ IsFiniteSet(T)
  <2>1. S \subseteq DOMAIN before.events /\ T \subseteq DOMAIN after.events
    BY DEF Matching
  <2> QED BY <1>1, <1>2, <2>1, FS_Subset
<1> HIDE DEF S, T
<1>8. Cardinality(S) \in Nat /\ Cardinality(T) \in Nat
  BY <1>7, FS_CardinalityType
<1>9. place \in Injection(S, T)
  BY <1>5, <1>6 DEF Injection, IsInjective
<1>10. Cardinality(S) <= Cardinality(T)
  BY <1>7, <1>9, FS_Injection
<1>11. S # {} => T # {}
  BY <1>3
<1> QED BY <1>8, <1>10, <1>11 DEF S, T, before, after

(* A prohibited event that was seen stays prohibited and seen. *)
LEMMA ProhibitedIsSeenAgain ==
    ASSUME NEW fewer, Clocked(fewer), NEW more, Clocked(more),
           DOMAIN fewer \subseteq DOMAIN more,
           \A s \in DOMAIN fewer : fewer[s] = more[s],
           NEW reason, NEW state, NEW rule, RuleOK(rule),
           ProhibitedSeen(rule, FinalizeObservedSpans(fewer, reason, state))
    PROVE  EvaluateRule(rule, FinalizeObservedSpans(more, reason, state)).status # "pass"
<1> DEFINE before == FinalizeObservedSpans(fewer, reason, state)
           after == FinalizeObservedSpans(more, reason, state)
<1>1. \A m : /\ Matching(m, before) # {} => Matching(m, after) # {}
             /\ Cardinality(Matching(m, before)) \in Nat
             /\ Cardinality(Matching(m, after)) \in Nat
             /\ Cardinality(Matching(m, before)) <= Cardinality(Matching(m, after))
  BY MatchesGrow
<1>2. Numbered(after)
  BY BundleEvents
<1>3. ProhibitedSeen(rule, before)
  OBVIOUS
<1> HIDE DEF before, after
<1>4. PICK j \in DOMAIN rule.assertions :
        /\ rule.assertions[j].kind \in {"absent", "max_count"}
        /\ \A t \in Triggers(rule, before) : Outcome(rule.assertions[j], t, before) = "fail"
  BY <1>3 DEF ProhibitedSeen
<1>5. PICK t : t \in Triggers(rule, before)
  BY <1>3 DEF ProhibitedSeen
<1>6. PICK t2 : t2 \in Triggers(rule, after)
  BY <1>1, <1>5 DEF Triggers
<1>7. Outcome(rule.assertions[j], t2, after) # "pass"
  <2>1. PICK a : a = rule.assertions[j]
    OBVIOUS
  <2>2. Outcome(a, t, before) = "fail"
    BY <1>4, <1>5, <2>1
  <2>3. a.kind = "max_count" => a.count \in Nat
    BY <2>1 DEF RuleOK
  <2>4. a.kind \in {"absent", "max_count"}
    BY <1>4, <2>1
  <2>5. ASSUME a.kind = "absent" PROVE Outcome(a, t2, after) # "pass"
    <3>1. Matching(a.matcher, before) # {}
      BY <2>2, <2>5 DEF Outcome
    <3>2. Matching(a.matcher, after) # {}
      BY <1>1, <3>1
    <3> QED BY <2>5, <3>2 DEF Outcome
  <2>6. ASSUME a.kind = "max_count" PROVE Outcome(a, t2, after) # "pass"
    <3>1. ~(Cardinality(Matching(a.matcher, before)) <= a.count)
      BY <2>2, <2>6 DEF Outcome
    <3>2. ~(Cardinality(Matching(a.matcher, after)) <= a.count)
      BY <1>1, <2>3, <2>6, <3>1
    <3> QED BY <2>6, <3>2 DEF Outcome
  <2> QED BY <2>1, <2>4, <2>5, <2>6
<1>8. ~Kept(rule, after)
  BY <1>6, <1>7 DEF Kept
<1> QED BY <1>2, <1>8, PassIsKept DEF after

-----------------------------------------------------------------------------
(* The correlated run. *)

(* The bundle is what the spans stored at the completion make, whatever     *)
(* happens afterwards, and the summary is what the rules make of it.        *)
EvidenceInv ==
    /\ content \in Contents
    /\ stored \subseteq Exported
    /\ completion \in Completions \cup {None}
    /\ evidence # None => completion # None /\ evidence = Bundle(stored, completion)
    /\ summary # None => evidence # None /\ summary = EvaluatePack(Rules, evidence)

LEMMA EvidenceStarts == JudgeInit => EvidenceInv
  BY DEF JudgeInit, EvidenceInv

LEMMA EvidenceKeeps == EvidenceInv /\ [JudgeNext]_judgedVars => EvidenceInv'
<1> SUFFICES ASSUME EvidenceInv, [JudgeNext]_judgedVars PROVE EvidenceInv'
  OBVIOUS
<1> USE DEF EvidenceInv
<1>1. CASE \E s \in Exported : Store(s)
  BY <1>1 DEF Store
<1>2. CASE \E c \in Completions : Close(c)
  BY <1>2 DEF Close
<1>3. CASE Finalize
  BY <1>3 DEF Finalize, Bundle
<1>4. CASE Evaluate
  BY <1>4 DEF Evaluate, Bundle
<1>5. CASE UNCHANGED judgedVars
  BY <1>5 DEF judgedVars, Bundle
<1> QED BY <1>1, <1>2, <1>3, <1>4, <1>5 DEF JudgeNext

LEMMA StoredIsClocked ==
    ASSUME EvidenceAssumption, content \in Contents, NEW S, S \subseteq Exported
    PROVE  /\ Clocked(Restrict(content, S))
           /\ DOMAIN Restrict(content, S) = S
           /\ \A s \in S : Restrict(content, S)[s] = content[s]
<1>1. IsFiniteSet(S)
  BY FS_Subset DEF EvidenceAssumption
<1>2. DOMAIN Restrict(content, S) = S /\ \A s \in S : Restrict(content, S)[s] = content[s]
  BY DEF Restrict
<1> QED BY <1>1, <1>2 DEF Clocked, EvidenceAssumption

(* What is known of the bundle and the summary when there is a summary. *)
LEMMA JudgedBundle ==
    ASSUME EvidenceAssumption, EvidenceInv, summary # None
    PROVE  LET spans == Restrict(content, stored)
           IN  /\ Clocked(spans) /\ DOMAIN spans = stored
               /\ evidence = FinalizeObservedSpans(spans, completion.reason, completion.state)
               /\ Numbered(evidence)
               /\ DOMAIN summary.results = DOMAIN Rules
               /\ \A r \in DOMAIN Rules :
                    /\ RuleOK(Rules[r])
                    /\ summary.results[r] = EvaluateRule(Rules[r], evidence)
                    /\ summary.results[r].severity = Rules[r].severity
               /\ summary.verdict = Verdict(summary.results)
<1> DEFINE spans == Restrict(content, stored)
<1>1. Clocked(spans) /\ DOMAIN spans = stored
  BY StoredIsClocked DEF EvidenceInv
<1>2. evidence = FinalizeObservedSpans(spans, completion.reason, completion.state)
  BY DEF EvidenceInv, Bundle
<1> HIDE DEF spans
<1>3. Numbered(evidence)
  BY <1>1, <1>2, BundleEvents
<1>4. summary = EvaluatePack(Rules, evidence)
  BY DEF EvidenceInv
<1> QED BY <1>1, <1>2, <1>3, <1>4, PackResults DEF EvidenceAssumption, spans

(* PASS only when every blocking rule is kept by the bundle as a whole,     *)
(* FAIL only when one is broken or fails for want of evidence by its own    *)
(* policy (evaluate_rule, evaluate_pack).                                   *)
THEOREM VerdictsAreJustified ==
    ASSUME EvidenceAssumption
    PROVE  JudgeSpec => []VerdictJustified
<1>1. ASSUME EvidenceInv, summary # None PROVE VerdictJustified
  <2> DEFINE blocking == {r \in DOMAIN Rules : Blocking(Rules[r].severity)}
  <2>1. /\ Numbered(evidence) /\ DOMAIN summary.results = DOMAIN Rules
        /\ \A r \in DOMAIN Rules :
                /\ RuleOK(Rules[r])
                /\ summary.results[r] = EvaluateRule(Rules[r], evidence)
                /\ summary.results[r].severity = Rules[r].severity
        /\ summary.verdict = Verdict(summary.results)
    BY <1>1, JudgedBundle
  <2>2. ASSUME summary.verdict = "PASS", NEW r \in blocking
        PROVE  Kept(Rules[r], evidence)
    <3>1. summary.results[r].status = "pass"
      BY <2>1, <2>2 DEF Verdict
    <3> QED BY <2>1, <3>1, PassIsKept
  <2>3. ASSUME summary.verdict = "FAIL"
        PROVE  \E r \in blocking : \/ Broken(Rules[r], evidence)
                                   \/ /\ ~Kept(Rules[r], evidence)
                                      /\ Rules[r].on_missing_evidence = "fail"
    <3>1. PICK r \in blocking : summary.results[r].status = "fail"
      BY <2>1, <2>3 DEF Verdict
    <3> QED BY <2>1, <3>1, FailIsBroken
  <2> QED BY <2>2, <2>3 DEF VerdictJustified
<1>2. EvidenceInv => VerdictJustified
  BY <1>1 DEF VerdictJustified
<1> QED BY <1>2, EvidenceStarts, EvidenceKeeps, PTL DEF JudgeSpec

(* Without enough evidence every rule falls back on its own policy. *)
LEMMA InsufficientFallsBack ==
    ASSUME NEW rules, NEW ev, \A r \in DOMAIN rules : RuleOK(rules[r]),
           ev.quality = "insufficient",
           \E r \in DOMAIN rules : \/ Blocking(rules[r].severity)
                                   \/ rules[r].on_missing_evidence # "fail"
    PROVE  EvaluatePack(rules, ev).verdict # "PASS"
<1>1. PICK r \in DOMAIN rules : \/ Blocking(rules[r].severity)
                                \/ rules[r].on_missing_evidence # "fail"
  OBVIOUS
<1> DEFINE results == EvaluatePack(rules, ev).results
<1>2. r \in DOMAIN results /\ results[r] = EvaluateRule(rules[r], ev)
  BY <1>1, PackResults
<1>3. results[r] = MissingEvidenceResult(rules[r])
  BY <1>2 DEF EvaluateRule, EvidenceMissing
<1>4. EvaluatePack(rules, ev).verdict = Verdict(results)
  BY PackResults
<1> HIDE DEF results
<1>5. /\ results[r].status = rules[r].on_missing_evidence
      /\ results[r].severity = rules[r].severity
      /\ results[r].status \in {"not_observable", "fail", "error"}
  BY <1>3 DEF MissingEvidenceResult, Result, RuleOK, MissingEvidence
<1>6. Verdict(results) # "PASS"
  BY <1>1, <1>2, <1>5 DEF Verdict
<1> QED BY <1>4, <1>6

LEMMA CausallyBeforeIsLedTo ==
    ASSUME NEW a, NEW b, DOMAIN Restrict(content, stored) = stored
    PROVE  CausallyBefore(a, b) <=> LedTo(Restrict(content, stored), a, b)
  BY DEF CausallyBefore, LedTo

(* A trace that is cut off, empty, without a root or cyclic is insufficient. *)
LEMMA CutOffIsInsufficient ==
    ASSUME NEW spans, Clocked(spans), None \notin DOMAIN spans, NEW reason, NEW state,
           \/ reason \in {"idle_timeout", "max_duration"}
           \/ DOMAIN spans = {}
           \/ \E s, t \in DOMAIN spans : LedTo(spans, s, t) /\ LedTo(spans, t, s)
           \/ \A s \in DOMAIN spans : spans[s].parent \in DOMAIN spans
    PROVE  FinalizeObservedSpans(spans, reason, state).quality = "insufficient"
<1> DEFINE ev == FinalizeObservedSpans(spans, reason, state)
           order == SpanOrder(spans)
<1>1. /\ DOMAIN ev.events = DOMAIN order
      /\ \A i \in DOMAIN order : /\ order[i] \in DOMAIN spans
                                 /\ ev.events[i] = EventOf(spans, order[i])
      /\ \A s \in DOMAIN spans : \E i \in DOMAIN order : order[i] = s
  BY BundleEvents
<1>2. \A d \in {"missing_root", "forced_timeout"} :
            d \in ev.defects => ev.quality = "insufficient"
  BY DEF FinalizeObservedSpans, QualityOf, BlockingDefects
<1>3. CASE reason \in {"idle_timeout", "max_duration"}
  <2>1. "forced_timeout" \in ev.defects
    BY <1>3 DEF FinalizeObservedSpans, CompletionDefects
  <2> QED BY <1>2, <2>1
<1>4. CASE \E s, t \in DOMAIN spans : LedTo(spans, s, t) /\ LedTo(spans, t, s)
  <2> SUFFICES ASSUME ev.quality # "insufficient" PROVE FALSE
    OBVIOUS
  <2>1. PICK s \in DOMAIN spans, t \in DOMAIN spans : LedTo(spans, s, t) /\ LedTo(spans, t, s)
    BY <1>4
  <2>2. PICK i \in DOMAIN order, j \in DOMAIN order : order[i] = s /\ order[j] = t
    BY <1>1
  <2>3. SpanOrder(spans) = KahnOrder(spans)
    BY SufficientIsPlaced
  <2>4. i < j /\ j < i
    BY <2>1, <2>2, <2>3, CausesStandBefore
  <2>5. order \in Seq(DOMAIN spans)
    BY SpanOrderEnumerates
  <2>6. i \in Int /\ j \in Int
    BY <2>5
  <2> QED BY <2>4, <2>6
<1>5. CASE \A s \in DOMAIN spans : spans[s].parent \in DOMAIN spans
  <2>1. \A i \in DOMAIN order : ev.events[i].parent # None
    <3> TAKE i \in DOMAIN order
    <3>1. order[i] \in DOMAIN spans /\ ev.events[i] = EventOf(spans, order[i])
      BY <1>1
    <3>2. ev.events[i].parent = spans[order[i]].parent
      BY <1>5, <3>1 DEF EventOf
    <3> QED BY <1>5, <3>1, <3>2
  <2>2. "missing_root" \in AssessTraceQuality(ev.events)
    BY <1>1, <2>1 DEF AssessTraceQuality
  <2>3. ev.events = NormalizeSpans(spans)
    BY DEF FinalizeObservedSpans
  <2>4. "missing_root" \in ev.defects
    BY <2>2, <2>3 DEF FinalizeObservedSpans, CompletionDefects
  <2> QED BY <1>2, <2>4
<1> QED BY <1>3, <1>4, <1>5

(* A trace that is cut off, empty, without a root or cyclic never yields    *)
(* PASS (finalize_observed_spans, trace_quality, evaluate_pack).            *)
THEOREM InsufficientNeverYieldsPass ==
    ASSUME EvidenceAssumption
    PROVE  JudgeSpec => []InsufficientNeverPasses
<1> DEFINE CutOff == \/ completion.reason \in {"idle_timeout", "max_duration"}
                     \/ stored = {}
                     \/ \E s, t \in stored : CausallyBefore(s, t) /\ CausallyBefore(t, s)
                     \/ \A s \in stored : content[s].parent \in stored
           Demanded == \E r \in DOMAIN Rules : \/ Blocking(Rules[r].severity)
                                               \/ Rules[r].on_missing_evidence # "fail"
<1>1. ASSUME EvidenceInv, summary # None, CutOff, Demanded
      PROVE  summary.verdict # "PASS"
  <2> DEFINE spans == Restrict(content, stored)
  <2>1. /\ Clocked(spans) /\ DOMAIN spans = stored
        /\ \A s \in stored : spans[s] = content[s]
    BY <1>1, StoredIsClocked DEF EvidenceInv
  <2>2. evidence = FinalizeObservedSpans(spans, completion.reason, completion.state)
    BY <1>1, JudgedBundle
  <2>3. \A a, b \in stored : CausallyBefore(a, b) <=> LedTo(spans, a, b)
    BY <2>1, CausallyBeforeIsLedTo
  <2>4. None \notin stored
    BY <1>1 DEF EvidenceInv, EvidenceAssumption
  <2> HIDE DEF spans
  <2>5. \/ completion.reason \in {"idle_timeout", "max_duration"}
        \/ DOMAIN spans = {}
        \/ \E s, t \in DOMAIN spans : LedTo(spans, s, t) /\ LedTo(spans, t, s)
        \/ \A s \in DOMAIN spans : spans[s].parent \in DOMAIN spans
    BY <1>1, <2>1, <2>3
  <2>6. evidence.quality = "insufficient"
    BY <2>1, <2>2, <2>4, <2>5, CutOffIsInsufficient
  <2>7. summary = EvaluatePack(Rules, evidence)
    BY <1>1 DEF EvidenceInv
  <2> QED BY <1>1, <2>6, <2>7, InsufficientFallsBack DEF EvidenceAssumption
<1>2. EvidenceInv => InsufficientNeverPasses
  BY <1>1 DEF InsufficientNeverPasses
<1> QED BY <1>2, EvidenceStarts, EvidenceKeeps, PTL DEF JudgeSpec

(* A rule with enough evidence was judged in an order that places causes    *)
(* before what they caused.                                                 *)
LEMMA JudgedInCausalOrder ==
    ASSUME EvidenceAssumption, EvidenceInv, summary # None,
           evidence.quality # "insufficient",
           NEW i \in DOMAIN evidence.events, NEW j \in DOMAIN evidence.events,
           CausallyBefore(evidence.events[i].id, evidence.events[j].id)
    PROVE  i < j /\ i \in Nat /\ j \in Nat
<1> DEFINE spans == Restrict(content, stored)
<1>1. /\ Clocked(spans) /\ DOMAIN spans = stored
      /\ evidence = FinalizeObservedSpans(spans, completion.reason, completion.state)
      /\ Numbered(evidence)
  BY JudgedBundle
<1>2. SpanOrder(spans) = KahnOrder(spans)
  BY <1>1, SufficientIsPlaced
<1>3. /\ DOMAIN evidence.events = DOMAIN SpanOrder(spans)
      /\ \A k \in DOMAIN SpanOrder(spans) : evidence.events[k].id = SpanOrder(spans)[k]
  BY <1>1, BundleEvents
<1>4. LedTo(spans, SpanOrder(spans)[i], SpanOrder(spans)[j])
  BY <1>1, <1>3, CausallyBeforeIsLedTo
<1> HIDE DEF spans
<1> QED BY <1>1, <1>2, <1>3, <1>4, CausesStandBefore DEF Numbered

(* An approval that the call itself caused never counts as an approval      *)
(* before it, whatever the clocks said (causal_order, evaluate_assertion).  *)
THEOREM ApprovalsComeBefore ==
    ASSUME EvidenceAssumption
    PROVE  JudgeSpec => []ApprovalNotAfterwards
<1>1. ASSUME EvidenceInv, summary # None, NEW r \in DOMAIN Rules,
             summary.results[r].status = "pass",
             NEW t \in Triggers(Rules[r], evidence), NEW m \in RequiredBefore(Rules[r])
      PROVE  \E i \in Matching(m, evidence) :
                ~CausallyBefore(evidence.events[t].id, evidence.events[i].id)
  <2>1. /\ Numbered(evidence) /\ RuleOK(Rules[r])
        /\ summary.results[r] = EvaluateRule(Rules[r], evidence)
    BY <1>1, JudgedBundle
  <2>2. Kept(Rules[r], evidence)
    BY <1>1, <2>1, PassIsKept
  <2>3. evidence.quality # "insufficient"
    BY <2>2 DEF Kept, EvidenceMissing
  <2>4. PICK j \in DOMAIN Rules[r].assertions :
            /\ Rules[r].assertions[j].kind = "exists_before"
            /\ Rules[r].assertions[j].matcher = m
    BY DEF RequiredBefore
  <2>5. Outcome(Rules[r].assertions[j], t, evidence) = "pass"
    BY <1>1, <2>2 DEF Kept
  <2>6. PICK i \in Matching(m, evidence) : i < t
    BY <2>4, <2>5 DEF Outcome
  <2>7. i \in DOMAIN evidence.events /\ t \in DOMAIN evidence.events
    BY <2>6, <1>1 DEF Matching, Triggers
  <2>8. ~CausallyBefore(evidence.events[t].id, evidence.events[i].id)
    BY <1>1, <2>3, <2>6, <2>7, JudgedInCausalOrder
  <2> QED BY <2>8
<1>2. EvidenceInv => ApprovalNotAfterwards
  BY <1>1 DEF ApprovalNotAfterwards
<1> QED BY <1>2, EvidenceStarts, EvidenceKeeps, PTL DEF JudgeSpec

(* An approval that led to every triggering call counts, whatever the       *)
(* clocks said (causal_order, evaluate_assertion).                          *)
THEOREM CausalApprovalsCount ==
    ASSUME EvidenceAssumption
    PROVE  JudgeSpec => []CausalApprovalCounts
<1>1. ASSUME EvidenceInv, summary # None, NEW r \in DOMAIN Rules,
             ~EvidenceMissing(Rules[r], evidence),
             \A j \in DOMAIN Rules[r].assertions : Rules[r].assertions[j].kind = "exists_before",
             \A t \in Triggers(Rules[r], evidence) : \A m \in RequiredBefore(Rules[r]) :
                \E i \in Matching(m, evidence) :
                    CausallyBefore(evidence.events[i].id, evidence.events[t].id)
      PROVE  summary.results[r].status = "pass"
  <2>1. /\ Numbered(evidence) /\ RuleOK(Rules[r])
        /\ summary.results[r] = EvaluateRule(Rules[r], evidence)
    BY <1>1, JudgedBundle
  <2>2. evidence.quality # "insufficient"
    BY <1>1 DEF EvidenceMissing
  <2>3. ASSUME NEW t \in Triggers(Rules[r], evidence), NEW j \in DOMAIN Rules[r].assertions
        PROVE  Outcome(Rules[r].assertions[j], t, evidence) = "pass"
    <3>1. /\ Rules[r].assertions[j].kind = "exists_before"
          /\ Rules[r].assertions[j].matcher \in RequiredBefore(Rules[r])
      BY <1>1 DEF RequiredBefore
    <3>2. PICK i \in Matching(Rules[r].assertions[j].matcher, evidence) :
                CausallyBefore(evidence.events[i].id, evidence.events[t].id)
      BY <1>1, <3>1
    <3>3. i \in DOMAIN evidence.events /\ t \in DOMAIN evidence.events
      BY <3>2 DEF Matching, Triggers
    <3>4. i < t
      BY <1>1, <2>2, <3>2, <3>3, JudgedInCausalOrder
    <3> QED BY <3>1, <3>2, <3>4 DEF Outcome
  <2>4. Kept(Rules[r], evidence)
    BY <1>1, <2>3 DEF Kept
  <2> QED BY <2>1, <2>4, PassIsKept
<1>2. EvidenceInv => CausalApprovalCounts
  BY <1>1 DEF CausalApprovalCounts
<1> QED BY <1>2, EvidenceStarts, EvidenceKeeps, PTL DEF JudgeSpec

(* More evidence never turns a prohibited event into a pass: a span that    *)
(* arrives after it is one more span of the bundle, wherever it is put.     *)
THEOREM ViolationsAreKept ==
    ASSUME EvidenceAssumption
    PROVE  JudgeSpec => ViolationNeverForgiven
<1> DEFINE Unforgiven ==
        \A c \in Completions :
            \A before \in {Bundle(stored, c)} : \A after \in {Bundle(stored', c)} :
                \A r \in DOMAIN Rules :
                    ProhibitedSeen(Rules[r], before)
                        => EvaluateRule(Rules[r], after).status # "pass"
<1>1. ASSUME EvidenceInv, EvidenceInv', [JudgeNext]_judgedVars
      PROVE  Unforgiven
  <2>1. stored \subseteq stored' /\ stored' \subseteq Exported /\ stored \subseteq Exported
        /\ content \in Contents
    <3>1. stored \subseteq stored'
      BY <1>1 DEF JudgeNext, Store, Close, Finalize, Evaluate, judgedVars
    <3> QED BY <1>1, <3>1 DEF EvidenceInv
  <2>2. ASSUME NEW c \in Completions, NEW r \in DOMAIN Rules,
               ProhibitedSeen(Rules[r], Bundle(stored, c))
        PROVE  EvaluateRule(Rules[r], Bundle(stored', c)).status # "pass"
    <3> DEFINE fewer == Restrict(content, stored)
               more == Restrict(content, stored')
    <3>1. /\ Clocked(fewer) /\ DOMAIN fewer = stored
          /\ \A s \in stored : fewer[s] = content[s]
      BY <2>1, StoredIsClocked
    <3>2. /\ Clocked(more) /\ DOMAIN more = stored'
          /\ \A s \in stored' : more[s] = content[s]
      BY <2>1, StoredIsClocked
    <3>3. /\ Bundle(stored, c) = FinalizeObservedSpans(fewer, c.reason, c.state)
          /\ Bundle(stored', c) = FinalizeObservedSpans(more, c.reason, c.state)
      BY DEF Bundle
    <3> HIDE DEF fewer, more
    <3>4. DOMAIN fewer \subseteq DOMAIN more /\ \A s \in DOMAIN fewer : fewer[s] = more[s]
      BY <2>1, <3>1, <3>2
    <3>5. RuleOK(Rules[r])
      BY DEF EvidenceAssumption
    <3> QED BY <2>2, <3>1, <3>2, <3>3, <3>4, <3>5, ProhibitedIsSeenAgain
  <2> QED BY <2>2
<1>2. JudgeSpec => []EvidenceInv
  BY EvidenceStarts, EvidenceKeeps, PTL DEF JudgeSpec
<1> QED BY <1>1, <1>2, PTL DEF JudgeSpec, ViolationNeverForgiven

-----------------------------------------------------------------------------
(* What a result cites, and the types. *)

UpTo(S, x) == {y \in S : y <= x}

LEMMA LargestUpTo ==
    ASSUME NEW S, IsFiniteSet(S), S # {}
    PROVE  \E x \in S : \A y \in S :
                UpTo(S, x) \subseteq UpTo(S, y) => UpTo(S, y) = UpTo(S, x)
<1>1. PICK Q : Q = {UpTo(S, x) : x \in S}
  OBVIOUS
<1>2. Q \subseteq SUBSET S
  BY <1>1 DEF UpTo
<1>3. Q # {}
  BY <1>1
<1>4. PICK X \in Q : \A Y \in Q : X \subseteq Y => Y = X
  BY <1>2, <1>3, FiniteMaximal
<1>5. PICK x \in S : X = UpTo(S, x)
  BY <1>1
<1>6. \A y \in S : UpTo(S, y) \in Q
  BY <1>1
<1> QED BY <1>4, <1>5, <1>6

LEMMA MaxExists ==
    ASSUME NEW S, IsFiniteSet(S), S \subseteq Nat, S # {}
    PROVE  Max(S) \in S
<1>1. PICK x \in S : \A y \in S : UpTo(S, x) \subseteq UpTo(S, y) => UpTo(S, y) = UpTo(S, x)
  BY LargestUpTo, Zenon
<1>2. \A y \in S : x >= y
  <2> SUFFICES ASSUME NEW y \in S, ~(x >= y) PROVE FALSE
    OBVIOUS
  <2>1. x \in Nat /\ y \in Nat
    OBVIOUS
  <2>2. \A z \in S : z <= x => z <= y
    BY <2>1
  <2>3. UpTo(S, x) \subseteq UpTo(S, y)
    BY <2>2 DEF UpTo
  <2>4. y \in UpTo(S, y) /\ y \notin UpTo(S, x)
    BY <2>1 DEF UpTo
  <2> QED BY <1>1, <2>3, <2>4
<1> QED BY <1>2 DEF Max

(* What a check cites are events of the evidence. *)
LEMMA CitesEvents ==
    ASSUME NEW rule, RuleOK(rule), NEW ev, Numbered(ev), IsFiniteSet(DOMAIN ev.events),
           NEW c \in Checks(rule, ev)
    PROVE  /\ c[1] \in DOMAIN ev.events
           /\ Cites(rule.assertions[c[2]], c[1], ev) \subseteq DOMAIN ev.events
<1>1. PICK a : a = rule.assertions[c[2]]
  OBVIOUS
<1>2. c[1] \in DOMAIN ev.events /\ c[2] \in DOMAIN rule.assertions
  BY DEF Checks, Triggers, Matching
<1>3. a.kind \in AssertionKinds
  BY <1>1, <1>2 DEF RuleOK
<1>4. Matching(a.matcher, ev) \subseteq DOMAIN ev.events
  BY DEF Matching
<1>5. ASSUME a.kind = "exists_before" PROVE Cites(a, c[1], ev) \subseteq DOMAIN ev.events
  <2> DEFINE before == {i \in Matching(a.matcher, ev) : i < c[1]}
  <2>1. before \subseteq DOMAIN ev.events /\ before \subseteq Nat
    BY <1>4 DEF Numbered
  <2>2. IsFiniteSet(before)
    BY <2>1, FS_Subset
  <2>3. Cites(a, c[1], ev) = IF before = {} THEN {} ELSE {Max(before)}
    BY <1>5 DEF Cites
  <2> HIDE DEF before
  <2> QED BY <2>1, <2>2, <2>3, MaxExists
<1>6. ASSUME a.kind \in {"absent", "max_count"} PROVE Cites(a, c[1], ev) \subseteq DOMAIN ev.events
  BY <1>4, <1>6 DEF Cites
<1>7. ASSUME a.kind = "terminal_state" PROVE Cites(a, c[1], ev) \subseteq DOMAIN ev.events
  BY <1>2, <1>7 DEF Cites
<1> QED BY <1>1, <1>2, <1>3, <1>5, <1>6, <1>7 DEF AssertionKinds

(* A rule that fails with enough evidence cites what made it fail, unless   *)
(* its own policy fails it for a check that could not be made.              *)
LEMMA FailureCites ==
    ASSUME NEW rule, RuleOK(rule), NEW ev, Numbered(ev), IsFiniteSet(DOMAIN ev.events),
           EvaluateRule(rule, ev).status = "fail", EvaluateRule(rule, ev).cited # {}
    PROVE  \E c \in Checks(rule, ev) :
                /\ Outcome(rule.assertions[c[2]], c[1], ev) = "fail"
                /\ c[1] \in EvaluateRule(rule, ev).cited
                /\ Cites(rule.assertions[c[2]], c[1], ev) \subseteq EvaluateRule(rule, ev).cited
<1>1. ~EvidenceMissing(rule, ev)
  BY DEF EvaluateRule, MissingEvidenceResult, Result
<1>2. Deciding(rule, ev) # {}
  BY <1>1 DEF EvaluateRule, Result
<1>3. PICK c \in Deciding(rule, ev) :
            EvaluateRule(rule, ev) =
                IF CheckOutcome(rule, c, ev) = "not_observable"
                THEN MissingEvidenceResult(rule)
                ELSE Result(rule, "fail", CitedUpTo(rule, c, ev))
  BY <1>1, <1>2, DecidingIsChosen
<1>4. /\ CheckOutcome(rule, c, ev) # "not_observable"
      /\ EvaluateRule(rule, ev).cited = CitedUpTo(rule, c, ev)
  BY <1>3 DEF MissingEvidenceResult, Result
<1>5. c \in Checks(rule, ev) /\ CheckOutcome(rule, c, ev) # "pass"
  BY DEF Deciding
<1>6. c[2] \in DOMAIN rule.assertions /\ c[1] \in Nat /\ c[2] \in Nat
  BY <1>5 DEF Checks, Triggers, Matching, Numbered, RuleOK
<1>7. Outcome(rule.assertions[c[2]], c[1], ev) = "fail"
  BY <1>4, <1>5, <1>6, OutcomeType DEF CheckOutcome
<1>8. NotAfter(c, c)
  BY <1>6 DEF NotAfter
<1>9. /\ c[1] \in CitedUpTo(rule, c, ev)
      /\ Cites(rule.assertions[c[2]], c[1], ev) \subseteq CitedUpTo(rule, c, ev)
  BY <1>5, <1>8 DEF CitedUpTo
<1> QED BY <1>4, <1>5, <1>7, <1>9

LEMMA FailsUncited ==
    ASSUME NEW rule, RuleOK(rule), NEW ev, Numbered(ev), Broken(rule, ev),
           EvaluateRule(rule, ev).status = "fail", EvaluateRule(rule, ev).cited = {}
    PROVE  rule.on_missing_evidence = "fail"
<1>1. ~EvidenceMissing(rule, ev)
  BY DEF Broken
<1>2. Deciding(rule, ev) # {}
  BY <1>1 DEF EvaluateRule, Result
<1>3. PICK c \in Deciding(rule, ev) :
            EvaluateRule(rule, ev) =
                IF CheckOutcome(rule, c, ev) = "not_observable"
                THEN MissingEvidenceResult(rule)
                ELSE Result(rule, "fail", CitedUpTo(rule, c, ev))
  BY <1>1, <1>2, DecidingIsChosen
<1>4. CASE CheckOutcome(rule, c, ev) = "not_observable"
  BY <1>3, <1>4 DEF MissingEvidenceResult, Result
<1>5. CASE CheckOutcome(rule, c, ev) # "not_observable"
  <2>1. c \in Checks(rule, ev) /\ c[1] \in Nat /\ c[2] \in Nat
    BY DEF Deciding, Checks, Triggers, Matching, Numbered, RuleOK
  <2>2. c[1] \in CitedUpTo(rule, c, ev)
    BY <2>1 DEF CitedUpTo, NotAfter
  <2> QED BY <1>3, <1>5, <2>2 DEF Result
<1> QED BY <1>4, <1>5

(* What a rule cites are events of the evidence. *)
LEMMA CitedAreEvents ==
    ASSUME NEW rule, RuleOK(rule), NEW ev, Numbered(ev), IsFiniteSet(DOMAIN ev.events)
    PROVE  EvaluateRule(rule, ev).cited \subseteq DOMAIN ev.events
<1>1. \A c \in Checks(rule, ev) :
            /\ c[1] \in DOMAIN ev.events
            /\ Cites(rule.assertions[c[2]], c[1], ev) \subseteq DOMAIN ev.events
  BY CitesEvents
<1>2. Triggers(rule, ev) \subseteq DOMAIN ev.events
  BY DEF Triggers, Matching
<1>3. CASE EvidenceMissing(rule, ev)
  BY <1>3 DEF EvaluateRule, MissingEvidenceResult, Result
<1>4. CASE ~EvidenceMissing(rule, ev) /\ Deciding(rule, ev) = {}
  BY <1>1, <1>2, <1>4 DEF EvaluateRule, Result
<1>5. CASE ~EvidenceMissing(rule, ev) /\ Deciding(rule, ev) # {}
  <2>1. PICK c \in Deciding(rule, ev) :
            EvaluateRule(rule, ev) =
                IF CheckOutcome(rule, c, ev) = "not_observable"
                THEN MissingEvidenceResult(rule)
                ELSE Result(rule, "fail", CitedUpTo(rule, c, ev))
    BY <1>5, DecidingIsChosen
  <2>2. CitedUpTo(rule, c, ev) \subseteq DOMAIN ev.events
    BY <1>1 DEF CitedUpTo
  <2> QED BY <2>1, <2>2 DEF MissingEvidenceResult, Result
<1> QED BY <1>3, <1>4, <1>5

(* A prohibited event that was seen is among the matches of the assertion.  *)
LEMMA FailedMatches ==
    ASSUME NEW a, a.kind \in {"absent", "max_count"}, a.kind = "max_count" => a.count \in Nat,
           NEW t, NEW ev, Outcome(a, t, ev) = "fail"
    PROVE  Matching(a.matcher, ev) # {} /\ Cites(a, t, ev) = Matching(a.matcher, ev)
<1>1. Cites(a, t, ev) = Matching(a.matcher, ev)
  BY DEF Cites
<1>2. CASE a.kind = "absent"
  BY <1>1, <1>2 DEF Outcome
<1>3. CASE a.kind = "max_count"
  <2>1. ~(Cardinality(Matching(a.matcher, ev)) <= a.count)
    BY <1>3 DEF Outcome
  <2>2. Cardinality({}) = 0
    BY FS_EmptySet
  <2>3. Matching(a.matcher, ev) # {}
    BY <1>3, <2>1, <2>2
  <2> QED BY <1>1, <2>3
<1> QED BY <1>2, <1>3

(* A failure that was observed cites its evidence: a trigger and, for a     *)
(* prohibited event, the event; all of them events of the bundle            *)
(* (evaluate_rule).                                                         *)
THEOREM FailuresCite ==
    ASSUME EvidenceAssumption
    PROVE  JudgeSpec => []FailureCited
<1>1. ASSUME EvidenceInv, summary # None, NEW r \in DOMAIN Rules
      PROVE  LET res == summary.results[r]
             IN  /\ res.cited \subseteq DOMAIN evidence.events
                 /\ res.status = "fail" /\ Broken(Rules[r], evidence) =>
                    \/ res.cited \cap Triggers(Rules[r], evidence) # {}
                    \/ Rules[r].on_missing_evidence = "fail" /\ res.cited = {}
                 /\ (/\ res.status = "fail" /\ ProhibitedSeen(Rules[r], evidence)
                     /\ Len(Rules[r].assertions) = 1 /\ res.cited # {})
                    => \E i \in res.cited :
                        Matches(evidence.events[i], Rules[r].assertions[1].matcher)
  <2>1. PICK rule, res : rule = Rules[r] /\ res = summary.results[r]
    OBVIOUS
  <2>2. /\ Numbered(evidence) /\ RuleOK(rule)
        /\ res = EvaluateRule(rule, evidence)
    BY <1>1, <2>1, JudgedBundle
  <2>3. IsFiniteSet(DOMAIN evidence.events)
    BY <1>1, JudgedBundle, BundleEvents
  <2>4. res.cited \subseteq DOMAIN evidence.events
    BY <2>2, <2>3, CitedAreEvents
  <2>5. ASSUME res.status = "fail", res.cited # {}
        PROVE  res.cited \cap Triggers(rule, evidence) # {}
    <3>1. PICK c \in Checks(rule, evidence) : c[1] \in res.cited
      BY <2>2, <2>3, <2>5, FailureCites
    <3> QED BY <3>1 DEF Checks
  <2>6. ASSUME res.status = "fail", res.cited = {}, Broken(rule, evidence)
        PROVE  rule.on_missing_evidence = "fail"
    BY <2>2, <2>6, FailsUncited
  <2>7. ASSUME res.status = "fail", ProhibitedSeen(rule, evidence),
               Len(rule.assertions) = 1, res.cited # {}
        PROVE  \E i \in res.cited : Matches(evidence.events[i], rule.assertions[1].matcher)
    <3>1. PICK c \in Checks(rule, evidence) :
                /\ Outcome(rule.assertions[c[2]], c[1], evidence) = "fail"
                /\ Cites(rule.assertions[c[2]], c[1], evidence) \subseteq res.cited
      BY <2>2, <2>3, <2>7, FailureCites
    <3>2. DOMAIN rule.assertions = 1..1
      BY <2>2, <2>7 DEF RuleOK
    <3>3. c[2] = 1
      BY <3>1, <3>2 DEF Checks
    <3>4. PICK a : a = rule.assertions[1]
      OBVIOUS
    <3>5. /\ a.kind \in {"absent", "max_count"}
          /\ a.kind = "max_count" => a.count \in Nat
      BY <2>2, <2>7, <3>2, <3>4 DEF ProhibitedSeen, RuleOK
    <3>6. Matching(a.matcher, evidence) # {} /\ Matching(a.matcher, evidence) \subseteq res.cited
      BY <3>1, <3>3, <3>4, <3>5, FailedMatches
    <3> QED BY <3>4, <3>6 DEF Matching
  <2> QED BY <2>1, <2>4, <2>5, <2>6, <2>7
<1>2. EvidenceInv => FailureCited
  BY <1>1 DEF FailureCited
<1> QED BY <1>2, EvidenceStarts, EvidenceKeeps, PTL DEF JudgeSpec

LEMMA EventTypeInferred ==
    ASSUME NEW attrs
    PROVE  InferEventType(attrs) \in EventTypes
<1>1. PICK named : named = IF "event_type" \in DOMAIN attrs THEN attrs["event_type"]
                           ELSE IF "legacy_event_type" \in DOMAIN attrs
                                THEN attrs["legacy_event_type"] ELSE None
  OBVIOUS
<1>2. CASE named \in EventTypes
  BY <1>1, <1>2 DEF InferEventType
<1>3. CASE named \notin EventTypes
  <2>1. {"tool_call", "model_call", "retrieval", "guardrail_decision", "agent_start",
         "unclassified"} \subseteq EventTypes
    BY DEF EventTypes
  <2> QED BY <1>1, <1>3, <2>1 DEF InferEventType
<1> QED BY <1>2, <1>3

(* The statuses of a rule. *)
LEMMA StatusType ==
    ASSUME NEW rule, RuleOK(rule), NEW ev
    PROVE  EvaluateRule(rule, ev).status \in Statuses
<1>1. MissingEvidenceResult(rule).status \in Statuses
  BY DEF MissingEvidenceResult, Result, RuleOK, Statuses
<1>2. \A cited : Result(rule, "pass", cited).status \in Statuses
                 /\ Result(rule, "fail", cited).status \in Statuses
  BY DEF Result, Statuses, MissingEvidence
<1>3. CASE EvidenceMissing(rule, ev)
  BY <1>1, <1>3 DEF EvaluateRule
<1>4. CASE ~EvidenceMissing(rule, ev) /\ Deciding(rule, ev) = {}
  BY <1>2, <1>4 DEF EvaluateRule
<1>5. CASE ~EvidenceMissing(rule, ev) /\ Deciding(rule, ev) # {}
  <2>1. PICK c \in Deciding(rule, ev) :
            EvaluateRule(rule, ev) =
                IF CheckOutcome(rule, c, ev) = "not_observable"
                THEN MissingEvidenceResult(rule)
                ELSE Result(rule, "fail", CitedUpTo(rule, c, ev))
    BY <1>5, DecidingIsChosen
  <2> QED BY <1>1, <1>2, <2>1
<1> QED BY <1>3, <1>4, <1>5

(* The numbers of a summary add up. *)
LEMMA CountsAddUp ==
    ASSUME NEW rules, rules \in Seq(Range(rules)), NEW ev
    PROVE  LET s == EvaluatePack(rules, ev)
           IN  s.passed + s.failed + s.inconclusive = Len(rules)
<1> DEFINE s == EvaluatePack(rules, ev)
           With(status) == {i \in DOMAIN s.results : s.results[i].status = status}
<1>1. /\ s.passed = Cardinality(With("pass")) /\ s.failed = Cardinality(With("fail"))
      /\ s.inconclusive = Len(rules) - (s.passed + s.failed)
  BY DEF EvaluatePack
<1>2. DOMAIN s.results = DOMAIN rules
  BY PackResults
<1>3. Len(rules) \in Nat /\ DOMAIN rules = 1..Len(rules)
  OBVIOUS
<1>4. IsFiniteSet(DOMAIN rules)
  <2>1. \A n \in Int : IsFiniteSet(1..n)
    BY FS_Interval
  <2> QED BY <1>3, <2>1
<1>5. \A status : With(status) \subseteq DOMAIN rules
  BY <1>2
<1> HIDE DEF With, s
<1>6. s.passed \in Nat /\ s.failed \in Nat
  BY <1>1, <1>4, <1>5, FS_Subset, FS_CardinalityType
<1>7. s.passed + s.failed + s.inconclusive = Len(rules)
  BY <1>1, <1>3, <1>6
<1> QED BY <1>7 DEF s

(* A bundle has one event for each stored span. *)
EventFor(S, ev) ==
    /\ {ev.events[i].id : i \in DOMAIN ev.events} = S
    /\ Len(ev.events) = Cardinality(S)
    /\ \A i \in DOMAIN ev.events : ev.events[i].type \in EventTypes
    /\ ev.quality \in {"complete", "degraded", "insufficient"}

LEMMA OneEventEach ==
    ASSUME NEW spans, Clocked(spans), NEW reason, NEW state
    PROVE  EventFor(DOMAIN spans, FinalizeObservedSpans(spans, reason, state))
<1> DEFINE ev == FinalizeObservedSpans(spans, reason, state)
           order == SpanOrder(spans)
<1>1. /\ DOMAIN ev.events = DOMAIN order
      /\ \A i \in DOMAIN order : /\ order[i] \in DOMAIN spans
                                 /\ ev.events[i] = EventOf(spans, order[i])
                                 /\ ev.events[i].id = order[i]
      /\ \A s \in DOMAIN spans : \E i \in DOMAIN order : order[i] = s
  BY BundleEvents
<1>2. ev.quality \in {"complete", "degraded", "insufficient"}
  BY DEF FinalizeObservedSpans, QualityOf
<1>3. ev.events = [i \in DOMAIN order |-> EventOf(spans, order[i])]
  BY DEF FinalizeObservedSpans, NormalizeSpans, EventOf
<1>4. order \in Seq(DOMAIN spans) /\ Distinct(order)
  BY SpanOrderEnumerates
<1> HIDE DEF ev, order
<1>5. DOMAIN order = 1..Len(order) /\ Len(order) \in Nat
  BY <1>4
<1>6. Len(ev.events) = Len(order)
  BY <1>3, <1>5
<1>7. \A i \in DOMAIN order : ev.events[i].type \in EventTypes
  <2>1. \A s : EventOf(spans, s).type \in EventTypes
    BY EventTypeInferred DEF EventOf
  <2> QED BY <1>1, <2>1
<1>8. Cardinality(DOMAIN spans) = Len(order)
  <2>1. order \in [1..Len(order) -> DOMAIN spans]
    BY <1>1, <1>4, <1>5
  <2>2. order \in Bijection(1..Len(order), DOMAIN spans)
    <3>1. order \in Injection(1..Len(order), DOMAIN spans)
      BY <1>4, <1>5, <2>1 DEF Distinct, Injection, IsInjective
    <3>2. order \in Surjection(1..Len(order), DOMAIN spans)
      BY <1>1, <1>5, <2>1 DEF Surjection
    <3> QED BY <3>1, <3>2 DEF Bijection
  <2>3. IsFiniteSet(1..Len(order)) /\ Cardinality(1..Len(order)) = Len(order)
    <3>1. \A n \in Nat : IsFiniteSet(1..n) /\ Cardinality(1..n) = n
      BY FS_Interval
    <3> QED BY <1>5, <3>1
  <2>4. PICK places : places = 1..Len(order)
    OBVIOUS
  <2>5. ExistsBijection(places, DOMAIN spans)
    BY <2>2, <2>4 DEF ExistsBijection
  <2>6. IsFiniteSet(places) /\ Cardinality(places) = Len(order)
    BY <2>3, <2>4
  <2>7. Cardinality(DOMAIN spans) = Cardinality(places)
    BY <2>5, <2>6, FS_Bijection, Zenon
  <2> QED BY <2>6, <2>7
<1>9. {ev.events[i].id : i \in DOMAIN ev.events} = DOMAIN spans
  <2>1. \A i \in DOMAIN ev.events : ev.events[i].id \in DOMAIN spans
    BY <1>1
  <2>2. \A s \in DOMAIN spans : \E i \in DOMAIN ev.events : s = ev.events[i].id
    BY <1>1
  <2> QED BY <2>1, <2>2, Zenon
<1>10. Len(ev.events) = Cardinality(DOMAIN spans)
  BY <1>6, <1>8
<1>11. EventFor(DOMAIN spans, ev)
  BY <1>1, <1>2, <1>7, <1>9, <1>10 DEF EventFor
<1> QED BY <1>11 DEF ev

(* Every reachable state of a correlated run has its type: the bundle has   *)
(* one event for each span that was stored, and the summary one result for  *)
(* each rule.                                                               *)
THEOREM SpanEvidenceTypes ==
    ASSUME EvidenceAssumption
    PROVE  JudgeSpec => []SpanEvidenceTypeOK
<1>1. ASSUME EvidenceInv PROVE SpanEvidenceTypeOK
  <2>1. ASSUME evidence # None
        PROVE  /\ evidence.quality \in {"complete", "degraded", "insufficient"}
               /\ {evidence.events[i].id : i \in DOMAIN evidence.events} = stored
               /\ Len(evidence.events) = Cardinality(stored)
               /\ \A i \in DOMAIN evidence.events : evidence.events[i].type \in EventTypes
    <3> DEFINE spans == Restrict(content, stored)
    <3>1. Clocked(spans) /\ DOMAIN spans = stored
      BY <1>1, StoredIsClocked DEF EvidenceInv
    <3>2. evidence = FinalizeObservedSpans(spans, completion.reason, completion.state)
      BY <1>1, <2>1 DEF EvidenceInv, Bundle
    <3> HIDE DEF spans
    <3>3. EventFor(stored, evidence)
      BY <3>1, <3>2, OneEventEach
    <3> QED BY <3>3 DEF EventFor
  <2>2. ASSUME summary # None
        PROVE  /\ \A i \in DOMAIN summary.results : summary.results[i].status \in Statuses
               /\ summary.passed + summary.failed + summary.inconclusive = Len(Rules)
    <3>1. \A i \in DOMAIN summary.results : summary.results[i].status \in Statuses
      BY <1>1, <2>2, JudgedBundle, StatusType
    <3>2. summary = EvaluatePack(Rules, evidence)
      BY <1>1, <2>2 DEF EvidenceInv
    <3> QED BY <3>1, <3>2, CountsAddUp DEF EvidenceAssumption
  <2>3. stored \subseteq Exported /\ completion \in Completions \cup {None}
    BY <1>1 DEF EvidenceInv
  <2> QED BY <2>1, <2>2, <2>3 DEF SpanEvidenceTypeOK
<1>2. EvidenceInv => SpanEvidenceTypeOK
  BY <1>1
<1> QED BY <1>2, EvidenceStarts, EvidenceKeeps, PTL DEF JudgeSpec

-----------------------------------------------------------------------------
(* The inline run. *)

(* The stored run is made of what was collected, and nothing is collected   *)
(* once it is stored.                                                       *)
InlineInv ==
    run # None =>
        /\ outcome = "saved"
        /\ run.evidence = Evidence
        /\ run.summary = EvaluatePack(InlineRules, Evidence)

LEMMA InlineStarts == InlineInit => InlineInv
  BY DEF InlineInit, InlineInv

LEMMA InlineKeeps == InlineInv /\ [InlineNext]_inlineVars => InlineInv'
<1> SUFFICES ASSUME InlineInv, [InlineNext]_inlineVars PROVE InlineInv'
  OBVIOUS
<1>1. ASSUME UNCHANGED <<observations, terminal, terminal_state>>
      PROVE  Evidence' = Evidence
  BY <1>1 DEF Evidence, Closed
<1>2. CASE Save
  <2>1. /\ run' = [evidence |-> Evidence,
                   summary |-> EvaluatePack(InlineRules, Evidence)]
        /\ outcome' = "saved"
        /\ UNCHANGED <<observations, terminal, terminal_state>>
    BY <1>2 DEF Save
  <2>2. Evidence' = Evidence
    BY <1>1, <2>1
  <2> QED BY <2>1, <2>2 DEF InlineInv
<1>3. CASE UNCHANGED inlineVars
  <2>1. Evidence' = Evidence
    BY <1>1, <1>3 DEF inlineVars
  <2> QED BY <1>3, <2>1 DEF inlineVars, InlineInv
<1>4. CASE InlineNext /\ ~Save
  <2>1. run' = run /\ outcome # "saved"
    BY <1>4 DEF InlineNext, Reset, ResetFails, Exchange,
                ExchangeFails, TooManyObservations, SaveFails,
                Abandons, Conclude
  <2> QED BY <2>1 DEF InlineInv
<1> QED BY <1>2, <1>3, <1>4

(* An inline run whose target never declared an end, or never gave a final  *)
(* output, does not pass (finalize_evidence, trace_quality).                *)
THEOREM OpenEndsNeverPass ==
    ASSUME InlineAssumption
    PROVE  InlineSpec => []OpenEndNeverPasses
<1>1. ASSUME InlineInv, run # None, Demanding,
             ~terminal \/ \A i \in DOMAIN observations : observations[i].type # "final_output"
      PROVE  run.summary.verdict # "PASS"
  <2> DEFINE events == NormalizeObservations(Closed(observations))
  <2>1. Evidence =
            FinalizeEvidence(terminal_state, events, IF terminal THEN {} ELSE {"non_terminal"})
    BY DEF Evidence
  <2>2. ASSUME terminal PROVE "missing_terminal" \in AssessTraceQuality(events)
    <3>1. Closed(observations) = observations
      BY <2>2 DEF Closed
    <3>2. /\ DOMAIN events = DOMAIN observations
          /\ \A i \in DOMAIN events : events[i].type = observations[i].type
      BY <3>1 DEF NormalizeObservations
    <3>3. ~\E i \in DOMAIN events : events[i].type = "final_output"
      BY <1>1, <2>2, <3>2
    <3> HIDE DEF events
    <3> QED BY <3>3 DEF AssessTraceQuality
  <2> HIDE DEF events
  <2>3. Evidence.quality = "insufficient"
    <3>1. PICK defects : defects = AssessTraceQuality(events)
                                    \cup (IF terminal THEN {} ELSE {"non_terminal"})
      OBVIOUS
    <3>2. defects \cap BlockingDefects # {}
      <4>1. {"missing_terminal", "non_terminal"} \subseteq BlockingDefects
        BY DEF BlockingDefects
      <4> QED BY <2>2, <3>1, <4>1
    <3>3. QualityOf(defects) = "insufficient"
      BY <3>2 DEF QualityOf
    <3> QED BY <2>1, <3>1, <3>3 DEF FinalizeEvidence
  <2>4. run.summary = EvaluatePack(InlineRules, Evidence)
    BY <1>1 DEF InlineInv
  <2> QED BY <1>1, <2>3, <2>4, InsufficientFallsBack
          DEF InlineAssumption, Demanding
<1>2. InlineInv => OpenEndNeverPasses
  BY <1>1 DEF OpenEndNeverPasses
<1> QED BY <1>2, InlineStarts, InlineKeeps, PTL DEF InlineSpec

(* What was collected are lists of observations.                            *)
Observed(q) ==
    /\ q \in Seq(Range(q))
    /\ \A i \in DOMAIN q : {"type", "attrs"} \subseteq DOMAIN q[i]

LEMMA ObservedTogether ==
    ASSUME NEW p, Observed(p), NEW q, Observed(q)
    PROVE  Observed(p \o q)
<1> DEFINE S == Range(p) \cup Range(q)
           r == p \o q
<1>1. p \in Seq(S) /\ q \in Seq(S)
  <2>1. p \in Seq(Range(p)) /\ q \in Seq(Range(q))
    BY DEF Observed
  <2> QED BY <2>1
<1> HIDE DEF S
<1>2. /\ r \in Seq(S)
      /\ Len(p) \in Nat /\ DOMAIN p = 1..Len(p)
      /\ Len(q) \in Nat /\ DOMAIN q = 1..Len(q)
      /\ DOMAIN r = 1..(Len(p) + Len(q))
      /\ \A i \in 1..Len(p) : r[i] = p[i]
      /\ \A i \in 1..Len(q) : r[Len(p) + i] = q[i]
  BY <1>1
<1> HIDE DEF r
<1>3. \A i \in DOMAIN r : \/ i \in DOMAIN p /\ r[i] = p[i]
                          \/ \E j \in DOMAIN q : r[i] = q[j]
  <2> TAKE i \in DOMAIN r
  <2>1. CASE i \in 1..Len(p)
    BY <1>2, <2>1
  <2>2. CASE i \notin 1..Len(p)
    <3>1. i - Len(p) \in 1..Len(q) /\ Len(p) + (i - Len(p)) = i
      BY <1>2, <2>2
    <3> QED BY <1>2, <3>1
  <2> QED BY <2>1, <2>2
<1>4. r \in Seq(Range(r))
  <2>1. \A i \in 1..Len(r) : r[i] \in Range(r)
    BY <1>2 DEF Range
  <2> QED BY <1>2, <2>1
<1>5. Observed(r)
  BY <1>3, <1>4 DEF Observed
<1> QED BY <1>5 DEF r

LEMMA ObservedAnswer ==
    ASSUME InlineAssumption, NEW answer \in Responses, NEW state
    PROVE  Observed(WithState(answer.events, state))
<1>1. PICK events : events = answer.events
  OBVIOUS
<1>2. Observed(events)
  BY <1>1 DEF InlineAssumption, Observed
<1> DEFINE w == WithState(events, state)
<1>3. DOMAIN w = DOMAIN events
  BY DEF WithState
<1>4. \A i \in DOMAIN events : {"type", "attrs"} \subseteq DOMAIN w[i]
  BY <1>2 DEF WithState, Observed
<1>5. Len(events) \in Nat /\ DOMAIN events = 1..Len(events)
  <2>1. events \in Seq(Range(events))
    BY <1>2 DEF Observed
  <2> QED BY <2>1
<1>6. w \in Seq(Range(w))
  <2>1. w = [i \in 1..Len(events) |-> w[i]]
    BY <1>5 DEF WithState
  <2>2. \A i \in 1..Len(events) : w[i] \in Range(w)
    BY <1>3, <1>5 DEF Range
  <2> HIDE DEF w
  <2>3. w \in [1..Len(events) -> Range(w)]
    BY <2>1, <2>2
  <2> QED BY <1>5, <2>3, SeqDef
<1> HIDE DEF w
<1>7. Observed(w)
  BY <1>3, <1>4, <1>6 DEF Observed
<1> QED BY <1>1, <1>7 DEF w

LEMMA ObservedInput ==
    ASSUME NEW kind
    PROVE  Observed(<<ScenarioInput(kind)>>)
<1>1. PICK o : o = ScenarioInput(kind)
  OBVIOUS
<1>2. {"type", "attrs"} \subseteq DOMAIN o
  BY <1>1 DEF ScenarioInput
<1>3. Range(<<o>>) = {o}
  BY DEF Range
<1>4. <<o>> \in Seq(Range(<<o>>))
  BY <1>3
<1> QED BY <1>1, <1>2, <1>4 DEF Observed

(* Without a terminal answer a stored run shows no final output and no      *)
(* state of one: a target that goes on after a final output does not leave  *)
(* it in the evidence, whatever its answers contain                         *)
(* (RunTargetEvaluation::execute).                                          *)
THEOREM FinalOutputsAreFinal ==
    ASSUME InlineAssumption
    PROVE  InlineSpec => []FinalOutputIsFinal
<1> DEFINE Inv == InlineInv /\ Observed(observations)
<1>1. InlineInit => Inv
  <2>1. Observed(<<>>)
    BY DEF Observed
  <2> QED BY <2>1, InlineStarts DEF InlineInit
<1>2. Inv /\ [InlineNext]_inlineVars => Inv'
  <2> SUFFICES ASSUME Observed(observations), [InlineNext]_inlineVars
               PROVE  Observed(observations)'
    BY InlineKeeps
  <2>1. CASE Exchange
    <3>1. PICK r \in Responses :
            observations' = observations \o <<ScenarioInput(scenario[answered + 1])>>
                                         \o WithState(r.events, r.state)
      BY <2>1 DEF Exchange
    <3>2. PICK now2 : now2 = observations \o <<ScenarioInput(scenario[answered + 1])>>
      OBVIOUS
    <3>3. Observed(now2)
      BY <3>2, ObservedTogether, ObservedInput
    <3>4. Observed(now2 \o WithState(r.events, r.state))
      BY <3>3, ObservedTogether, ObservedAnswer
    <3> QED BY <3>1, <3>2, <3>4
  <2>2. CASE ~Exchange
    <3>1. observations' = observations
      BY <2>2 DEF InlineNext, Reset, ResetFails, ExchangeFails,
                  TooManyObservations, Save, SaveFails, Abandons,
                  inlineVars
    <3> QED BY <3>1
  <2> QED BY <2>1, <2>2
<1>3. Inv => FinalOutputIsFinal
  <2> SUFFICES ASSUME InlineInv, Observed(observations), run # None, ~terminal,
                      NEW i \in DOMAIN run.evidence.events
               PROVE  /\ run.evidence.events[i].type # "final_output"
                      /\ "terminal_state" \in DOMAIN run.evidence.events[i].attrs
                            => observations[i].type # "final_output"
    BY DEF FinalOutputIsFinal
  <2> DEFINE closed == Closed(observations)
  <2>1. run.evidence.events = NormalizeObservations(closed)
    BY DEF InlineInv, Evidence, FinalizeEvidence
  <2>2. DOMAIN closed = DOMAIN observations
    BY DEF Closed
  <2>3. i \in DOMAIN closed /\ run.evidence.events[i].type = closed[i].type
        /\ run.evidence.events[i].attrs = Redacted(closed[i].attrs, Allowlist)
    BY <2>1 DEF NormalizeObservations
  <2>4. /\ closed[i].type # "final_output"
        /\ "terminal_state" \in DOMAIN closed[i].attrs => observations[i].type # "final_output"
    <3>1. PICK o : o = observations[i]
      OBVIOUS
    <3>2. {"type", "attrs"} \subseteq DOMAIN o
      BY <2>2, <2>3, <3>1 DEF Observed
    <3>3. CASE o.type = "final_output"
      <4>1. closed[i] = [o EXCEPT !.type = "agent_start",
                                  !.attrs = Without(@, {"terminal_state"})]
        BY <2>2, <2>3, <3>1, <3>3 DEF Closed, Without
      <4>2. /\ closed[i].type = "agent_start"
            /\ closed[i].attrs = Without(o.attrs, {"terminal_state"})
        BY <3>2, <4>1
      <4> QED BY <4>2 DEF Without, Restrict
    <3>4. CASE o.type # "final_output"
      <4>1. closed[i] = o
        BY <2>2, <2>3, <3>1, <3>4 DEF Closed
      <4> QED BY <3>1, <3>4, <4>1
    <3> QED BY <3>3, <3>4
  <2>5. DOMAIN Redacted(closed[i].attrs, Allowlist) \subseteq DOMAIN closed[i].attrs
    BY DEF Redacted, Restrict
  <2> QED BY <2>3, <2>4, <2>5
<1> QED BY <1>1, <1>2, <1>3, PTL DEF InlineSpec

-----------------------------------------------------------------------------
(* The command line, for any pipeline, timeouts, intervals and whatever the *)
(* run does between two statements of a request.  What a wait remembers was *)
(* read one statement at a time while the run went on; it stays right       *)
(* because an end is never left and a summary never replaced (RunMovesOn),  *)
(* and SeenStands says so of every place of a command.                      *)

Ends == {"completed", "cancelled", "failed"}

Asking == {"check", "read", "read summary", "report", "sleep"}

CommandSteps == {"idle", "post", "answer", "exit"} \cup Asking

TypesInv ==
    /\ row \in Runs \cup {None}
    /\ Len(script) \in Nat /\ called \in 0..Len(script)
    /\ flags.strict \in BOOLEAN
    /\ stands.step \in CommandSteps
    /\ stands.step \in {"read summary", "report"} => stands.state \in RunStates
    /\ At("exit") => stands.code \in {0, 1, 2}

(* A run is completed with a summary only, and a run whose completion was   *)
(* asked for has left the collecting state for good.                        *)
RunInv ==
    row # None => /\ row.state = "completed" => row.summary # None
                  /\ row.completion = "explicit" => row.state \notin {"created", "collecting"}

(* A command that waits is in the loop, and the others are not.             *)
PlaceInv ==
    /\ stands.step \in Asking => Command = "wait"
    /\ stands.step \in {"post", "answer"} => Command # "wait"

(* What a command was told and has not yet reported.                        *)
AnswerInv ==
    At("answer") =>
        \/ Command = "judge" /\ offline \in Verdicts
        \/ Command = "start" /\ row # None
        \/ Command = "complete" /\ row # None /\ row.completion = "explicit"

(* What a wait has read of the run still stands if the run had ended.       *)
SeenStands ==
    stands.step \in {"read summary", "report"} =>
        /\ row # None
        /\ stands.state \in Ends => row.state = stands.state
        /\ At("report") /\ stands.state = "completed" =>
               stands.summary # None /\ stands.summary = row.summary

ExitInv ==
    At("exit") =>
        \/ /\ stands.why = "accepted" /\ row # None
           /\ Command = "complete" => row.completion = "explicit"
        \/ /\ stands.why = "verdict" /\ Command = "judge"
           /\ (stands.code = 0 <=> Passes(offline))
        \/ /\ stands.why = "verdict" /\ Command = "wait" /\ row # None
           /\ row.state = "completed" /\ (stands.code = 0 <=> Passes(row.summary))
        \/ stands.why = "ended" /\ row # None /\ row.state \in {"cancelled", "failed"}
        \/ stands.why \in {"error", "late"} /\ stands.code = 2

CommandInv ==
    TypesInv /\ RunInv /\ PlaceInv /\ AnswerInv /\ SeenStands /\ ExitInv

-----------------------------------------------------------------------------
LEMMA CommandStarts ==
    ASSUME CommandAssumption, CommandInit
    PROVE  CommandInv
  <1>1. TypesInv
    BY DEF CommandAssumption, CommandInit, TypesInv, CommandSteps, At, Asking
  <1>2. RunInv /\ PlaceInv /\ AnswerInv /\ SeenStands /\ ExitInv
    BY DEF CommandInit, RunInv, PlaceInv, AnswerInv, SeenStands, ExitInv, At, Asking
  <1> QED BY <1>1, <1>2 DEF CommandInv

(* What a step of the run may do: it ends once, and keeps what it ended     *)
(* with.                                                                    *)
LEMMA RunMovesOn ==
    ASSUME CommandAssumption, CommandInv,
           \/ \E state \in RunStates : LaneMoves(state)
           \/ \E verdict \in Verdicts : LaneJudges(verdict)
    PROVE  /\ row # None /\ row' \in Runs /\ row' # None
           /\ row.state \in Ends => row'.state = row.state
           /\ row.summary # None => row'.summary = row.summary
           /\ row.completion = "explicit" => row'.completion = "explicit"
           /\ RunInv'
           /\ UNCHANGED <<offline, flags, called, script, now, stands>>
  <1> USE DEF CommandInv, TypesInv, RunInv, Runs, RunCompletions, CommandAssumption, Ends
  <1>1. CASE \E state \in RunStates : LaneMoves(state)
    <2> PICK state \in RunStates : LaneMoves(state)
      BY <1>1
    <2>1. row # None /\ Allowed(row.state, state)
          /\ row' = [row EXCEPT !.state = state,
                                !.completion = IF state = "settling" THEN "signal" ELSE @]
      BY DEF LaneMoves
    <2>2. row \in Runs /\ row' \in Runs
      BY <2>1
    <2>3. /\ row'.state = state /\ row'.summary = row.summary
          /\ row'.completion = IF state = "settling" THEN "signal" ELSE row.completion
      BY <2>1, <2>2
    <2>4. row.state \notin Ends
      BY <2>1 DEF Allowed, IsTerminal
    <2>5. row.completion = "explicit" => state \notin {"settling", "created", "collecting"}
      BY <2>1 DEF Allowed, IsTerminal
    <2>6. RunInv'
      BY <2>1, <2>2, <2>3, <2>5 DEF LaneMoves
    <2> QED BY <2>1, <2>2, <2>3, <2>4, <2>5, <2>6 DEF LaneMoves
  <1>2. CASE \E verdict \in Verdicts : LaneJudges(verdict)
    <2> PICK verdict \in Verdicts : LaneJudges(verdict)
      BY <1>2
    <2>1. row \in Runs /\ row' = [row EXCEPT !.summary = verdict] /\ row' \in Runs
      BY DEF LaneJudges
    <2> QED BY <2>1 DEF LaneJudges
  <1> QED BY <1>1, <1>2

LEMMA RunStep ==
    ASSUME CommandAssumption, CommandInv,
           \/ \E state \in RunStates : LaneMoves(state)
           \/ \E verdict \in Verdicts : LaneJudges(verdict)
    PROVE  CommandInv'
  <1> USE RunMovesOn DEF CommandInv
  <1>1. TypesInv'
    BY DEF TypesInv, At
  <1>2. PlaceInv' /\ AnswerInv'
    BY DEF PlaceInv, AnswerInv, At, Command
  <1>3. SeenStands'
    BY DEF SeenStands, At, TypesInv, CommandSteps, Asking, Ends
  <1>4. ExitInv'
    <2>1. CASE ~At("exit")
      BY <2>1 DEF ExitInv, At
    <2>2. CASE At("exit")
      BY <2>2 DEF ExitInv, At, Command, Passes, Ends, RunInv
    <2> QED BY <2>1, <2>2
  <1> QED BY <1>1, <1>2, <1>3, <1>4

LEMMA ExitCodeOfVerdict ==
    ASSUME NEW verdict \in Verdicts, flags.strict \in BOOLEAN
    PROVE  ExitCode(verdict) \in {0, 1} /\ (ExitCode(verdict) = 0 <=> Passes(verdict))
  <1>1. CASE verdict = "PASS"
    BY <1>1 DEF ExitCode, Passes
  <1>2. CASE verdict = "FAIL"
    BY <1>2 DEF ExitCode, Passes
  <1>3. CASE verdict = "INCONCLUSIVE" /\ flags.strict
    BY <1>3 DEF ExitCode, Passes
  <1>4. CASE verdict = "INCONCLUSIVE" /\ ~flags.strict
    BY <1>4 DEF ExitCode, Passes
  <1> QED BY <1>1, <1>2, <1>3, <1>4 DEF Verdicts

(* A command that is called, does something or gets its answer.             *)
LEMMA CommandStep ==
    ASSUME CommandAssumption, CommandInv,
           \/ Call \/ Fails \/ StartRun \/ Complete \/ Answered
           \/ \E verdict \in Verdicts : Judge(verdict)
    PROVE  CommandInv'
  <1> USE DEF CommandInv
  <1>1. CASE Call
    <2>1. stands'.step = IF Command' = "wait" THEN "check" ELSE "post"
      BY <1>1 DEF Call, Command
    <2>2. called' \in 0..Len(script)
      <3>1. Len(script) \in Nat /\ called \in 0..Len(script)
        BY DEF TypesInv
      <3>2. called < Len(script) /\ called' = called + 1
        BY <1>1 DEF Call
      <3> QED BY <3>1, <3>2
    <2>3. TypesInv'
      BY <1>1, <2>1, <2>2 DEF Call, TypesInv, CommandSteps, At, Asking
    <2> QED BY <1>1, <2>1, <2>3 DEF Call, RunInv, PlaceInv, AnswerInv, SeenStands,
             ExitInv, At, Asking, Command
  <1>2. CASE Fails
    BY <1>2 DEF Fails, Exit, TypesInv, CommandSteps, At, Asking, RunInv, PlaceInv,
             AnswerInv, SeenStands, ExitInv, Command
  <1>3. CASE StartRun
    <2>1. row' \in Runs /\ row' # None
      BY <1>3, CommandAssumption DEF CommandAssumption, StartRun, Runs, RunCompletions,
             RunStates
    <2>2. RunInv'
      BY <1>3, <2>1, CommandAssumption DEF CommandAssumption, StartRun, RunInv
    <2>3. TypesInv'
      BY <1>3, <2>1 DEF StartRun, TypesInv, CommandSteps, At, Asking
    <2> QED BY <1>3, <2>1, <2>2, <2>3 DEF StartRun, PlaceInv, AnswerInv, SeenStands,
             ExitInv, At,
                 Asking, Command
  <1>4. CASE Complete
    <2>1. row \in Runs /\ row' \in Runs
      BY <1>4 DEF Complete, TypesInv, Runs, RunCompletions, RunStates
    <2>2. /\ row'.completion = "explicit" /\ row'.summary = row.summary
          /\ row'.state = IF row.completion = None THEN "settling" ELSE row.state
      BY <1>4, <2>1 DEF Complete, Runs
    <2>3. RunInv'
      BY <1>4, <2>1, <2>2 DEF Complete, RunInv, CanBeginSettling
    <2>4. row' # None
      BY <2>1, CommandAssumption DEF CommandAssumption
    <2> QED BY <1>4, <2>1, <2>2, <2>3, <2>4 DEF Complete, TypesInv, CommandSteps, At,
             Asking, PlaceInv, AnswerInv, SeenStands, ExitInv, Command
  <1>5. CASE Answered
    <2>1. ASSUME Command = "judge" PROVE CommandInv'
      <3>1. stands' = [code |-> ExitCode(offline), step |-> "exit", why |-> "verdict"]
        BY <1>5, <2>1 DEF Answered, Exit
      <3>2. ExitCode(offline) \in {0, 1} /\ (ExitCode(offline) = 0 <=> Passes(offline))
        BY <1>5, <2>1, ExitCodeOfVerdict DEF AnswerInv, TypesInv, Answered
      <3> QED BY <1>5, <2>1, <3>1, <3>2 DEF Answered, TypesInv, CommandSteps, At, Asking,
             RunInv, PlaceInv, AnswerInv, SeenStands, ExitInv, Command, Passes
    <2>2. ASSUME Command # "judge" PROVE CommandInv'
      <3>1. stands' = [code |-> 0, step |-> "exit", why |-> "accepted"]
        BY <1>5, <2>2 DEF Answered, Exit
      <3>2. TypesInv'
        BY <1>5, <3>1 DEF Answered, TypesInv, CommandSteps, At, Asking
      <3> QED BY <1>5, <2>2, <3>1, <3>2 DEF Answered, RunInv, PlaceInv, AnswerInv,
             SeenStands,
                   ExitInv, At, Asking, Command
    <2> QED BY <2>1, <2>2
  <1>6. CASE \E verdict \in Verdicts : Judge(verdict)
    BY <1>6 DEF Judge, TypesInv, CommandSteps, At, Asking, RunInv, PlaceInv, AnswerInv,
             SeenStands, ExitInv, Command
  <1> QED BY <1>1, <1>2, <1>3, <1>4, <1>5, <1>6

(* A step of a wait: the run is left alone, and what was read of it is kept *)
(* until it is reported.                                                    *)
LEMMA WaitStep ==
    ASSUME CommandAssumption, CommandInv, Wait
    PROVE  CommandInv'
  <1> USE DEF CommandInv
  <1>1. CASE Check \/ Retried \/ Rejected \/ Sleep
    <2>1. /\ UNCHANGED <<row, offline, flags, called, script>>
          /\ stands.step \in Asking
      BY <1>1 DEF Check, Retried, Rejected, Sleep, Waits, Exit, At, Asking
    <2>2. \/ stands'.step \in {"read", "sleep", "check"}
          \/ stands'.step = "exit" /\ stands'.code = 2 /\ stands'.why \in {"late", "error"}
      <3>1. \/ \E step \in {"read", "sleep", "check"} : stands' = [step |-> step]
            \/ Exit(2, "late") \/ Exit(2, "error")
        BY <1>1 DEF Check, Retried, Rejected, Sleep, Waits
      <3>2. CASE Exit(2, "late")
        BY <3>2 DEF Exit
      <3>3. CASE Exit(2, "error")
        BY <3>3 DEF Exit
      <3> QED BY <3>1, <3>2, <3>3
    <2>3. TypesInv'
      BY <2>1, <2>2 DEF TypesInv, CommandSteps, At, Asking
    <2> QED BY <2>1, <2>2, <2>3 DEF RunInv, PlaceInv, AnswerInv, SeenStands, ExitInv, At,
             Asking, Command
  <1>2. CASE ReadRun
    <2>1. row \in Runs
      BY <1>2 DEF ReadRun, TypesInv
    <2> QED BY <1>2, <2>1 DEF ReadRun, Waits, TypesInv, CommandSteps, At, Asking, Runs,
             RunInv, PlaceInv, AnswerInv, SeenStands, ExitInv, Command
  <1>3. CASE ReadSummary
    <2>1. row \in Runs /\ stands.state \in RunStates
      BY <1>3 DEF ReadSummary, TypesInv, SeenStands, At, CommandSteps, Asking
    <2> QED BY <1>3, <2>1 DEF ReadSummary, Waits, TypesInv, CommandSteps, At, Asking,
             Runs, RunInv, PlaceInv, AnswerInv, SeenStands, ExitInv, Command, Ends
  <1>4. CASE Report
    <2> DEFINE seen == stands.summary
    <2>1. /\ row # None /\ row \in Runs /\ Command = "wait"
          /\ UNCHANGED <<row, offline, flags, called, script>>
          /\ stands.state \in RunStates
          /\ stands.state \in Ends => row.state = stands.state
      BY <1>4 DEF Report, TypesInv, SeenStands, At, CommandSteps, Asking, PlaceInv
    <2>2. CASE stands.state = "completed"
      <3>1. seen # None /\ seen = row.summary /\ seen \in Verdicts
        BY <1>4, <2>1, <2>2 DEF Report, SeenStands, At, Runs
      <3>2. stands' = [code |-> ExitCode(seen), step |-> "exit", why |-> "verdict"]
        BY <1>4, <2>2, <3>1 DEF Report, Exit
      <3>3. ExitCode(seen) \in {0, 1} /\ (ExitCode(seen) = 0 <=> Passes(seen))
        BY <3>1, ExitCodeOfVerdict DEF TypesInv
      <3> QED BY <2>1, <2>2, <3>1, <3>2, <3>3 DEF TypesInv, CommandSteps, At, Asking,
             RunInv, PlaceInv, AnswerInv, SeenStands, ExitInv, Command, Passes, Ends
    <2>3. CASE stands.state \in {"cancelled", "failed"}
      <3>1. stands' = [code |-> 2, step |-> "exit", why |-> "ended"]
        BY <1>4, <2>3 DEF Report, Exit
      <3> QED BY <2>1, <2>3, <3>1 DEF TypesInv, CommandSteps, At, Asking, RunInv,
             PlaceInv, AnswerInv, SeenStands, ExitInv, Command, Ends
    <2>4. CASE stands.state \notin Ends
      <3>1. stands' = [step |-> "sleep"]
        BY <1>4, <2>4 DEF Report, Ends
      <3> QED BY <2>1, <3>1 DEF TypesInv, CommandSteps, At, Asking, RunInv, PlaceInv,
             AnswerInv, SeenStands, ExitInv, Command
    <2> QED BY <2>2, <2>3, <2>4 DEF Ends
  <1> QED BY <1>1, <1>2, <1>3, <1>4 DEF Wait

LEMMA CommandKeeps ==
    ASSUME CommandAssumption, CommandInv, [CommandNext]_commandVars
    PROVE  CommandInv'
  <1>1. CASE UNCHANGED commandVars
    <2>1. TypesInv' /\ RunInv'
      BY <1>1 DEF commandVars, CommandInv, TypesInv, RunInv, At
    <2>2. PlaceInv' /\ AnswerInv' /\ SeenStands'
      BY <1>1 DEF commandVars, CommandInv, PlaceInv, AnswerInv, SeenStands, At, Command
    <2>3. ExitInv'
      BY <1>1 DEF commandVars, CommandInv, ExitInv, At, Command, Passes
    <2> QED BY <2>1, <2>2, <2>3 DEF CommandInv
  <1> QED BY <1>1, RunStep, CommandStep, WaitStep DEF CommandNext

(* Every reachable state of a command and of the run has its type.          *)
THEOREM CommandTypes ==
    ASSUME CommandAssumption
    PROVE  CommandSpec => []CommandTypeOK
  <1>1. CommandInit => CommandInv
    BY CommandStarts
  <1>2. CommandInv /\ [CommandNext]_commandVars => CommandInv'
    BY CommandKeeps
  <1>3. ASSUME CommandInv PROVE CommandTypeOK
    <2>1. row # None => row.state \in RunStates /\ row.completion \in RunCompletions
                        /\ row.summary \in Verdicts \cup {None}
      BY <1>3 DEF CommandInv, TypesInv, Runs
    <2>2. called \in 0..Len(script) /\ (At("exit") => stands.code \in {0, 1, 2})
      BY <1>3 DEF CommandInv, TypesInv
    <2> QED BY <2>1, <2>2 DEF CommandTypeOK
  <1> QED BY <1>1, <1>2, <1>3, PTL DEF CommandSpec

(* What a command exits with is true of the run it speaks of, although the  *)
(* run went on between the statements of every request, and a wait that saw *)
(* a completed run has its verdict (wait_for_run and loco_evaluation).      *)
THEOREM ExitsAreTrue ==
    ASSUME CommandAssumption
    PROVE  CommandSpec => []ExitIsTrue
  <1>1. CommandInit => CommandInv
    BY CommandStarts
  <1>2. CommandInv /\ [CommandNext]_commandVars => CommandInv'
    BY CommandKeeps
  <1>3. ASSUME CommandInv, At("exit") PROVE ExitIsTrue
    <2> USE <1>3 DEF CommandInv
    <2>1. CASE stands.why = "accepted"
      BY <2>1 DEF ExitInv, ExitIsTrue, RunInv
    <2>2. CASE stands.why = "verdict" /\ Command = "judge"
      <3>1. (stands.code = 0) = Passes(offline)
        BY <2>2 DEF ExitInv, Passes
      <3> QED BY <2>2, <3>1 DEF ExitIsTrue
    <2>3. CASE stands.why = "verdict" /\ Command # "judge"
      <3>1. /\ Command = "wait" /\ row.state = "completed"
            /\ (stands.code = 0) = Passes(row.summary)
        BY <2>3 DEF ExitInv, Passes
      <3> QED BY <2>3, <3>1 DEF ExitIsTrue
    <2>4. CASE stands.why = "ended"
      BY <2>4 DEF ExitInv, ExitIsTrue
    <2>5. CASE stands.why \notin {"accepted", "verdict", "ended"}
      BY <2>5 DEF ExitInv, ExitIsTrue
    <2> QED BY <2>1, <2>2, <2>3, <2>4, <2>5
  <1>4. CommandInv => ExitIsTrue
    BY <1>3 DEF ExitIsTrue
  <1> QED BY <1>1, <1>2, <1>4, PTL DEF CommandSpec

(* The time a wait has spent is a number and no more than its deadline.     *)
ClockInv ==
    /\ flags.timeout \in Nat /\ flags.interval \in Nat /\ RequestMost \in Nat
    /\ now \in 0..Deadline

(* No request and no pause takes a wait past its deadline: the safety half  *)
(* of WaitEnds (wait_for_run, sleep_before_retry).                          *)
THEOREM WaitsWithinDeadline ==
    ASSUME CommandAssumption
    PROVE  CommandSpec => [](now <= Deadline)
  <1> USE DEF ClockInv, Deadline, AtLeastOne
  <1>1. CommandInit => ClockInv
    BY CommandAssumption DEF CommandInit, CommandAssumption
  <1>2. ASSUME ClockInv, [CommandNext]_commandVars PROVE ClockInv'
    <2>1. CASE UNCHANGED <<flags, now>>
      BY <1>2, <2>1
    <2>2. CASE Call
      BY <1>2, <2>2 DEF Call
    <2>3. CASE Report \/ Retried
      <3>1. Deadline \in Nat /\ Remaining \in Nat /\ Patience \in 0..Remaining
        BY <1>2 DEF Patience, Lesser, Remaining
      <3>2. PICK d \in 0..Patience : now' = now + d
        BY <2>3 DEF Report, Retried
      <3>3. flags' = flags
        BY <2>3 DEF Report, Retried
      <3> QED BY <1>2, <3>1, <3>2, <3>3 DEF Remaining
    <2>4. CASE Sleep
      BY <1>2, <2>4 DEF Sleep, Lesser, Remaining
    <2>5. ASSUME CommandNext, ~Call, ~Report, ~Retried, ~Sleep
          PROVE  UNCHANGED <<flags, now>>
      BY <2>5 DEF CommandNext, Wait, Fails, StartRun, Complete, Answered, Judge, LaneMoves,
             LaneJudges, Check, ReadRun, ReadSummary, Rejected, Waits
    <2> QED BY <1>2, <2>1, <2>2, <2>3, <2>4, <2>5 DEF commandVars
  <1>3. ClockInv => now <= Deadline
    OBVIOUS
  <1> QED BY <1>1, <1>2, <1>3, PTL DEF CommandSpec
================================================================================
