------------------------------ MODULE CausalOrder ------------------------------
(****************************************************************************)
(* The causal order of the spans of one run: Kahn's algorithm over parents  *)
(* and links, with a sorted ready set, as causal_order runs it when a run   *)
(* is finalized.  One action is one iteration of its loop.                  *)
(*                                                                          *)
(* A span is a number: the rank of its (trace id, span id) among the spans  *)
(* of the run.  The order in which the spans were read is a state of its    *)
(* own (position), because sort_key ends with it.                           *)
(****************************************************************************)
EXTENDS SpanGraph

CONSTANTS
    Spans,     \* the spans of the run, as ranks of their identities
    Times,     \* the values of started_at
    Unknown    \* a parent or link that names no span of the run

ASSUME SpansAssumption ==
    /\ Spans \subseteq Nat
    /\ IsFiniteSet(Spans)
    /\ Times \subseteq Int
    /\ Unknown \notin Spans \cup {None}
    /\ None \notin Spans

VARIABLES
    parent,    \* parent[s]: the parent span s names
    links,     \* links[s]: the spans s links to
    started,   \* started[s]: started_at
    position,  \* position[s]: index of s in the list that was read
    indegree,  \* causes of s that are not ordered yet
    ready,     \* the spans without such a cause, not ordered yet
    ordered,   \* the order so far
    defects,   \* codes of the defects found
    done       \* whether the function has returned

graph == <<parent, links, started, position>>
vars == <<graph, indegree, ready, ordered, defects, done>>

-----------------------------------------------------------------------------
(* The causal graph. *)

(* An edge of a span to itself is not one; neither is one to an unknown     *)
(* span.  A parent that is also a link counts once.                         *)
Causes(s) == {p \in Spans \ {s} : p = parent[s] \/ p \in links[s]}

(* What the edges alone show; none of it is blocking. *)
EdgeDefects ==
    {"clock_skew" : s \in {c \in Spans : /\ parent[c] \in Spans
                                         /\ started[parent[c]] > started[c]}}
        \cup {"orphan_parent" : s \in {c \in Spans : parent[c] = Unknown}}
        \cup {"orphan_link" : s \in {c \in Spans : Unknown \in links[c]}}

\* Faulty variant of Before: spans of one instant stay in the order read.
BeforeByPosition(a, b) ==
    \/ started[a] < started[b]
    \/ started[a] = started[b] /\ position[a] < position[b]

(* sort_key: started_at, then trace id and span id, then the index. *)
Before(a, b) ==
    \/ started[a] < started[b]
    \/ started[a] = started[b] /\ a < b
    \/ started[a] = started[b] /\ a = b /\ position[a] < position[b]

(* The spans of S in key order: there is one such sequence. *)
Sorted(S) ==
    {q \in [1..Cardinality(S) -> S] :
        \A i, j \in 1..Cardinality(S) : i < j => Before(q[i], q[j])}

Placed == {ordered[i] : i \in DOMAIN ordered}

-----------------------------------------------------------------------------
(* The loop. *)

Graphs ==
    /\ parent \in [Spans -> Spans \cup {None, Unknown}]
    /\ links \in [Spans -> SUBSET (Spans \cup {Unknown})]
    /\ started \in [Spans -> Times]
    /\ position \in [Spans -> Nat]
    /\ \A s, t \in Spans : position[s] = position[t] => s = t

\* Faulty variant of Start: an edge of a span to itself is counted.
StartCountsSelf ==
    /\ indegree = [s \in Spans |-> Cardinality({p \in Spans : p = parent[s] \/ p \in links[s]})]
    /\ ready = {s \in Spans : indegree[s] = 0}
    /\ ordered = <<>>
    /\ defects = EdgeDefects
    /\ done = FALSE

Start ==
    /\ indegree = [s \in Spans |-> Cardinality(Causes(s))]
    /\ ready = {s \in Spans : indegree[s] = 0}
    /\ ordered = <<>>
    /\ defects = EdgeDefects
    /\ done = FALSE

Init == Graphs /\ Start

\* Faulty variant of Released: a child is released by its first cause.
ReleasedByFirst(next) == [s \in Spans |-> IF next \in Causes(s) THEN 0 ELSE indegree[s]]

Released(next) ==
    [s \in Spans |-> IF next \in Causes(s) /\ indegree[s] > 0
                     THEN indegree[s] - 1 ELSE indegree[s]]

(* ready.pop_first(), and the children it was the last cause of. *)
Pop ==
    /\ ~done
    /\ \E next \in ready :
        /\ \A s \in ready \ {next} : Before(next, s)
        /\ ordered' = Append(ordered, next)
        /\ indegree' = Released(next)
        /\ ready' = (ready \ {next})
                        \cup {s \in Spans : next \in Causes(s) /\ indegree'[s] = 0}
    /\ UNCHANGED <<graph, defects, done>>

ReturnOrder ==
    /\ ~done /\ ready = {}
    /\ Placed = Spans
    /\ done' = TRUE
    /\ UNCHANGED <<graph, indegree, ready, ordered, defects>>

(* The spans of a cycle, and those behind one, follow in key order. *)
ReturnCycle ==
    /\ ~done /\ ready = {}
    /\ Placed # Spans
    /\ done' = TRUE
    /\ \E rest \in Sorted(Spans \ Placed) : ordered' = ordered \o rest
    /\ defects' = defects \cup {"causal_cycle"}
    /\ UNCHANGED <<graph, indegree, ready>>

Next == Pop \/ ReturnOrder \/ ReturnCycle

Spec == Init /\ [][Next]_vars
FairSpec == Spec /\ WF_vars(Next)

-----------------------------------------------------------------------------
(* Properties. *)

(* Type invariant. *)
OrderTypeOK ==
    /\ Graphs
    /\ indegree \in [Spans -> Nat]
    /\ ready \subseteq Spans
    /\ ordered \in Seq(Spans)
    /\ defects \subseteq {"clock_skew", "orphan_parent", "orphan_link", "causal_cycle"}
    /\ done \in BOOLEAN

(* Why the order is right: the counter of a span is the number of its       *)
(* causes that have no place yet, ready is exactly what the counters allow, *)
(* and a placed span has all its causes before it.                          *)
LoopInv ==
    ~done =>
        /\ \A s \in Spans : indegree[s] = Cardinality(Causes(s) \ Placed)
        /\ ready = {s \in Spans \ Placed : Causes(s) \subseteq Placed}
        /\ "causal_cycle" \notin defects

CausesFirst ==
    \A i \in DOMAIN ordered : \A p \in Causes(ordered[i]) :
        \E j \in 1..(i - 1) : ordered[j] = p

(* Evidence without a causal_cycle defect lists every span after its parent *)
(* and after every span it links to, whatever the clocks said.              *)
LinearExtension ==
    done /\ "causal_cycle" \notin defects => CausesFirst /\ Placed = Spans

(* Every span of the run is one event of the evidence, exactly once, even   *)
(* when the graph has a cycle.                                              *)
EverySpanOnce ==
    /\ \A i, j \in DOMAIN ordered : ordered[i] = ordered[j] => i = j
    /\ done => Placed = Spans

(* Some spans wait for each other. *)
Cyclic == \E S \in SUBSET Spans :
    S # {} /\ \A s \in S : Causes(s) \cap S # {}

(* The blocking defect is reported exactly when the parents and links       *)
(* contain a cycle of two spans or more: forged or broken relations never   *)
(* pass as an order, and sound ones are never refused.                      *)
CycleReported == done => ("causal_cycle" \in defects <=> Cyclic)

SpanRecords ==
    [s \in Spans |-> [parent |-> parent[s], links |-> links[s], started |-> started[s]]]

(* What causal_order returns is a function of the spans: it never depends   *)
(* on the order in which they were received or read.  It is the order, and  *)
(* the defects are those, that the evidence of SpanEvidence is built with.  *)
ReturnsSpanOrder ==
    done => /\ ordered = SpanOrder(SpanRecords)
            /\ defects = CausalDefects(SpanRecords)

(* The function returns, cycles or not. *)
Returns == <>done
================================================================================
