--------------------------- MODULE CausalOrderProofs ---------------------------
(****************************************************************************)
(* The causal order is right for every finite set of spans: an order        *)
(* without the causal_cycle defect is a linear extension of parents and     *)
(* links, and the defect is reported exactly when there is a cycle.         *)
(****************************************************************************)
EXTENDS CausalOrder, SpanGraphProofs

(* The inductive invariant: LoopInv and CausesFirst, the shapes they need,  *)
(* and that no member of a cycle is placed before the function returns.     *)
CycleMembers == UNION {S \in SUBSET Spans : \A s \in S : Causes(s) \cap S # {}}

ShapeInv ==
    /\ Graphs
    /\ indegree \in [Spans -> Nat]
    /\ ready \subseteq Spans
    /\ ordered \in Seq(Spans)
    /\ defects \subseteq {"clock_skew", "orphan_parent", "orphan_link", "causal_cycle"}
    /\ done \in BOOLEAN

CauseInv ==
    "causal_cycle" \notin defects =>
        /\ CausesFirst
        /\ Placed \cap CycleMembers = {}
        /\ done => Placed = Spans

ReturnInv ==
    done /\ "causal_cycle" \in defects => CycleMembers # {}

OrderInv == ShapeInv /\ LoopInv /\ CauseInv /\ ReturnInv

-----------------------------------------------------------------------------

(* The causes of a span are a finite set of spans, itself not among them. *)
LEMMA CausesFinite ==
    ASSUME NEW s \in Spans
    PROVE  /\ Causes(s) \subseteq Spans \ {s}
           /\ IsFiniteSet(Causes(s))
<1>1. Causes(s) \subseteq Spans \ {s}
  BY DEF Causes
<1>2. Causes(s) \subseteq Spans
  BY <1>1
<1> QED BY <1>1, <1>2, SpansAssumption, FS_Subset

(* A counter at zero: no cause is missing. *)
LEMMA CounterZero ==
    ASSUME NEW s \in Spans, NEW P
    PROVE  /\ Cardinality(Causes(s) \ P) \in Nat
           /\ Cardinality(Causes(s) \ P) = 0 <=> Causes(s) \subseteq P
<1>1. IsFiniteSet(Causes(s) \ P)
  BY CausesFinite, FS_Subset
<1>2. /\ Cardinality(Causes(s) \ P) \in Nat
      /\ Cardinality(Causes(s) \ P) = 0 <=> Causes(s) \ P = {}
  BY <1>1, FS_CardinalityType, FS_EmptySet
<1> QED BY <1>2

(* Placing one more span takes one from the counters of its children. *)
LEMMA CounterStep ==
    ASSUME NEW s \in Spans, NEW P, NEW n \in Spans, n \notin P
    PROVE  Cardinality(Causes(s) \ (P \cup {n}))
             = IF n \in Causes(s) /\ Cardinality(Causes(s) \ P) > 0
               THEN Cardinality(Causes(s) \ P) - 1
               ELSE Cardinality(Causes(s) \ P)
<1> DEFINE R == Causes(s) \ P
<1>1. IsFiniteSet(R)
  BY CausesFinite, FS_Subset
<1>2. CASE n \in Causes(s)
  <2>1. n \in R
    BY <1>2
  <2>2. Causes(s) \ (P \cup {n}) = R \ {n}
    OBVIOUS
  <2>3. Cardinality(R \ {n}) = Cardinality(R) - 1
    BY <1>1, <2>1, FS_RemoveElement
  <2>4. Cardinality(R) # 0 /\ Cardinality(R) \in Nat
    BY <1>1, <2>1, FS_EmptySet, FS_CardinalityType
  <2> QED BY <1>2, <2>2, <2>3, <2>4
<1>3. CASE n \notin Causes(s)
  <2>1. Causes(s) \ (P \cup {n}) = R
    BY <1>3
  <2> QED BY <1>3, <2>1
<1> QED BY <1>2, <1>3

(* One span more in the order is one element more in Placed. *)
LEMMA AppendPlaced ==
    ASSUME NEW q \in Seq(Spans), NEW n \in Spans
    PROVE  LET r == Append(q, n)
           IN  /\ r \in Seq(Spans)
               /\ DOMAIN r = 1..(Len(q) + 1)
               /\ \A i \in DOMAIN q : r[i] = q[i]
               /\ r[Len(q) + 1] = n
               /\ {r[i] : i \in DOMAIN r} = {q[i] : i \in DOMAIN q} \cup {n}
<1> DEFINE r == Append(q, n)
<1>1. /\ r \in Seq(Spans)
      /\ DOMAIN r = 1..(Len(q) + 1)
      /\ DOMAIN q = 1..Len(q)
      /\ Len(q) \in Nat
      /\ \A i \in DOMAIN q : r[i] = q[i]
      /\ r[Len(q) + 1] = n
  OBVIOUS
<1>2. {r[i] : i \in DOMAIN r} = {q[i] : i \in DOMAIN q} \cup {n}
  <2>1. ASSUME NEW x \in {r[i] : i \in DOMAIN r}
        PROVE  x \in {q[i] : i \in DOMAIN q} \cup {n}
    <3>1. PICK i \in DOMAIN r : x = r[i]
      BY <2>1
    <3>2. i = Len(q) + 1 \/ i \in DOMAIN q
      BY <1>1, <3>1
    <3> QED BY <1>1, <3>1, <3>2
  <2>2. ASSUME NEW x \in {q[i] : i \in DOMAIN q} \cup {n}
        PROVE  x \in {r[i] : i \in DOMAIN r}
    <3>1. CASE x = n
      BY <1>1, <3>1
    <3>2. CASE x \in {q[i] : i \in DOMAIN q}
      <4>1. PICK i \in DOMAIN q : x = q[i]
        BY <3>2
      <4>2. i \in DOMAIN r
        BY <1>1
      <4> QED BY <1>1, <4>1, <4>2
    <3> QED BY <2>2, <3>1, <3>2
  <2> QED BY <2>1, <2>2
<1> QED BY <1>1, <1>2

-----------------------------------------------------------------------------

LEMMA InitOrderInv == Init => OrderInv
<1> SUFFICES ASSUME Init PROVE OrderInv
  OBVIOUS
<1>1. Placed = {}
  BY DEF Init, Start, Placed
<1>2. \A s \in Spans : Causes(s) \ Placed = Causes(s)
  BY <1>1
<1>3. \A s \in Spans : /\ indegree[s] = Cardinality(Causes(s) \ Placed)
                       /\ indegree[s] \in Nat
                       /\ indegree[s] = 0 <=> Causes(s) \subseteq Placed
  BY <1>2, CounterZero DEF Init, Start
<1>4. indegree \in [Spans -> Nat]
  BY <1>3 DEF Init, Start
<1>5. defects \subseteq {"clock_skew", "orphan_parent", "orphan_link"}
  BY DEF Init, Start, EdgeDefects
<1>6. ShapeInv
  <2>1. <<>> \in Seq(Spans)
    OBVIOUS
  <2>2. ready \subseteq Spans /\ ordered \in Seq(Spans) /\ done \in BOOLEAN /\ Graphs
    BY <2>1 DEF Init, Start
  <2> QED BY <1>4, <1>5, <2>2 DEF ShapeInv
<1>7. LoopInv
  BY <1>1, <1>3, <1>5 DEF LoopInv, Init, Start
<1>8. CauseInv
  BY <1>1 DEF CauseInv, CausesFirst, Init, Start
<1> QED BY <1>6, <1>7, <1>8 DEF OrderInv, ReturnInv, Init, Start

(* The graph does not change: what is defined from it alone keeps its value. *)
LEMMA GraphConstant ==
    ASSUME UNCHANGED graph
    PROVE  /\ \A s : Causes(s)' = Causes(s)
           /\ CycleMembers' = CycleMembers
           /\ Cyclic' = Cyclic
           /\ Graphs' = Graphs
BY DEF graph, Causes, CycleMembers, Cyclic, Graphs

LEMMA PopStep ==
    ASSUME OrderInv, Pop
    PROVE  OrderInv'
<1> USE DEF OrderInv
<1>1. PICK n \in ready : /\ ordered' = Append(ordered, n)
                         /\ indegree' = Released(n)
                         /\ ready' = (ready \ {n})
                              \cup {s \in Spans : n \in Causes(s) /\ indegree'[s] = 0}
  BY DEF Pop
<1>2. /\ ~done /\ ~done' /\ done' = done /\ defects' = defects
      /\ UNCHANGED graph
      /\ \A s : Causes(s)' = Causes(s)
      /\ CycleMembers' = CycleMembers
      /\ Graphs' = Graphs
  BY GraphConstant DEF Pop
<1>3. /\ \A s \in Spans : indegree[s] = Cardinality(Causes(s) \ Placed)
      /\ ready = {s \in Spans \ Placed : Causes(s) \subseteq Placed}
      /\ "causal_cycle" \notin defects
  BY <1>2 DEF LoopInv
<1>4. n \in Spans /\ n \notin Placed /\ Causes(n) \subseteq Placed
  BY <1>1, <1>3
<1>5. /\ ordered' \in Seq(Spans)
      /\ DOMAIN ordered' = 1..(Len(ordered) + 1)
      /\ DOMAIN ordered = 1..Len(ordered)
      /\ Len(ordered) \in Nat
      /\ \A i \in DOMAIN ordered : ordered'[i] = ordered[i]
      /\ ordered'[Len(ordered) + 1] = n
      /\ Placed' = Placed \cup {n}
  <2>1. ordered \in Seq(Spans)
    BY DEF ShapeInv
  <2>2. /\ DOMAIN ordered = 1..Len(ordered)
        /\ Len(ordered) \in Nat
    BY <2>1
  <2>3. Placed' = Placed \cup {n}
    BY <1>1, <1>4, <2>1, AppendPlaced DEF Placed
  <2> QED BY <1>1, <1>4, <2>1, <2>2, <2>3, AppendPlaced
<1>6. \A s \in Spans : indegree'[s] = Cardinality(Causes(s) \ Placed')
  <2> SUFFICES ASSUME NEW s \in Spans
               PROVE  indegree'[s] = Cardinality(Causes(s) \ Placed')
    OBVIOUS
  <2>1. indegree'[s] = IF n \in Causes(s) /\ indegree[s] > 0
                       THEN indegree[s] - 1 ELSE indegree[s]
    BY <1>1 DEF Released
  <2>2. Cardinality(Causes(s) \ (Placed \cup {n}))
          = IF n \in Causes(s) /\ Cardinality(Causes(s) \ Placed) > 0
            THEN Cardinality(Causes(s) \ Placed) - 1
            ELSE Cardinality(Causes(s) \ Placed)
    BY <1>4, CounterStep
  <2> QED BY <1>3, <1>5, <2>1, <2>2
<1>7. indegree' \in [Spans -> Nat]
  <2>1. \A s \in Spans : indegree'[s] \in Nat
    BY <1>6, CounterZero
  <2> QED BY <1>1, <2>1 DEF Released
<1>8. ready' = {s \in Spans \ Placed' : Causes(s) \subseteq Placed'}
  <2>1. \A s \in Spans : indegree'[s] = 0 <=> Causes(s) \subseteq Placed'
    BY <1>6, CounterZero
  <2>2. ASSUME NEW s \in Spans, s \in ready'
        PROVE  s \notin Placed' /\ Causes(s) \subseteq Placed'
    <3>1. CASE s \in ready \ {n}
      BY <1>3, <1>5, <3>1
    <3>2. CASE n \in Causes(s) /\ indegree'[s] = 0
      <4>1. Causes(s) \subseteq Placed'
        BY <2>1, <3>2
      <4>2. s # n
        BY <3>2, CausesFinite
      <4>3. s \notin Placed
        <5> SUFFICES ASSUME NEW i \in DOMAIN ordered, ordered[i] = s
                     PROVE  FALSE
          BY DEF Placed
        <5>1. PICK j \in 1..(i - 1) : ordered[j] = n
          BY <1>3, <3>2 DEF CauseInv, CausesFirst
        <5>2. j \in DOMAIN ordered
          BY <1>5
        <5> QED BY <1>4, <5>1, <5>2 DEF Placed
      <4> QED BY <1>5, <4>1, <4>2, <4>3
    <3> QED BY <1>1, <2>2, <3>1, <3>2
  <2>3. ASSUME NEW s \in Spans, s \notin Placed', Causes(s) \subseteq Placed'
        PROVE  s \in ready'
    <3>1. CASE n \in Causes(s)
      BY <1>1, <2>1, <2>3, <3>1
    <3>2. CASE n \notin Causes(s)
      <4>1. Causes(s) \subseteq Placed /\ s \notin Placed /\ s # n
        BY <1>5, <2>3, <3>2
      <4> QED BY <1>1, <1>3, <4>1
    <3> QED BY <3>1, <3>2
  <2>4. ready' \subseteq Spans
    BY <1>1 DEF ShapeInv
  <2> QED BY <2>2, <2>3, <2>4
<1>9. ShapeInv'
  <2>1. ready' \subseteq Spans
    BY <1>8
  <2>2. Graphs'
    BY <1>2 DEF ShapeInv
  <2>3. done' \in BOOLEAN /\ defects' = defects
    BY <1>2 DEF ShapeInv
  <2> QED BY <1>5, <1>7, <2>1, <2>2, <2>3 DEF ShapeInv
<1>10. LoopInv'
  BY <1>2, <1>3, <1>6, <1>8 DEF LoopInv
<1>11. CauseInv'
  <2>1. CausesFirst'
    <3> SUFFICES ASSUME NEW i \in DOMAIN ordered', NEW p \in Causes(ordered'[i])
                 PROVE  \E j \in 1..(i - 1) : ordered'[j] = p
      BY <1>2 DEF CausesFirst
    <3>1. CASE i \in DOMAIN ordered
      <4>1. p \in Causes(ordered[i])
        BY <1>5, <3>1
      <4>2. PICK j \in 1..(i - 1) : ordered[j] = p
        BY <1>3, <3>1, <4>1 DEF CauseInv, CausesFirst
      <4>3. j \in DOMAIN ordered
        BY <1>5, <3>1
      <4> QED BY <1>5, <4>2, <4>3
    <3>2. CASE i = Len(ordered) + 1
      <4>1. p \in Placed
        BY <1>4, <1>5, <3>2
      <4>2. PICK j \in DOMAIN ordered : ordered[j] = p
        BY <4>1 DEF Placed
      <4>3. j \in 1..(i - 1)
        BY <1>5, <3>2
      <4> QED BY <1>5, <4>2, <4>3
    <3> QED BY <1>5, <3>1, <3>2
  <2>2. n \notin CycleMembers
    <3> SUFFICES ASSUME NEW S \in SUBSET Spans, n \in S,
                        \A s \in S : Causes(s) \cap S # {}
                 PROVE  FALSE
      BY DEF CycleMembers
    <3>1. PICK p \in S : p \in Causes(n)
      OBVIOUS
    <3>2. p \in CycleMembers
      BY DEF CycleMembers
    <3>3. p \in Placed
      BY <1>4, <3>1
    <3> QED BY <1>3, <3>2, <3>3 DEF CauseInv
  <2>3. Placed' \cap CycleMembers' = {}
    BY <1>2, <1>3, <1>5, <2>2 DEF CauseInv
  <2> QED BY <1>2, <2>1, <2>3 DEF CauseInv
<1>12. ReturnInv'
  BY <1>2 DEF ReturnInv
<1> QED BY <1>9, <1>10, <1>11, <1>12

LEMMA ReturnOrderStep ==
    ASSUME OrderInv, ReturnOrder
    PROVE  OrderInv'
<1> USE DEF OrderInv
<1>1. /\ ~done /\ done' /\ Placed = Spans
      /\ UNCHANGED <<graph, indegree, ready, ordered, defects>>
  BY DEF ReturnOrder
<1>2. /\ \A s : Causes(s)' = Causes(s)
      /\ CycleMembers' = CycleMembers
      /\ Graphs' = Graphs
  BY <1>1, GraphConstant
<1>3. Placed' = Placed
  BY <1>1 DEF Placed
<1>4. ShapeInv'
  BY <1>1, <1>2 DEF ShapeInv
<1>5. CausesFirst' = CausesFirst
  BY <1>1, <1>2 DEF CausesFirst
<1>6. CauseInv'
  BY <1>1, <1>2, <1>3, <1>5 DEF CauseInv
<1>7. "causal_cycle" \notin defects'
  BY <1>1 DEF LoopInv
<1> QED BY <1>1, <1>4, <1>6, <1>7 DEF LoopInv, ReturnInv

(* What follows a cycle: the remaining spans, in key order, are spans. *)
LEMMA SortedShape ==
    ASSUME NEW S \in SUBSET Spans, NEW q \in Sorted(S)
    PROVE  q \in Seq(Spans)
<1>1. IsFiniteSet(S) /\ Cardinality(S) \in Nat
  BY SpansAssumption, FS_Subset, FS_CardinalityType
<1>2. q \in [1..Cardinality(S) -> S]
  BY DEF Sorted
<1> QED BY <1>1, <1>2

LEMMA ReturnCycleStep ==
    ASSUME OrderInv, ReturnCycle
    PROVE  OrderInv'
<1> USE DEF OrderInv
<1>1. /\ ~done /\ done' /\ ready = {} /\ Placed # Spans
      /\ defects' = defects \cup {"causal_cycle"}
      /\ UNCHANGED <<graph, indegree, ready>>
  BY DEF ReturnCycle
<1>2. PICK rest \in Sorted(Spans \ Placed) : ordered' = ordered \o rest
  BY DEF ReturnCycle
<1>3. /\ \A s : Causes(s)' = Causes(s)
      /\ CycleMembers' = CycleMembers
      /\ Graphs' = Graphs
  BY <1>1, GraphConstant
<1>4. rest \in Seq(Spans)
  BY <1>2, SortedShape
<1>5. ShapeInv'
  BY <1>1, <1>2, <1>3, <1>4 DEF ShapeInv
<1>6. CycleMembers # {}
  <2> DEFINE S == Spans \ Placed
  <2>1. Placed \subseteq Spans
    BY DEF Placed, ShapeInv
  <2>2. S # {}
    BY <1>1, <2>1
  <2>3. \A s \in S : Causes(s) \cap S # {}
    BY <1>1, CausesFinite DEF LoopInv
  <2> QED BY <2>2, <2>3 DEF CycleMembers
<1> QED BY <1>1, <1>3, <1>5, <1>6 DEF LoopInv, CauseInv, ReturnInv

LEMMA StutterStep ==
    ASSUME OrderInv, UNCHANGED vars
    PROVE  OrderInv'
<1>1. UNCHANGED <<graph, indegree, ready, ordered, defects, done>>
  BY DEF vars
<1>2. /\ \A s : Causes(s)' = Causes(s)
      /\ CycleMembers' = CycleMembers
      /\ Graphs' = Graphs
  BY <1>1, GraphConstant
<1>3. Placed' = Placed
  BY <1>1 DEF Placed
<1>4. CausesFirst' = CausesFirst
  BY <1>1, <1>2 DEF CausesFirst
<1>5. ShapeInv'
  BY <1>1, <1>2 DEF OrderInv, ShapeInv
<1>6. LoopInv'
  BY <1>1, <1>2, <1>3 DEF OrderInv, LoopInv
<1>7. CauseInv'
  BY <1>1, <1>2, <1>3, <1>4 DEF OrderInv, CauseInv
<1>8. ReturnInv'
  BY <1>1, <1>2 DEF OrderInv, ReturnInv
<1> QED BY <1>5, <1>6, <1>7, <1>8 DEF OrderInv

THEOREM OrderInvariant == Spec => []OrderInv
<1>1. Init => OrderInv
  BY InitOrderInv
<1>2. OrderInv /\ [Next]_vars => OrderInv'
  BY PopStep, ReturnOrderStep, ReturnCycleStep, StutterStep DEF Next
<1> QED BY <1>1, <1>2, PTL DEF Spec

-----------------------------------------------------------------------------

(* Type correctness, for every finite set of spans. *)
THEOREM OrderTypeCorrect == Spec => []OrderTypeOK
<1>1. OrderInv => OrderTypeOK
  BY DEF OrderInv, ShapeInv, OrderTypeOK
<1> QED BY <1>1, OrderInvariant, PTL

(* The counters and the ready set say what they are meant to say. *)
THEOREM LoopCorrect == Spec => []LoopInv
<1>1. OrderInv => LoopInv
  BY DEF OrderInv
<1> QED BY <1>1, OrderInvariant, PTL

(* An order returned without the causal_cycle defect holds every span, and  *)
(* every span after its parent and the spans it links to.                   *)
THEOREM OrderIsLinearExtension == Spec => []LinearExtension
<1>1. OrderInv => LinearExtension
  BY DEF OrderInv, CauseInv, LinearExtension
<1> QED BY <1>1, OrderInvariant, PTL

(* The causal_cycle defect is reported exactly when there is a cycle. *)
THEOREM CyclesReported == Spec => []CycleReported
<1>1. ASSUME Placed \cap CycleMembers = {}, Placed = Spans
      PROVE  ~Cyclic
  BY <1>1 DEF Cyclic, CycleMembers
<1>2. CycleMembers # {} => Cyclic
  BY DEF Cyclic, CycleMembers
<1>3. OrderInv => CycleReported
  BY <1>1, <1>2 DEF OrderInv, CauseInv, ReturnInv, CycleReported
<1> QED BY <1>3, OrderInvariant, PTL
-----------------------------------------------------------------------------
(* What is returned is SpanOrder of the spans.  While the loop runs, the    *)
(* rest of KahnOrder continues the order so far, from the placed spans on.  *)

Continues(spans, q, placed) ==
    \E g : Steps(g, spans) /\ KahnOrder(spans) = q \o g[placed]

AnswerInv ==
    /\ ~done => defects = EdgeDefects /\ Continues(SpanRecords, ordered, Placed)
    /\ ReturnsSpanOrder

(* The spans as SpanGraph sees them. *)
LEMMA RecordsOfSpans ==
    ASSUME Graphs
    PROVE  /\ DOMAIN SpanRecords = Spans
           /\ Clocked(SpanRecords)
           /\ \A s \in Spans : CausesOf(SpanRecords, s) = Causes(s)
           /\ \A s, t \in Spans : KeyBefore(SpanRecords, s, t) <=>
                    \/ started[s] < started[t]
                    \/ started[s] = started[t] /\ s < t
<1>1. /\ DOMAIN SpanRecords = Spans
      /\ \A s \in Spans : /\ SpanRecords[s].parent = parent[s]
                          /\ SpanRecords[s].links = links[s]
                          /\ SpanRecords[s].started = started[s]
  BY DEF SpanRecords
<1>2. \A s \in Spans : s \in Int /\ started[s] \in Int
  <2>1. \A s \in Spans : s \in Nat /\ started[s] \in Times
    BY SpansAssumption DEF Graphs
  <2>2. \A t \in Times : t \in Int
    BY SpansAssumption
  <2> QED BY <2>1, <2>2
<1>3. Clocked(SpanRecords)
  BY <1>1, <1>2, SpansAssumption DEF Clocked
<1>4. \A s \in Spans : CausesOf(SpanRecords, s) = Causes(s)
  BY <1>1 DEF CausesOf, Causes
<1>5. \A s, t \in Spans : KeyBefore(SpanRecords, s, t) <=>
            \/ started[s] < started[t]
            \/ started[s] = started[t] /\ s < t
  BY <1>1 DEF KeyBefore
<1> QED BY <1>1, <1>3, <1>4, <1>5

(* The defects that CausalDefects finds besides the cycle. *)
LEMMA DefectsOfSpans ==
    ASSUME Graphs
    PROVE  CausalDefects(SpanRecords)
             = EdgeDefects \cup {"causal_cycle" : s \in Spans \ Range(KahnOrder(SpanRecords))}
<1>1. /\ DOMAIN SpanRecords = Spans
      /\ \A s \in Spans : /\ SpanRecords[s].parent = parent[s]
                          /\ SpanRecords[s].links = links[s]
                          /\ SpanRecords[s].started = started[s]
  BY DEF SpanRecords
<1> DEFINE spans == SpanRecords
           early == {c \in DOMAIN spans : /\ spans[c].parent \in DOMAIN spans
                                          /\ spans[spans[c].parent].started > spans[c].started}
           orphans == {c \in DOMAIN spans : spans[c].parent \notin DOMAIN spans \cup {None}}
           loose == {c \in DOMAIN spans : ~spans[c].links \subseteq DOMAIN spans}
<1>2. early = {c \in Spans : parent[c] \in Spans /\ started[parent[c]] > started[c]}
  BY <1>1
<1>3. orphans = {c \in Spans : parent[c] = Unknown}
  <2>1. \A c \in Spans : parent[c] \in Spans \cup {None, Unknown}
    BY DEF Graphs
  <2> QED BY <1>1, <2>1, SpansAssumption
<1>4. loose = {c \in Spans : Unknown \in links[c]}
  <2>1. \A c \in Spans : links[c] \in SUBSET (Spans \cup {Unknown})
    BY DEF Graphs
  <2>2. \A c \in Spans : ~links[c] \subseteq Spans <=> Unknown \in links[c]
    BY <2>1, SpansAssumption
  <2> QED BY <1>1, <2>2
<1>5. CausalDefects(spans) =
          {"clock_skew" : s \in early} \cup {"orphan_parent" : s \in orphans}
            \cup {"orphan_link" : s \in loose}
            \cup {"causal_cycle" : s \in DOMAIN spans \ Range(KahnOrder(spans))}
  BY DEF CausalDefects
<1> HIDE DEF early, orphans, loose, spans
<1> QED BY <1>1, <1>2, <1>3, <1>4, <1>5 DEF EdgeDefects, spans

LEMMA InitAnswerInv == Init => AnswerInv
<1> SUFFICES ASSUME Init PROVE AnswerInv
  OBVIOUS
<1>1. ~done /\ ordered = <<>> /\ defects = EdgeDefects /\ Placed = {} /\ Clocked(SpanRecords)
  BY RecordsOfSpans DEF Init, Start, Placed
<1>2. PICK g : Steps(g, SpanRecords)
  BY <1>1, KahnSteps
<1>3. KahnOrder(SpanRecords) = g[{}] /\ KahnOrder(SpanRecords) \in Seq(DOMAIN SpanRecords)
  BY <1>1, <1>2, KahnOrders DEF Steps
<1>4. KahnOrder(SpanRecords) = <<>> \o g[{}]
  BY <1>3, ConcatEmptySeq
<1>5. Continues(SpanRecords, ordered, Placed)
  BY <1>1, <1>2, <1>4 DEF Continues
<1> QED BY <1>1, <1>5 DEF AnswerInv, ReturnsSpanOrder

(* Before is the order of the keys: positions differ. *)
LEMMA BeforeIsKeyBefore ==
    ASSUME Graphs, NEW s \in Spans, NEW t \in Spans
    PROVE  Before(s, t) <=> KeyBefore(SpanRecords, s, t)
<1>1. ~(position[s] < position[s])
  BY DEF Graphs
<1> QED BY <1>1, RecordsOfSpans DEF Before

LEMMA PopContinues ==
    ASSUME OrderInv, AnswerInv, Pop
    PROVE  AnswerInv'
<1> PICK spans : spans = SpanRecords
  OBVIOUS
<1>1. PICK n \in ready : /\ \A s \in ready \ {n} : Before(n, s)
                         /\ ordered' = Append(ordered, n)
  BY DEF Pop
<1>2. ~done /\ ~done' /\ defects' = defects /\ UNCHANGED graph
  BY DEF Pop
<1>3. Graphs /\ ordered \in Seq(Spans) /\ n \in Spans
      /\ ready = {s \in Spans \ Placed : Causes(s) \subseteq Placed}
  BY <1>2 DEF OrderInv, ShapeInv, LoopInv
<1>4. SpanRecords' = spans /\ EdgeDefects' = EdgeDefects
  BY <1>2 DEF SpanRecords, EdgeDefects, graph
<1>5. Placed' = Placed \cup {n} /\ Placed \subseteq Spans
  BY <1>1, <1>3, AppendPlaced DEF Placed
<1>6. DOMAIN spans = Spans /\ Clocked(spans) /\ ready = ReadyAfter(spans, Placed)
  BY <1>3, RecordsOfSpans DEF ReadyAfter
<1>7. n = EarliestOf(spans, ready)
  <2>1. \A s \in ready \ {n} : KeyBefore(spans, n, s)
    BY <1>1, <1>3, BeforeIsKeyBefore
  <2>2. ready \subseteq DOMAIN spans /\ ready # {}
    BY <1>3, <1>6
  <2> QED BY <1>6, <2>1, <2>2, EarliestFirst
<1>8. PICK g : Steps(g, spans) /\ KahnOrder(spans) = ordered \o g[Placed]
  BY <1>2 DEF AnswerInv, Continues
<1>9. g[Placed] = <<n>> \o g[Placed \cup {n}]
  BY <1>1, <1>5, <1>6, <1>7, <1>8 DEF Steps
<1>10. g[Placed \cup {n}] \in Seq(Spans)
  <2> DEFINE T == Spans \ (Placed \cup {n})
             f == [U \in SUBSET Spans |-> g[Spans \ U]]
  <2>1. Lists(f, Spans, Stuck(spans), NextPlaced(spans))
    BY <1>6, <1>8, KahnLists
  <2>2. Picks(Spans, Stuck(spans), NextPlaced(spans))
    BY <1>6, NextPicks
  <2>3. f[T] = g[Placed \cup {n}]
    <3>1. Spans \ T = Placed \cup {n}
      BY <1>3, <1>5
    <3> HIDE DEF T
    <3>2. T \in SUBSET Spans
      BY DEF T
    <3> QED BY <3>1, <3>2
  <2> HIDE DEF f
  <2>4. f[T] \in Seq(T)
    BY <2>1, <2>2, ListShape, SpansAssumption
  <2> QED BY <2>3, <2>4
<1>11. KahnOrder(spans) = ordered' \o g[Placed']
  <2>1. <<n>> \in Seq(Spans)
    BY <1>3
  <2>2. ordered' = ordered \o <<n>>
    BY <1>1, <1>3, AppendIsConcat
  <2>3. (ordered \o <<n>>) \o g[Placed \cup {n}] = ordered \o (<<n>> \o g[Placed \cup {n}])
    <3> DEFINE one == <<n>>
               left == g[Placed \cup {n}]
    <3>1. ordered \in Seq(Spans) /\ one \in Seq(Spans) /\ left \in Seq(Spans)
      BY <1>3, <1>10, <2>1
    <3> HIDE DEF one, left
    <3>2. (ordered \o one) \o left = ordered \o (one \o left)
      BY SMTT(30), <3>1, ConcatAssociative
    <3> QED BY <3>2 DEF one, left
  <2> QED BY <1>5, <1>8, <1>9, <2>2, <2>3
<1>12. Continues(spans, ordered', Placed')
  BY <1>8, <1>11 DEF Continues
<1>13. Continues(SpanRecords, ordered, Placed)'
  BY <1>4, <1>12 DEF Continues
<1> QED BY <1>2, <1>4, <1>13 DEF AnswerInv, ReturnsSpanOrder
(* No span is ready: the order so far is all of KahnOrder.                  *)
LEMMA KahnDone ==
    ASSUME OrderInv, AnswerInv, ~done, ready = {}
    PROVE  /\ Clocked(SpanRecords) /\ DOMAIN SpanRecords = Spans
           /\ KahnOrder(SpanRecords) = ordered
           /\ Range(ordered) = Placed /\ Placed \subseteq Spans
           /\ defects = EdgeDefects
<1>1. /\ Graphs /\ ordered \in Seq(Spans)
      /\ ready = {s \in Spans \ Placed : Causes(s) \subseteq Placed}
  BY DEF OrderInv, ShapeInv, LoopInv
<1>2. Range(ordered) = Placed /\ Placed \subseteq Spans
  BY <1>1 DEF Placed, Range
<1>3. DOMAIN SpanRecords = Spans /\ Clocked(SpanRecords) /\ ReadyAfter(SpanRecords, Placed) = {}
  BY <1>1, RecordsOfSpans DEF ReadyAfter
<1>4. PICK g : Steps(g, SpanRecords) /\ KahnOrder(SpanRecords) = ordered \o g[Placed]
  BY DEF AnswerInv, Continues
<1>5. g[Placed] = <<>>
  BY <1>2, <1>3, <1>4 DEF Steps
<1>6. KahnOrder(SpanRecords) = ordered
  BY <1>1, <1>4, <1>5, ConcatEmptySeq
<1> QED BY <1>2, <1>3, <1>6 DEF AnswerInv

LEMMA ReturnOrderAnswers ==
    ASSUME OrderInv, AnswerInv, ReturnOrder
    PROVE  AnswerInv'
<1> PICK spans : spans = SpanRecords
  OBVIOUS
<1>1. /\ ~done /\ ready = {} /\ Placed = Spans /\ done' /\ Graphs
      /\ UNCHANGED graph /\ ordered' = ordered /\ defects' = defects
  BY DEF ReturnOrder, OrderInv, ShapeInv
<1>2. SpanRecords' = spans
  BY <1>1 DEF SpanRecords, graph
<1>3. /\ Clocked(spans) /\ DOMAIN spans = Spans /\ KahnOrder(spans) = ordered
      /\ Range(ordered) = Spans /\ defects = EdgeDefects
  BY <1>1, KahnDone
<1>4. ordered = SpanOrder(spans)
  BY <1>3, SpanOrderEnumerates
<1>5. defects = CausalDefects(spans)
  BY <1>1, <1>3, DefectsOfSpans
<1>6. ReturnsSpanOrder'
  BY <1>1, <1>2, <1>4, <1>5 DEF ReturnsSpanOrder
<1> QED BY <1>1, <1>6 DEF AnswerInv

(* The rest in key order is the sorted rest. *)
LEMMA SortedIsSorted ==
    ASSUME Graphs, NEW S \in SUBSET Spans, NEW q \in Sorted(S)
    PROVE  q = SortedByStart(SpanRecords, S)
<1>1. IsFiniteSet(S) /\ Cardinality(S) \in Nat
  BY SpansAssumption, FS_Subset, FS_CardinalityType
<1> DEFINE n == Cardinality(S)
<1>2. q \in [1..n -> S] /\ \A i, j \in 1..n : i < j => Before(q[i], q[j])
  BY DEF Sorted
<1> HIDE DEF n
<1>3. n \in Nat /\ n = Cardinality(S)
  BY <1>1 DEF n
<1>4. q \in Seq(S) /\ DOMAIN q = 1..n
  BY <1>2, <1>3, SeqDef
<1>5. \A i, j \in 1..n : i < j => KeyBefore(SpanRecords, q[i], q[j])
  BY <1>2, BeforeIsKeyBefore
<1>6. Clocked(SpanRecords) /\ DOMAIN SpanRecords = Spans
  BY RecordsOfSpans
<1>7. \A i, j \in 1..n : q[i] = q[j] => i = j
  <2> SUFFICES ASSUME NEW i \in 1..n, NEW j \in 1..n, q[i] = q[j], i # j PROVE FALSE
    OBVIOUS
  <2>1. q[i] \in DOMAIN SpanRecords
    BY <1>2, <1>6
  <2>2. ~KeyBefore(SpanRecords, q[i], q[i])
    BY <1>6, <2>1, KeyTotal
  <2>3. i < j \/ j < i
    BY <1>3
  <2> QED BY <1>5, <2>2, <2>3
<1>8. Range(q) = S
  <2>1. q \in Injection(1..n, S)
    BY <1>2, <1>7 DEF Injection, IsInjective
  <2>2. IsFiniteSet(1..n) /\ Cardinality(1..n) = n
    BY <1>3, FS_Interval
  <2>3. q \in Surjection(1..n, S)
    BY <1>1, <1>3, <2>1, <2>2, FS_Injection
  <2>4. \A y \in S : \E i \in 1..n : q[i] = y
    BY <2>3 DEF Surjection
  <2> QED BY <1>2, <1>4, <2>4 DEF Range
<1>9. Ascending(SpanRecords, q)
  BY <1>4, <1>5 DEF Ascending
<1> QED BY <1>4, <1>6, <1>8, <1>9, AscendingUnique

LEMMA ReturnCycleAnswers ==
    ASSUME OrderInv, AnswerInv, ReturnCycle
    PROVE  AnswerInv'
<1> PICK spans : spans = SpanRecords
  OBVIOUS
<1>1. /\ ~done /\ ready = {} /\ Placed # Spans /\ done' /\ Graphs
      /\ UNCHANGED graph /\ defects' = defects \cup {"causal_cycle"}
  BY DEF ReturnCycle, OrderInv, ShapeInv
<1>2. PICK rest \in Sorted(Spans \ Placed) : ordered' = ordered \o rest
  BY DEF ReturnCycle
<1>3. SpanRecords' = spans
  BY <1>1 DEF SpanRecords, graph
<1>4. /\ Clocked(spans) /\ DOMAIN spans = Spans /\ KahnOrder(spans) = ordered
      /\ Range(ordered) = Placed /\ Placed \subseteq Spans /\ defects = EdgeDefects
  BY <1>1, KahnDone
<1>5. rest = SortedByStart(spans, Spans \ Placed)
  BY <1>1, SortedIsSorted
<1>6. ordered' = SpanOrder(spans)
  BY <1>2, <1>4, <1>5 DEF SpanOrder
<1>7. defects' = CausalDefects(spans)
  <2>1. {"causal_cycle" : s \in Spans \ Placed} = {"causal_cycle"}
    BY <1>1, <1>4
  <2> QED BY <1>1, <1>4, <2>1, DefectsOfSpans
<1>8. ReturnsSpanOrder'
  BY <1>3, <1>6, <1>7 DEF ReturnsSpanOrder
<1> QED BY <1>1, <1>8 DEF AnswerInv

LEMMA StutterAnswers ==
    ASSUME AnswerInv, UNCHANGED vars
    PROVE  AnswerInv'
<1>1. UNCHANGED <<ordered, defects, done>> /\ SpanRecords' = SpanRecords
      /\ EdgeDefects' = EdgeDefects /\ Placed' = Placed
  BY DEF vars, graph, SpanRecords, EdgeDefects, Placed
<1> QED BY <1>1 DEF AnswerInv, Continues, ReturnsSpanOrder

(* The loop returns SpanOrder and CausalDefects of the spans, whatever the  *)
(* order they were read in: the functions the evidence is built with.       *)
THEOREM LoopReturnsSpanOrder == Spec => []ReturnsSpanOrder
<1>1. Init => AnswerInv
  BY InitAnswerInv
<1>2. OrderInv /\ AnswerInv /\ [Next]_vars => AnswerInv'
  BY PopContinues, ReturnOrderAnswers, ReturnCycleAnswers, StutterAnswers DEF Next
<1>3. AnswerInv => ReturnsSpanOrder
  BY DEF AnswerInv
<1> QED BY <1>1, <1>2, <1>3, OrderInvariant, PTL DEF Spec
================================================================================
