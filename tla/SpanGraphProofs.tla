---------------------------- MODULE SpanGraphProofs ----------------------------
(****************************************************************************)
(* What the two recursions of SpanGraph compute, for any finite set of      *)
(* spans: SortedByStart lists a set in key order and KahnOrder places a     *)
(* span after its causes until none is ready.                               *)
(*                                                                          *)
(* The induction theorems of the library take an operator as a parameter.   *)
(* FiniteMinimal does not: what follows by induction on a finite set is     *)
(* proved by a smallest counterexample, a member of a set of subsets.       *)
(****************************************************************************)
EXTENDS SpanGraph, FiniteSetTheorems, SequenceTheorems, WellFoundedInduction, TLAPS

-----------------------------------------------------------------------------
(* Smallest and largest members of a set of subsets. *)

LEMMA FiniteMinimal ==
    ASSUME NEW D, IsFiniteSet(D), NEW Q, Q \subseteq SUBSET D, Q # {}
    PROVE  \E X \in Q : \A Y \in Q : Y \subseteq X => Y = X
<1>1. IsWellFoundedOn(StrictSubsetOrdering(D), SUBSET D)
  BY FS_StrictSubsetOrderingWellFounded, FS_FiniteSubsetsOfFinite
<1>2. PICK X \in Q : \A Y \in Q : ~ (<<Y, X>> \in StrictSubsetOrdering(D))
  BY <1>1, WFMin, Zenon
<1>3. ASSUME NEW Y \in Q, Y \subseteq X, Y # X
      PROVE  FALSE
  <2>1. X \in SUBSET D /\ Y \in SUBSET D
    BY <1>3
  <2>2. <<Y, X>> \in StrictSubsetOrdering(D)
    BY <1>3, <2>1 DEF StrictSubsetOrdering
  <2> QED BY <1>2, <1>3, <2>2
<1> QED BY <1>2, <1>3

LEMMA FiniteMaximal ==
    ASSUME NEW D, IsFiniteSet(D), NEW Q, Q \subseteq SUBSET D, Q # {}
    PROVE  \E X \in Q : \A Y \in Q : X \subseteq Y => Y = X
<1> DEFINE R == {D \ X : X \in Q}
<1>1. R \subseteq SUBSET D
  <2>1. \A Z \in R : Z \subseteq D
    OBVIOUS
  <2> QED BY <2>1
<1>9. R # {}
  <2>1. PICK X \in Q : TRUE
    OBVIOUS
  <2>2. D \ X \in R
    OBVIOUS
  <2> QED BY <2>2
<1>2. PICK Z \in R : \A Y \in R : Y \subseteq Z => Y = Z
  <2> HIDE DEF R
  <2> QED BY <1>1, <1>9, FiniteMinimal
<1>3. PICK X \in Q : Z = D \ X
  OBVIOUS
<1>4. ASSUME NEW Y \in Q, X \subseteq Y
      PROVE  Y = X
  <2>1. D \ Y \in R /\ D \ Y \subseteq D \ X
    BY <1>4
  <2>2. D \ Y = D \ X
    BY <1>2, <1>3, <2>1
  <2>3. X \subseteq D /\ Y \subseteq D
    OBVIOUS
  <2> QED BY <2>2, <2>3
<1> QED BY <1>4

-----------------------------------------------------------------------------
(* Recursion over the subsets of a finite set.  f lists the elements that   *)
(* pick takes from a set, one after another, until a set of stop is left.   *)

Picks(D, stop, pick) == \A T \in SUBSET D : T \notin stop => pick[T] \in T

Lists(f, D, stop, pick) ==
    f = [T \in SUBSET D |-> IF T \in stop THEN <<>> ELSE <<pick[T]>> \o f[T \ {pick[T]}]]

(* There is such an f.  Otherwise take the largest family of sets closed    *)
(* under pick that has one, and a smallest set outside: it can be added.    *)
LEMMA ListExists ==
    ASSUME NEW D, IsFiniteSet(D), NEW stop, NEW pick, Picks(D, stop, pick)
    PROVE  \E f : Lists(f, D, stop, pick)
<1> DEFINE Value(g, T) == IF T \in stop THEN <<>> ELSE <<pick[T]>> \o g[T \ {pick[T]}]
           Closed(F) == \A T \in F : T \notin stop => T \ {pick[T]} \in F
           Good(F) == Closed(F) /\ \E g : g = [T \in F |-> Value(g, T)]
           Q == {F \in SUBSET SUBSET D : Good(F)}
<1>1. Good({})
  <2>1. <<>> = [T \in {} |-> Value(<<>>, T)]
    OBVIOUS
  <2> QED BY <2>1
<1>2. IsFiniteSet(SUBSET D)
  BY FS_SUBSET
<1>3. PICK F \in Q : \A G \in Q : F \subseteq G => G = F
  <2>1. Q \subseteq SUBSET SUBSET D /\ Q # {}
    <3> HIDE DEF Good
    <3> QED BY <1>1
  <2> HIDE DEF Q
  <2> QED BY <1>2, <2>1, FiniteMaximal
<1>4. Closed(F) /\ F \subseteq SUBSET D
  OBVIOUS
<1>5. PICK g : g = [T \in F |-> Value(g, T)]
  OBVIOUS
<1>6. CASE F # SUBSET D
  <2>1. PICK T \in (SUBSET D) \ F : \A Y \in (SUBSET D) \ F : Y \subseteq T => Y = T
    <3> DEFINE Rest == (SUBSET D) \ F
    <3>1. Rest \subseteq SUBSET D /\ Rest # {}
      BY <1>4, <1>6
    <3> HIDE DEF Rest
    <3>2. \E T \in Rest : \A Y \in Rest : Y \subseteq T => Y = T
      BY <3>1, FiniteMinimal
    <3> QED BY <3>2 DEF Rest
  <2>2. T \notin stop => T \ {pick[T]} \in F
    BY <2>1 DEF Picks
  <2> DEFINE G == F \cup {T}
             h == [U \in G |-> IF U = T THEN Value(g, T) ELSE g[U]]
  <2>3. ASSUME NEW U \in G
        PROVE  h[U] = Value(h, U)
    <3>1. CASE U = T
      <4>1. h[T] = Value(g, T)
        OBVIOUS
      <4>2. T \notin stop => h[T \ {pick[T]}] = g[T \ {pick[T]}]
        BY <2>1, <2>2
      <4> HIDE DEF h
      <4> QED BY <3>1, <4>1, <4>2
    <3>2. CASE U # T
      <4>1. U \in F /\ h[U] = g[U]
        BY <3>2
      <4>2. g[U] = Value(g, U)
        BY <1>5, <4>1
      <4>3. U \notin stop => U \ {pick[U]} \in F
        BY <1>4, <4>1
      <4>4. U \notin stop => h[U \ {pick[U]}] = g[U \ {pick[U]}]
        BY <2>1, <4>3
      <4> HIDE DEF h
      <4> QED BY <4>1, <4>2, <4>4
    <3> QED BY <3>1, <3>2
  <2>4. h = [U \in G |-> Value(h, U)]
    <3>1. h = [U \in G |-> h[U]]
      OBVIOUS
    <3> HIDE DEF h, Value, G
    <3> QED BY <2>3, <3>1, Zenon
  <2>5. Closed(G)
    BY <1>4, <2>2
  <2>6. G \in Q
    <3>1. Good(G)
      <4> HIDE DEF h, G, Value, Closed
      <4> QED BY <2>4, <2>5
    <3>2. G \in SUBSET SUBSET D
      BY <1>4
    <3> HIDE DEF Good, G
    <3> QED BY <3>1, <3>2
  <2>7. G = F
    <3>1. F \subseteq G
      OBVIOUS
    <3> HIDE DEF G, Q
    <3> QED BY <1>3, <2>6, <3>1
  <2> QED BY <2>1, <2>7
<1>7. CASE F = SUBSET D
  BY <1>5, <1>7 DEF Lists
<1> QED BY <1>6, <1>7

(* One element in front of a list. *)
IsList(q) == \E S : q \in Seq(S)

Front(r, x, q) == r = <<x>> \o q

Shifted(r, x, q) ==
    /\ Len(q) \in Nat /\ DOMAIN q = 1..Len(q)
    /\ DOMAIN r = 1..(Len(q) + 1)
    /\ r[1] = x
    /\ \A i \in 1..Len(q) : r[i + 1] = q[i]
    /\ \A i \in 2..(Len(q) + 1) : i - 1 \in 1..Len(q) /\ r[i] = q[i - 1]
    /\ Range(r) = Range(q) \cup {x}

LEMMA InFront ==
    ASSUME NEW x, NEW q, IsList(q), NEW r, Front(r, x, q)
    PROVE  Shifted(r, x, q)
<1> PICK S : q \in Seq(S)
  BY DEF IsList
<1>1. /\ q \in Seq(S \cup {x}) /\ <<x>> \in Seq(S \cup {x})
      /\ Len(q) \in Nat /\ DOMAIN q = 1..Len(q)
      /\ Len(<<x>>) = 1 /\ <<x>>[1] = x
  OBVIOUS
<1>2. /\ r \in Seq(S \cup {x}) /\ Len(r) = Len(q) + 1
      /\ DOMAIN r = 1..(Len(q) + 1)
  BY <1>1 DEF Front
<1>3. r[1] = x /\ \A i \in 1..Len(q) : r[i + 1] = q[i]
  BY <1>1 DEF Front
<1>4. \A i \in 2..(Len(q) + 1) : i - 1 \in 1..Len(q) /\ r[i] = q[i - 1]
  <2> TAKE i \in 2..(Len(q) + 1)
  <2>1. i - 1 \in 1..Len(q) /\ (i - 1) + 1 = i
    BY <1>1
  <2> QED BY <1>3, <2>1
<1>5. Range(r) = Range(q) \cup {x}
  <2>1. ASSUME NEW i \in DOMAIN r PROVE r[i] \in Range(q) \cup {x}
    <3>1. i = 1 \/ i \in 2..(Len(q) + 1)
      BY <1>1, <1>2
    <3> QED BY <1>1, <1>3, <1>4, <3>1 DEF Range
  <2>2. ASSUME NEW i \in DOMAIN q PROVE q[i] \in Range(r)
    <3>1. i + 1 \in DOMAIN r /\ r[i + 1] = q[i]
      BY <1>1, <1>2, <1>3
    <3> QED BY <3>1 DEF Range
  <2>3. x \in Range(r)
    <3>1. 1 \in DOMAIN r
      BY <1>1, <1>2
    <3> QED BY <1>3, <3>1 DEF Range
  <2> QED BY <2>1, <2>2, <2>3 DEF Range
<1> QED BY <1>1, <1>2, <1>3, <1>4, <1>5 DEF Shifted
(* A list without repetitions. *)
Distinct(q) == \A i, j \in DOMAIN q : q[i] = q[j] => i = j

LEMMA DistinctInFront ==
    ASSUME NEW T, NEW x \in T, NEW q \in Seq(T \ {x}), Distinct(q),
           NEW r, Front(r, x, q)
    PROVE  /\ r \in Seq(T)
           /\ Distinct(r)
           /\ T \ Range(r) = (T \ {x}) \ Range(q)
<1>1. /\ DOMAIN r = 1..(Len(q) + 1) /\ r[1] = x
      /\ \A i \in 2..(Len(q) + 1) : i - 1 \in 1..Len(q) /\ r[i] = q[i - 1]
      /\ Range(r) = Range(q) \cup {x}
  <2>1. IsList(q)
    BY DEF IsList
  <2>2. Shifted(r, x, q)
    BY <2>1, InFront
  <2> QED BY <2>2 DEF Shifted
<1>2. r \in Seq(T)
  BY DEF Front
<1>3. \A i \in 1..Len(q) : q[i] \in T \ {x}
  OBVIOUS
<1>4. Len(q) \in Nat /\ DOMAIN q = 1..Len(q)
  OBVIOUS
<1>5. ASSUME NEW i \in DOMAIN r, NEW j \in DOMAIN r, r[i] = r[j]
      PROVE  i = j
  <2>1. (i = 1 \/ i \in 2..(Len(q) + 1)) /\ (j = 1 \/ j \in 2..(Len(q) + 1))
    BY <1>1, <1>4
  <2>2. CASE i = 1 /\ j = 1
    BY <2>2
  <2>3. CASE i = 1 /\ j \in 2..(Len(q) + 1)
    BY <1>1, <1>3, <1>5, <2>3
  <2>4. CASE j = 1 /\ i \in 2..(Len(q) + 1)
    BY <1>1, <1>3, <1>5, <2>4
  <2>5. CASE i \in 2..(Len(q) + 1) /\ j \in 2..(Len(q) + 1)
    <3>1. q[i - 1] = q[j - 1] /\ i - 1 \in DOMAIN q /\ j - 1 \in DOMAIN q
      BY <1>1, <1>4, <1>5, <2>5
    <3>2. i - 1 = j - 1
      BY <3>1 DEF Distinct
    <3> QED BY <1>4, <2>5, <3>2
  <2> QED BY <2>1, <2>2, <2>3, <2>4, <2>5
<1>6. T \ Range(r) = (T \ {x}) \ Range(q)
  BY <1>1
<1> QED BY <1>2, <1>5, <1>6 DEF Distinct

(* f lists distinct elements of a set, and leaves one of stop.              *)
LEMMA ListShape ==
    ASSUME NEW D, IsFiniteSet(D), NEW stop, NEW pick, Picks(D, stop, pick),
           NEW f, Lists(f, D, stop, pick)
    PROVE  \A T \in SUBSET D :
               /\ f[T] \in Seq(T)
               /\ Distinct(f[T])
               /\ T \ Range(f[T]) \in stop
<1> DEFINE Shape(T) == f[T] \in Seq(T) /\ Distinct(f[T]) /\ T \ Range(f[T]) \in stop
           Bad == {T \in SUBSET D : ~Shape(T)}
<1> SUFFICES ASSUME Bad # {} PROVE FALSE
  OBVIOUS
<1>1. PICK T \in Bad : \A Y \in Bad : Y \subseteq T => Y = T
  <2>1. Bad \subseteq SUBSET D
    OBVIOUS
  <2> HIDE DEF Bad
  <2> QED BY <2>1, FiniteMinimal
<1>2. T \in SUBSET D /\ ~Shape(T)
  OBVIOUS
<1>3. f[T] = IF T \in stop THEN <<>> ELSE <<pick[T]>> \o f[T \ {pick[T]}]
  BY <1>2 DEF Lists
<1>4. CASE T \in stop
  <2>1. f[T] = <<>>
    BY <1>3, <1>4
  <2>2. Range(<<>>) = {} /\ Distinct(<<>>) /\ <<>> \in Seq(T)
    BY DEF Range, Distinct
  <2>3. T \ {} = T
    OBVIOUS
  <2> QED BY <1>2, <1>4, <2>1, <2>2, <2>3
<1>5. CASE T \notin stop
  <2>1. pick[T] \in T
    BY <1>2, <1>5 DEF Picks
  <2>2. Shape(T \ {pick[T]})
    <3>1. T \ {pick[T]} \in SUBSET D /\ T \ {pick[T]} \subseteq T /\ T \ {pick[T]} # T
      BY <1>2, <2>1
    <3>2. T \ {pick[T]} \notin Bad
      BY <1>1, <3>1
    <3> HIDE DEF Shape
    <3> QED BY <3>1, <3>2
  <2>3. Front(f[T], pick[T], f[T \ {pick[T]}])
    BY <1>3, <1>5 DEF Front
  <2>4. Shape(T)
    <3> DEFINE x == pick[T]  q == f[T \ {x}]  r == f[T]
    <3>1. x \in T /\ q \in Seq(T \ {x}) /\ Distinct(q) /\ Front(r, x, q)
      BY <2>1, <2>2, <2>3
    <3>2. (T \ {x}) \ Range(q) \in stop
      BY <2>2
    <3> HIDE DEF x, q, r
    <3>3. r \in Seq(T) /\ Distinct(r) /\ T \ Range(r) = (T \ {x}) \ Range(q)
      BY <3>1, DistinctInFront
    <3>4. r \in Seq(T) /\ Distinct(r) /\ T \ Range(r) \in stop
      BY <3>2, <3>3
    <3> QED BY <3>4 DEF r
  <2> QED BY <1>2, <2>4
<1> QED BY <1>4, <1>5

-----------------------------------------------------------------------------
(* The key of the order: started_at, then the identity.                     *)

KeyBefore(spans, s, t) ==
    \/ spans[s].started < spans[t].started
    \/ spans[s].started = spans[t].started /\ s < t

(* The spans are finitely many, with identities and instants that compare.  *)
Clocked(spans) ==
    /\ IsFiniteSet(DOMAIN spans)
    /\ \A s \in DOMAIN spans : s \in Int /\ spans[s].started \in Int

LEMMA KeyTotal ==
    ASSUME NEW spans, Clocked(spans), NEW s \in DOMAIN spans, NEW t \in DOMAIN spans
    PROVE  /\ ~(KeyBefore(spans, s, t) /\ KeyBefore(spans, t, s))
           /\ s = t \/ KeyBefore(spans, s, t) \/ KeyBefore(spans, t, s)
           /\ \A u \in DOMAIN spans :
                KeyBefore(spans, s, t) /\ KeyBefore(spans, t, u) => KeyBefore(spans, s, u)
  BY DEF KeyBefore, Clocked

(* Every set of spans has an earliest: a span with the fewest before it.    *)
Below(spans, S, s) == {t \in S : t = s \/ KeyBefore(spans, t, s)}

LEMMA LeastExists ==
    ASSUME NEW spans, Clocked(spans), NEW S, S \subseteq DOMAIN spans, S # {}
    PROVE  \E s \in S : \A t \in S \ {s} : KeyBefore(spans, s, t)
<1> DEFINE Q == {Below(spans, S, s) : s \in S}
<1>1. IsFiniteSet(S)
  BY FS_Subset DEF Clocked
<1>2. Q \subseteq SUBSET S /\ Q # {}
  <2>1. \A Y \in Q : Y \subseteq S
    BY DEF Below
  <2>2. PICK s \in S : Below(spans, S, s) \in Q
    OBVIOUS
  <2> HIDE DEF Q
  <2> QED BY <2>1, <2>2
<1>3. PICK s \in S : \A t \in S : Below(spans, S, t) \subseteq Below(spans, S, s)
                                        => Below(spans, S, t) = Below(spans, S, s)
  <2>1. \E X \in Q : \A Y \in Q : Y \subseteq X => Y = X
    <3> HIDE DEF Q
    <3> QED BY <1>1, <1>2, FiniteMinimal
  <2> QED BY <2>1
<1>4. ASSUME NEW t \in S \ {s}, ~KeyBefore(spans, s, t)
      PROVE  FALSE
  <2>0. s \in DOMAIN spans /\ t \in DOMAIN spans /\ s # t
    OBVIOUS
  <2>1. KeyBefore(spans, t, s)
    BY <1>4, <2>0, KeyTotal
  <2>2. ASSUME NEW u \in Below(spans, S, t)
        PROVE  u \in Below(spans, S, s)
    <3>1. u \in S /\ u \in DOMAIN spans /\ (u = t \/ KeyBefore(spans, u, t))
      BY DEF Below
    <3>2. u = t \/ KeyBefore(spans, u, s)
      BY <2>0, <2>1, <3>1, KeyTotal
    <3> QED BY <2>1, <3>1, <3>2 DEF Below
  <2>3. Below(spans, S, t) = Below(spans, S, s)
    BY <1>3, <2>2
  <2>4. s \in Below(spans, S, t)
    BY <2>3 DEF Below
  <2>5. KeyBefore(spans, s, t)
    BY <2>0, <2>4 DEF Below
  <2> QED BY <1>4, <2>5
<1> QED BY <1>4

(* EarliestOf is that span, and the only one.                               *)
LEMMA EarliestFirst ==
    ASSUME NEW spans, Clocked(spans), NEW S, S \subseteq DOMAIN spans, S # {}
    PROVE  /\ EarliestOf(spans, S) \in S
           /\ \A t \in S \ {EarliestOf(spans, S)} : KeyBefore(spans, EarliestOf(spans, S), t)
           /\ \A s \in S : (\A t \in S \ {s} : KeyBefore(spans, s, t))
                                => s = EarliestOf(spans, S)
<1> DEFINE Least(s) == \A t \in S \ {s} : KeyBefore(spans, s, t)
<1>4. \E s \in S : Least(s)
  BY LeastExists
<1>5. EarliestOf(spans, S) = CHOOSE x \in S : Least(x)
  BY DEF EarliestOf, KeyBefore
<1>6. EarliestOf(spans, S) \in S /\ Least(EarliestOf(spans, S))
  <2> HIDE DEF Least
  <2> QED BY <1>4, <1>5
<1>7. \A x, y \in S : Least(x) /\ Least(y) => x = y
  <2> SUFFICES ASSUME NEW x \in S, NEW y \in S, Least(x), Least(y), x # y PROVE FALSE
    OBVIOUS
  <2>1. KeyBefore(spans, x, y) /\ KeyBefore(spans, y, x)
    OBVIOUS
  <2> QED BY <2>1, KeyTotal
<1> QED BY <1>6, <1>7

-----------------------------------------------------------------------------
(* SortedByStart *)

First(spans, S) == [T \in SUBSET S |-> EarliestOf(spans, T)]

LEMMA FirstPicks ==
    ASSUME NEW spans, Clocked(spans), NEW S, S \subseteq DOMAIN spans
    PROVE  Picks(S, {{}}, First(spans, S)) /\ IsFiniteSet(S)
<1>1. IsFiniteSet(S)
  BY FS_Subset DEF Clocked
<1>2. ASSUME NEW T \in SUBSET S, T \notin {{}}
      PROVE  First(spans, S)[T] \in T
  BY <1>2, EarliestFirst DEF First
<1> QED BY <1>1, <1>2 DEF Picks

Sorts(f, spans, S) ==
    /\ Lists(f, S, {{}}, First(spans, S))
    /\ \A T \in SUBSET S : f[T] = IF T = {} THEN <<>>
            ELSE <<EarliestOf(spans, T)>> \o f[T \ {EarliestOf(spans, T)}]
    /\ SortedByStart(spans, S) = f[S]

LEMMA SortedIsList ==
    ASSUME NEW spans, Clocked(spans), NEW S, S \subseteq DOMAIN spans
    PROVE  \E f : Sorts(f, spans, S)
<1> DEFINE Value(f, T) == IF T = {} THEN <<>>
               ELSE LET s == EarliestOf(spans, T) IN <<s>> \o f[T \ {s}]
           Solves(f) == f = [T \in SUBSET S |-> Value(f, T)]
<1>1. ASSUME NEW f PROVE Lists(f, S, {{}}, First(spans, S)) <=> Solves(f)
  <2> DEFINE Listed(T) == IF T \in {{}} THEN <<>>
                ELSE <<First(spans, S)[T]>> \o f[T \ {First(spans, S)[T]}]
  <2>1. \A T \in SUBSET S : Listed(T) = Value(f, T)
    BY DEF First
  <2>2. [T \in SUBSET S |-> Listed(T)] = [T \in SUBSET S |-> Value(f, T)]
    <3> HIDE DEF Listed, Value
    <3> QED BY <2>1, Zenon
  <2>3. Lists(f, S, {{}}, First(spans, S)) <=> f = [T \in SUBSET S |-> Listed(T)]
    BY DEF Lists
  <2> HIDE DEF Listed, Value
  <2> QED BY <2>2, <2>3
<1>2. \E f : Solves(f)
  <2> HIDE DEF Solves
  <2> QED BY <1>1, ListExists, FirstPicks
<1> DEFINE g == CHOOSE f : Solves(f)
<1>3. Solves(g)
  <2> HIDE DEF Solves
  <2> QED BY <1>2, Zenon
<1>4. SortedByStart(spans, S) = g[S]
  BY DEF SortedByStart
<1>5. \A T \in SUBSET S : g[T] = Value(g, T)
  <2> HIDE DEF g, Value
  <2> QED BY <1>3
<1>6. Lists(g, S, {{}}, First(spans, S))
  <2> HIDE DEF Solves, g
  <2> QED BY <1>1, <1>3
<1> HIDE DEF Solves, g
<1>7. Sorts(g, spans, S)
  BY <1>4, <1>5, <1>6 DEF Sorts
<1> QED BY <1>7

(* Every element comes before those that follow it. *)
Ascending(spans, q) ==
    \A i, j \in DOMAIN q : i < j => KeyBefore(spans, q[i], q[j])

LEMMA AscendingInFront ==
    ASSUME NEW spans, NEW x, NEW q, NEW r, Shifted(r, x, q),
           Ascending(spans, q), \A y \in Range(q) : KeyBefore(spans, x, y)
    PROVE  Ascending(spans, r)
<1> SUFFICES ASSUME NEW i \in DOMAIN r, NEW j \in DOMAIN r, i < j
             PROVE  KeyBefore(spans, r[i], r[j])
  BY DEF Ascending
<1>1. (i = 1 \/ i \in 2..(Len(q) + 1)) /\ j \in 2..(Len(q) + 1)
  BY DEF Shifted
<1>2. j - 1 \in DOMAIN q /\ r[j] = q[j - 1]
  BY <1>1 DEF Shifted
<1>3. CASE i = 1
  <2>1. q[j - 1] \in Range(q) /\ r[1] = x
    BY <1>2 DEF Range, Shifted
  <2> QED BY <1>2, <1>3, <2>1
<1>4. CASE i \in 2..(Len(q) + 1)
  <2>1. i - 1 \in DOMAIN q /\ r[i] = q[i - 1]
    BY <1>4 DEF Shifted
  <2>2. i - 1 < j - 1
    BY <1>1, <1>4 DEF Shifted
  <2> QED BY <1>2, <2>1, <2>2 DEF Ascending
<1> QED BY <1>1, <1>3, <1>4

(* SortedByStart lists a set of spans in key order. *)
LEMMA SortedSpans ==
    ASSUME NEW spans, Clocked(spans), NEW S, S \subseteq DOMAIN spans
    PROVE  LET q == SortedByStart(spans, S)
           IN  q \in Seq(S) /\ Distinct(q) /\ Range(q) = S /\ Ascending(spans, q)
<1>0. PICK f : Sorts(f, spans, S)
  BY SortedIsList
<1>1. /\ Lists(f, S, {{}}, First(spans, S))
      /\ \A T \in SUBSET S : f[T] = IF T = {} THEN <<>>
            ELSE <<EarliestOf(spans, T)>> \o f[T \ {EarliestOf(spans, T)}]
      /\ SortedByStart(spans, S) = f[S]
  BY <1>0 DEF Sorts
<1>2. ASSUME NEW T \in SUBSET S
      PROVE  f[T] \in Seq(T) /\ Distinct(f[T]) /\ Range(f[T]) = T
  <2>1. f[T] \in Seq(T) /\ Distinct(f[T]) /\ T \ Range(f[T]) \in {{}}
    BY <1>1, FirstPicks, ListShape
  <2>2. Range(f[T]) \subseteq T
    BY <2>1 DEF Range
  <2> QED BY <2>1, <2>2
<1> DEFINE Bad == {T \in SUBSET S : ~Ascending(spans, f[T])}
<1>3. ASSUME Bad # {} PROVE FALSE
  <2>1. PICK T \in Bad : \A Y \in Bad : Y \subseteq T => Y = T
    <3>1. Bad \subseteq SUBSET S /\ IsFiniteSet(S)
      BY FirstPicks
    <3> HIDE DEF Bad
    <3> QED BY <1>3, <3>1, FiniteMinimal
  <2>2. T \in SUBSET S /\ ~Ascending(spans, f[T])
    OBVIOUS
  <2>3. T # {}
    <3>1. CASE T = {}
      <4>1. f[T] = <<>>
        BY <1>1, <2>2, <3>1
      <4> QED BY <2>2, <4>1 DEF Ascending
    <3> QED BY <3>1
  <2> DEFINE x == EarliestOf(spans, T)
  <2>4. x \in T /\ \A y \in T \ {x} : KeyBefore(spans, x, y)
    BY <2>2, <2>3, EarliestFirst
  <2>5. f[T] = <<x>> \o f[T \ {x}]
    BY <1>1, <2>2, <2>3
  <2>6. T \ {x} \in SUBSET S /\ T \ {x} \notin Bad
    BY <2>1, <2>2, <2>4
  <2>7. Ascending(spans, f[T \ {x}])
    BY <2>6
  <2>8. f[T \ {x}] \in Seq(T \ {x}) /\ Range(f[T \ {x}]) = T \ {x}
    BY <1>2, <2>6
  <2> HIDE DEF x, Bad
  <2>9. Shifted(f[T], x, f[T \ {x}])
    <3>1. IsList(f[T \ {x}]) /\ Front(f[T], x, f[T \ {x}])
      BY <2>5, <2>8 DEF IsList, Front
    <3> QED BY <3>1, InFront
  <2> QED BY <2>2, <2>4, <2>7, <2>8, <2>9, AscendingInFront
<1>4. Ascending(spans, f[S])
  <2>1. S \in SUBSET S
    OBVIOUS
  <2> QED BY <1>3, <2>1
<1> QED BY <1>1, <1>2, <1>4

(* And it is the only such list. *)
LEMMA AscendingUnique ==
    ASSUME NEW spans, Clocked(spans), NEW S, S \subseteq DOMAIN spans,
           NEW r \in Seq(S), Range(r) = S, Ascending(spans, r)
    PROVE  r = SortedByStart(spans, S)
<1>0. PICK f : Sorts(f, spans, S)
  BY SortedIsList
<1>1. /\ Lists(f, S, {{}}, First(spans, S))
      /\ \A T \in SUBSET S : f[T] = IF T = {} THEN <<>>
            ELSE <<EarliestOf(spans, T)>> \o f[T \ {EarliestOf(spans, T)}]
      /\ SortedByStart(spans, S) = f[S]
  BY <1>0 DEF Sorts
<1> DEFINE Listing(q, T) == q \in Seq(T) /\ Range(q) = T /\ Ascending(spans, q)
           Bad == {T \in SUBSET S : \E q : Listing(q, T) /\ q # f[T]}
<1>2. ASSUME Bad # {} PROVE FALSE
  <2>1. PICK T \in Bad : \A Y \in Bad : Y \subseteq T => Y = T
    <3>1. Bad \subseteq SUBSET S /\ IsFiniteSet(S)
      BY FirstPicks
    <3> HIDE DEF Bad
    <3> QED BY <1>2, <3>1, FiniteMinimal
  <2>2. PICK q : T \in SUBSET S /\ Listing(q, T) /\ q # f[T]
    OBVIOUS
  <2>3. Len(q) \in Nat /\ DOMAIN q = 1..Len(q) /\ \A i \in 1..Len(q) : q[i] \in T
    BY <2>2
  <2>0. \A y \in T : \E i \in 1..Len(q) : y = q[i]
    BY <2>2, <2>3 DEF Range
  <2>4. CASE T = {}
    <3>1. Len(q) = 0
      <4>1. 1 \notin 1..Len(q)
        BY <2>3, <2>4, Zenon
      <4> QED BY <2>3, <4>1
    <3>2. q = <<>>
      BY <2>2, <3>1
    <3>3. f[T] = <<>>
      BY <1>1, <2>2, <2>4
    <3> QED BY <2>2, <3>2, <3>3
  <2>5. CASE T # {}
    <3>1. Len(q) >= 1
      <4>1. PICK y \in T : TRUE
        BY <2>5
      <4> QED BY <2>0, <2>3, <4>1
    <3> DEFINE x == q[1]
               rest == Tail(q)
    <3>2. /\ q = <<x>> \o rest
          /\ Len(rest) = Len(q) - 1 /\ DOMAIN rest = 1..(Len(q) - 1)
          /\ \A i \in 1..(Len(q) - 1) : rest[i] = q[i + 1]
      BY <2>2, <3>1
    <3>3. x \in T /\ \A i \in 2..Len(q) : KeyBefore(spans, x, q[i])
      BY <2>2, <2>3, <3>1 DEF Ascending
    <3>4. \A i \in 2..Len(q) : q[i] # x
      <4>1. x \in DOMAIN spans
        BY <2>2, <3>3
      <4>2. ~KeyBefore(spans, x, x)
        BY <4>1, KeyTotal
      <4> HIDE DEF x
      <4> QED BY <3>3, <4>2
    <3>5. \A y \in T \ {x} : KeyBefore(spans, x, y)
      <4> TAKE y \in T \ {x}
      <4>1. PICK i \in DOMAIN q : y = q[i]
        BY <2>2 DEF Range
      <4>2. i \in 2..Len(q)
        BY <2>3, <4>1
      <4> QED BY <3>3, <4>1, <4>2
    <3>6. x = EarliestOf(spans, T)
      <4>1. T \subseteq DOMAIN spans
        BY <2>2
      <4> HIDE DEF x
      <4> QED BY <2>5, <3>3, <3>5, <4>1, EarliestFirst
    <3>7. Listing(rest, T \ {x})
      <4>1. \A i \in DOMAIN rest : rest[i] \in T \ {x}
        BY <2>3, <3>2, <3>4
      <4>2. rest \in Seq(T \ {x})
        <5>1. rest \in Seq(T)
          BY <2>2, <3>1
        <5> HIDE DEF rest, x
        <5>2. rest = [i \in 1..(Len(q) - 1) |-> rest[i]]
          BY <3>2, <5>1
        <5>3. rest \in [1..(Len(q) - 1) -> T \ {x}]
          BY <3>2, <4>1, <5>2
        <5>4. Len(q) - 1 \in Nat
          BY <2>3, <3>1
        <5> QED BY <5>3, <5>4, SeqDef
      <4>3. ASSUME NEW y \in T \ {x}
            PROVE  y \in Range(rest)
        <5>1. PICK i \in 1..Len(q) : y = q[i]
          BY <2>0
        <5>2. i - 1 \in 1..(Len(q) - 1) /\ (i - 1) + 1 = i
          BY <2>3, <5>1
        <5> HIDE DEF rest
        <5>3. i - 1 \in DOMAIN rest /\ rest[i - 1] = y
          BY <3>2, <5>1, <5>2
        <5> QED BY <5>3 DEF Range
      <4>4. Range(rest) \subseteq T \ {x}
        BY <4>1 DEF Range
      <4>5. Ascending(spans, rest)
        <5> SUFFICES ASSUME NEW i \in DOMAIN rest, NEW j \in DOMAIN rest, i < j
                     PROVE  KeyBefore(spans, rest[i], rest[j])
          BY DEF Ascending
        <5>1. /\ i + 1 \in DOMAIN q /\ j + 1 \in DOMAIN q /\ i + 1 < j + 1
              /\ rest[i] = q[i + 1] /\ rest[j] = q[j + 1]
          BY <2>3, <3>2
        <5> HIDE DEF rest, x
        <5> QED BY <2>2, <5>1 DEF Ascending
      <4> QED BY <4>2, <4>3, <4>4, <4>5
    <3>8. rest = f[T \ {x}]
      <4>1. T \ {x} \in SUBSET S /\ T \ {x} \subseteq T /\ T \ {x} # T
        BY <2>2, <3>3
      <4>2. T \ {x} \notin Bad
        <5> HIDE DEF Bad, x
        <5> QED BY <2>1, <4>1
      <4> HIDE DEF Listing, rest, x
      <4> QED BY <3>7, <4>1, <4>2
    <3>9. f[T] = <<x>> \o f[T \ {x}]
      BY <1>1, <2>2, <2>5, <3>6
    <3> HIDE DEF x, rest
    <3> QED BY <2>2, <3>2, <3>8, <3>9
  <2> QED BY <2>4, <2>5
<1>3. S \in SUBSET S /\ Listing(r, S)
  OBVIOUS
<1>4. r = f[S]
  <2> HIDE DEF Listing
  <2> QED BY <1>2, <1>3
<1> QED BY <1>1, <1>4
-----------------------------------------------------------------------------
(* KahnOrder *)

(* The spans that may follow those in placed. *)
ReadyAfter(spans, placed) ==
    {s \in DOMAIN spans \ placed : CausesOf(spans, s) \subseteq placed}

Stuck(spans) ==
    {T \in SUBSET DOMAIN spans : ReadyAfter(spans, DOMAIN spans \ T) = {}}

NextPlaced(spans) ==
    [T \in SUBSET DOMAIN spans |-> EarliestOf(spans, ReadyAfter(spans, DOMAIN spans \ T))]

(* step of KahnOrder: what follows when placed has been ordered. *)
Steps(g, spans) ==
    /\ \A placed \in SUBSET DOMAIN spans :
            g[placed] = IF ReadyAfter(spans, placed) = {} THEN <<>>
                        ELSE LET s == EarliestOf(spans, ReadyAfter(spans, placed))
                             IN  <<s>> \o g[placed \cup {s}]
    /\ KahnOrder(spans) = g[{}]

LEMMA NextPicks ==
    ASSUME NEW spans, Clocked(spans)
    PROVE  Picks(DOMAIN spans, Stuck(spans), NextPlaced(spans))
<1> SUFFICES ASSUME NEW T \in SUBSET DOMAIN spans, T \notin Stuck(spans)
             PROVE  NextPlaced(spans)[T] \in T
  BY DEF Picks
<1> DEFINE R == ReadyAfter(spans, DOMAIN spans \ T)
<1>1. R # {} /\ R \subseteq DOMAIN spans /\ R \subseteq T
  BY DEF Stuck, ReadyAfter
<1>2. EarliestOf(spans, R) \in R
  <2> HIDE DEF R
  <2> QED BY <1>1, EarliestFirst
<1> QED BY <1>1, <1>2 DEF NextPlaced

LEMMA KahnSteps ==
    ASSUME NEW spans, Clocked(spans)
    PROVE  \E g : Steps(g, spans)
<1> DEFINE D == DOMAIN spans
           Value(g, placed) ==
               LET ready == {s \in DOMAIN spans \ placed : CausesOf(spans, s) \subseteq placed}
               IN  IF ready = {} THEN <<>>
                   ELSE LET s == EarliestOf(spans, ready) IN <<s>> \o g[placed \cup {s}]
           Solves(g) == g = [placed \in SUBSET DOMAIN spans |-> Value(g, placed)]
<1>1. PICK f : Lists(f, D, Stuck(spans), NextPlaced(spans))
  <2>1. IsFiniteSet(DOMAIN spans)
    BY DEF Clocked
  <2> QED BY <2>1, ListExists, NextPicks
<1>2. Solves([placed \in SUBSET D |-> f[D \ placed]])
  <2> DEFINE h == [placed \in SUBSET D |-> f[D \ placed]]
  <2>1. ASSUME NEW placed \in SUBSET D
        PROVE  h[placed] = Value(h, placed)
    <3> DEFINE T == D \ placed
               R == ReadyAfter(spans, placed)
               s == EarliestOf(spans, R)
    <3>1. T \in SUBSET D /\ D \ T = placed
      OBVIOUS
    <3>2. f[T] = IF T \in Stuck(spans) THEN <<>>
                 ELSE <<NextPlaced(spans)[T]>> \o f[T \ {NextPlaced(spans)[T]}]
      BY <1>1, <3>1 DEF Lists
    <3>3. (T \in Stuck(spans) <=> R = {}) /\ NextPlaced(spans)[T] = s
      BY <3>1 DEF Stuck, NextPlaced
    <3>4. R # {} => s \in D
      <4>1. R \subseteq DOMAIN spans
        BY DEF ReadyAfter
      <4> HIDE DEF R
      <4> QED BY <4>1, EarliestFirst
    <3>5. R # {} => /\ h[placed \cup {s}] = f[T \ {s}]
      <4>1. T \ {s} = D \ (placed \cup {s})
        OBVIOUS
      <4>2. R # {} => placed \cup {s} \in SUBSET D
        BY <3>4
      <4> HIDE DEF s, R, T
      <4> QED BY <4>1, <4>2
    <3>6. Value(h, placed) = IF R = {} THEN <<>> ELSE <<s>> \o h[placed \cup {s}]
      BY DEF ReadyAfter
    <3>7. h[placed] = f[T]
      OBVIOUS
    <3> HIDE DEF h, s, R, T, Value
    <3> QED BY <3>2, <3>3, <3>5, <3>6, <3>7
  <2>2. h = [placed \in SUBSET D |-> h[placed]]
    OBVIOUS
  <2> HIDE DEF h, Value
  <2>3. h = [placed \in SUBSET DOMAIN spans |-> Value(h, placed)]
    BY <2>1, <2>2, Zenon
  <2> QED BY <2>3 DEF h
<1> DEFINE g == CHOOSE h : Solves(h)
<1>3. Solves(g)
  <2> HIDE DEF Solves
  <2> QED BY <1>2, Zenon
<1>4. KahnOrder(spans) = g[{}]
  BY DEF KahnOrder
<1>5. \A placed \in SUBSET DOMAIN spans : g[placed] = Value(g, placed)
  <2> HIDE DEF g, Value
  <2> QED BY <1>3
<1>6. \A placed \in SUBSET DOMAIN spans :
            g[placed] = IF ReadyAfter(spans, placed) = {} THEN <<>>
                        ELSE LET s == EarliestOf(spans, ReadyAfter(spans, placed))
                             IN  <<s>> \o g[placed \cup {s}]
  <2> HIDE DEF g
  <2> QED BY <1>5 DEF ReadyAfter
<1> HIDE DEF g
<1>7. Steps(g, spans)
  BY <1>4, <1>6 DEF Steps
<1> QED BY <1>7
(* Each span of q follows its causes, those in placed aside. *)
Follows(spans, q, placed) ==
    \A i \in DOMAIN q : CausesOf(spans, q[i]) \subseteq placed \cup {q[j] : j \in 1..(i - 1)}

LEMMA FollowsInFront ==
    ASSUME NEW spans, NEW x, NEW q, NEW r, Shifted(r, x, q), NEW placed,
           CausesOf(spans, x) \subseteq placed,
           Follows(spans, q, placed \cup {x})
    PROVE  Follows(spans, r, placed)
<1> SUFFICES ASSUME NEW i \in DOMAIN r, NEW p \in CausesOf(spans, r[i]), p \notin placed
             PROVE  p \in {r[j] : j \in 1..(i - 1)}
  BY DEF Follows
<1>1. i = 1 \/ i \in 2..(Len(q) + 1)
  BY DEF Shifted
<1>2. CASE i = 1
  BY <1>2 DEF Shifted
<1>3. CASE i \in 2..(Len(q) + 1)
  <2>1. i - 1 \in DOMAIN q /\ r[i] = q[i - 1]
    BY <1>3 DEF Shifted
  <2>2. p = x \/ \E j \in 1..((i - 1) - 1) : p = q[j]
    BY <2>1 DEF Follows
  <2>3. CASE p = x
    <3>1. 1 \in 1..(i - 1) /\ r[1] = p
      BY <1>3, <2>3 DEF Shifted
    <3> QED BY <3>1
  <2>4. CASE \E j \in 1..((i - 1) - 1) : p = q[j]
    <3>1. PICK j \in 1..((i - 1) - 1) : p = q[j]
      BY <2>4
    <3>2. j \in 1..Len(q) /\ j + 1 \in 1..(i - 1)
      BY <1>3, <3>1 DEF Shifted
    <3>3. r[j + 1] = p
      BY <3>1, <3>2 DEF Shifted
    <3> QED BY <3>2, <3>3
  <2> QED BY <2>2, <2>3, <2>4
<1> QED BY <1>1, <1>2, <1>3

(* One step, seen from the spans that are left. *)
LEMMA KahnStep ==
    ASSUME NEW spans, Clocked(spans), NEW g, Steps(g, spans), NEW T \in SUBSET DOMAIN spans
    PROVE  IF T \in Stuck(spans) THEN g[DOMAIN spans \ T] = <<>>
           ELSE LET s == NextPlaced(spans)[T]
                IN  /\ s \in T
                    /\ CausesOf(spans, s) \subseteq DOMAIN spans \ T
                    /\ DOMAIN spans \ (T \ {s}) = (DOMAIN spans \ T) \cup {s}
                    /\ g[DOMAIN spans \ T] = <<s>> \o g[DOMAIN spans \ (T \ {s})]
<1> DEFINE placed == DOMAIN spans \ T
           R == ReadyAfter(spans, placed)
           s == EarliestOf(spans, R)
<1>1. placed \in SUBSET DOMAIN spans
  OBVIOUS
<1>2. (T \in Stuck(spans) <=> R = {}) /\ NextPlaced(spans)[T] = s
  BY DEF Stuck, NextPlaced
<1>3. g[placed] = IF R = {} THEN <<>> ELSE <<s>> \o g[placed \cup {s}]
  BY <1>1 DEF Steps
<1>4. ASSUME R # {}
      PROVE  /\ s \in T
             /\ CausesOf(spans, s) \subseteq placed
             /\ DOMAIN spans \ (T \ {s}) = placed \cup {s}
  <2>1. R \subseteq DOMAIN spans
    BY DEF ReadyAfter
  <2>2. s \in R
    <3> HIDE DEF R
    <3> QED BY <1>4, <2>1, EarliestFirst
  <2>3. s \in T /\ CausesOf(spans, s) \subseteq placed
    <3> HIDE DEF s
    <3> QED BY <2>2 DEF ReadyAfter
  <2> HIDE DEF s
  <2> QED BY <2>3
<1>5. CASE R = {}
  BY <1>2, <1>3, <1>5
<1>6. CASE R # {}
  <2>1. T \notin Stuck(spans)
    BY <1>2, <1>6
  <2>2. g[placed] = <<s>> \o g[DOMAIN spans \ (T \ {s})]
    BY <1>3, <1>4, <1>6
  <2> HIDE DEF s, R
  <2> QED BY <1>2, <1>4, <1>6, <2>1, <2>2
<1> QED BY <1>5, <1>6

LEMMA KahnLists ==
    ASSUME NEW spans, Clocked(spans), NEW g, Steps(g, spans)
    PROVE  Lists([T \in SUBSET DOMAIN spans |-> g[DOMAIN spans \ T]],
                 DOMAIN spans, Stuck(spans), NextPlaced(spans))
<1> DEFINE D == DOMAIN spans
           f == [T \in SUBSET D |-> g[D \ T]]
           Value(T) == IF T \in Stuck(spans) THEN <<>>
                       ELSE <<NextPlaced(spans)[T]>> \o f[T \ {NextPlaced(spans)[T]}]
<1>1. ASSUME NEW T \in SUBSET D
      PROVE  f[T] = Value(T)
  <2>1. f[T] = g[D \ T]
    OBVIOUS
  <2>2. CASE T \in Stuck(spans)
    BY <2>1, <2>2, KahnStep
  <2>3. CASE T \notin Stuck(spans)
    <3> DEFINE s == NextPlaced(spans)[T]
    <3>1. g[D \ T] = <<s>> \o g[D \ (T \ {s})]
      BY <2>3, KahnStep
    <3>2. f[T \ {s}] = g[D \ (T \ {s})]
      <4>1. T \ {s} \in SUBSET D
        OBVIOUS
      <4> HIDE DEF s
      <4> QED BY <4>1
    <3> HIDE DEF f
    <3> QED BY <2>1, <2>3, <3>1, <3>2
  <2> QED BY <2>2, <2>3
<1>2. f = [T \in SUBSET D |-> f[T]]
  OBVIOUS
<1>3. f = [T \in SUBSET D |-> Value(T)]
  <2> HIDE DEF f, Value
  <2> QED BY <1>1, <1>2, Zenon
<1> QED BY <1>3 DEF Lists

(* KahnOrder places distinct spans, each after all its causes, and stops    *)
(* when every span that is left waits for another that is left.             *)
LEMMA KahnOrders ==
    ASSUME NEW spans, Clocked(spans)
    PROVE  LET kahn == KahnOrder(spans)
           IN  /\ kahn \in Seq(DOMAIN spans)
               /\ Distinct(kahn)
               /\ ReadyAfter(spans, Range(kahn)) = {}
               /\ Follows(spans, kahn, {})
<1> DEFINE D == DOMAIN spans
<1>1. PICK g : Steps(g, spans)
  BY KahnSteps
<1> DEFINE f == [T \in SUBSET D |-> g[D \ T]]
<1>2. Lists(f, D, Stuck(spans), NextPlaced(spans)) /\ IsFiniteSet(D)
  BY <1>1, KahnLists DEF Clocked
<1>3. \A T \in SUBSET D : f[T] = g[D \ T]
  OBVIOUS
<1> HIDE DEF f
<1>4. ASSUME NEW T \in SUBSET D
      PROVE  f[T] \in Seq(T) /\ Distinct(f[T]) /\ T \ Range(f[T]) \in Stuck(spans)
  BY <1>2, NextPicks, ListShape
<1> DEFINE Bad == {T \in SUBSET D : ~Follows(spans, f[T], D \ T)}
<1>5. ASSUME Bad # {} PROVE FALSE
  <2>1. PICK T \in Bad : \A Y \in Bad : Y \subseteq T => Y = T
    <3>1. Bad \subseteq SUBSET D
      OBVIOUS
    <3> HIDE DEF Bad
    <3> QED BY <1>2, <1>5, <3>1, FiniteMinimal
  <2>2. T \in SUBSET D /\ ~Follows(spans, f[T], D \ T)
    OBVIOUS
  <2>3. T \notin Stuck(spans)
    <3>1. CASE T \in Stuck(spans)
      <4>1. f[T] = <<>>
        BY <1>1, <1>3, <2>2, <3>1, KahnStep
      <4> QED BY <2>2, <4>1 DEF Follows
    <3> QED BY <3>1
  <2> DEFINE x == NextPlaced(spans)[T]
             q == f[T \ {x}]
  <2>4. /\ x \in T
        /\ CausesOf(spans, x) \subseteq D \ T
        /\ D \ (T \ {x}) = (D \ T) \cup {x}
        /\ g[D \ T] = <<x>> \o g[D \ (T \ {x})]
    BY <1>1, <2>2, <2>3, KahnStep
  <2>5. T \ {x} \in SUBSET D /\ T \ {x} \notin Bad
    <3> HIDE DEF x, Bad
    <3> QED BY <2>1, <2>2, <2>4
  <2>6. Follows(spans, q, (D \ T) \cup {x})
    BY <2>4, <2>5
  <2>7. q \in Seq(T \ {x})
    BY <1>4, <2>5
  <2>8. Shifted(f[T], x, q)
    <3>1. f[T] = <<x>> \o q
      BY <1>3, <2>2, <2>4, <2>5
    <3> HIDE DEF x, q
    <3>2. IsList(q) /\ Front(f[T], x, q)
      BY <2>7, <3>1 DEF IsList, Front
    <3> QED BY <3>2, InFront
  <2> HIDE DEF x, q
  <2> QED BY <2>2, <2>4, <2>6, <2>8, FollowsInFront
<1>6. KahnOrder(spans) = f[D] /\ D \ D = {} /\ D \in SUBSET D
  BY <1>1, <1>3 DEF Steps
<1>7. Follows(spans, f[D], {})
  BY <1>5, <1>6
<1>8. f[D] \in Seq(D) /\ Distinct(f[D]) /\ D \ Range(f[D]) \in Stuck(spans)
  BY <1>4, <1>6
<1>9. ReadyAfter(spans, Range(f[D])) = {}
  <2>1. Range(f[D]) \subseteq D
    BY <1>8 DEF Range
  <2>2. D \ (D \ Range(f[D])) = Range(f[D])
    BY <2>1
  <2> QED BY <1>8, <2>2 DEF Stuck
<1> QED BY <1>6, <1>7, <1>8, <1>9
(* SpanOrder enumerates the spans.  When every span could be placed it is   *)
(* the order of KahnOrder.                                                  *)
LEMMA SpanOrderEnumerates ==
    ASSUME NEW spans, Clocked(spans)
    PROVE  /\ SpanOrder(spans) \in Seq(DOMAIN spans)
           /\ Distinct(SpanOrder(spans))
           /\ Range(SpanOrder(spans)) = DOMAIN spans
           /\ Range(KahnOrder(spans)) = DOMAIN spans
                => SpanOrder(spans) = KahnOrder(spans)
<1> DEFINE D == DOMAIN spans
           kahn == KahnOrder(spans)
           left == D \ Range(kahn)
           rest == SortedByStart(spans, left)
           order == kahn \o rest
<1>1. kahn \in Seq(D) /\ Distinct(kahn)
  BY KahnOrders
<1>2. rest \in Seq(left) /\ Distinct(rest) /\ Range(rest) = left
  <2>1. left \subseteq D
    OBVIOUS
  <2> HIDE DEF left
  <2> QED BY <2>1, SortedSpans
<1>3. order = SpanOrder(spans)
  BY DEF SpanOrder
<1> HIDE DEF kahn, rest
<1>4. rest \in Seq(D) /\ Range(kahn) \subseteq D
  BY <1>1, <1>2 DEF Range
<1>5. /\ order \in Seq(D)
      /\ Len(kahn) \in Nat /\ DOMAIN kahn = 1..Len(kahn)
      /\ Len(rest) \in Nat /\ DOMAIN rest = 1..Len(rest)
      /\ DOMAIN order = 1..(Len(kahn) + Len(rest))
      /\ \A i \in 1..Len(kahn) : order[i] = kahn[i]
      /\ \A i \in 1..Len(rest) : order[Len(kahn) + i] = rest[i]
  BY <1>1, <1>4
<1> HIDE DEF order
<1>6. \A i \in DOMAIN order :
        \/ i \in DOMAIN kahn /\ order[i] = kahn[i] /\ order[i] \in Range(kahn)
        \/ /\ i - Len(kahn) \in DOMAIN rest
           /\ order[i] = rest[i - Len(kahn)]
           /\ order[i] \in left
  <2> TAKE i \in DOMAIN order
  <2>1. CASE i \in 1..Len(kahn)
    BY <1>5, <2>1 DEF Range
  <2>2. CASE i \notin 1..Len(kahn)
    <3>1. i - Len(kahn) \in 1..Len(rest) /\ Len(kahn) + (i - Len(kahn)) = i
      BY <1>5, <2>2
    <3>2. order[i] = rest[i - Len(kahn)]
      BY <1>5, <3>1
    <3> QED BY <1>2, <1>5, <3>1, <3>2 DEF Range
  <2> QED BY <2>1, <2>2
<1>7. Distinct(order)
  <2> SUFFICES ASSUME NEW i \in DOMAIN order, NEW j \in DOMAIN order, order[i] = order[j]
               PROVE  i = j
    BY DEF Distinct
  <2>1. CASE order[i] \in Range(kahn)
    BY <1>1, <1>6, <2>1 DEF Distinct
  <2>2. CASE order[i] \notin Range(kahn)
    <3>1. i - Len(kahn) \in DOMAIN rest /\ j - Len(kahn) \in DOMAIN rest
          /\ rest[i - Len(kahn)] = rest[j - Len(kahn)]
      BY <1>6, <2>2
    <3>2. i - Len(kahn) = j - Len(kahn)
      BY <1>2, <3>1 DEF Distinct
    <3> QED BY <1>5, <3>1, <3>2
  <2> QED BY <2>1, <2>2
<1>8. Range(order) = D
  <2>1. Range(order) \subseteq D
    BY <1>5 DEF Range
  <2>2. ASSUME NEW x \in Range(kahn) PROVE x \in Range(order)
    <3>1. PICK i \in 1..Len(kahn) : x = kahn[i]
      BY <1>5 DEF Range
    <3>2. i \in DOMAIN order /\ order[i] = x
      BY <1>5, <3>1
    <3> QED BY <3>2 DEF Range
  <2>3. ASSUME NEW x \in left PROVE x \in Range(order)
    <3>1. PICK i \in 1..Len(rest) : x = rest[i]
      BY <1>2, <1>5 DEF Range
    <3>2. Len(kahn) + i \in DOMAIN order /\ order[Len(kahn) + i] = x
      BY <1>5, <3>1
    <3> QED BY <3>2 DEF Range
  <2> QED BY <2>1, <2>2, <2>3
<1>9. Range(kahn) = D => order = kahn
  <2> SUFFICES ASSUME Range(kahn) = D PROVE order = kahn
    OBVIOUS
  <2>1. Range(rest) = {}
    BY <1>2
  <2>2. Len(rest) = 0
    <3>1. 1 \notin DOMAIN rest
      BY <2>1 DEF Range
    <3> QED BY <1>5, <3>1
  <2>3. rest = <<>>
    BY <1>4, <2>2
  <2> QED BY <1>1, <2>3, ConcatEmptySeq DEF order
<1> QED BY <1>3, <1>5, <1>7, <1>8, <1>9 DEF kahn

(* What precedes a span of KahnOrder, with the span, contains the causes of *)
(* all its members.                                                         *)
LEMMA PrefixesClosed ==
    ASSUME NEW spans, Clocked(spans), NEW i \in DOMAIN KahnOrder(spans)
    PROVE  LET prefix == {KahnOrder(spans)[j] : j \in 1..i}
           IN  /\ prefix \subseteq DOMAIN spans
               /\ \A s \in prefix : CausesOf(spans, s) \subseteq prefix
<1> DEFINE kahn == KahnOrder(spans)
<1>1. kahn \in Seq(DOMAIN spans) /\ Follows(spans, kahn, {})
  BY KahnOrders
<1> HIDE DEF kahn
<1>2. i \in 1..Len(kahn) /\ DOMAIN kahn = 1..Len(kahn) /\ Len(kahn) \in Nat
  BY <1>1 DEF kahn
<1>3. ASSUME NEW j \in 1..i
      PROVE  /\ kahn[j] \in DOMAIN spans
             /\ CausesOf(spans, kahn[j]) \subseteq {kahn[k] : k \in 1..i}
  <2>1. j \in DOMAIN kahn
    BY <1>2
  <2>2. CausesOf(spans, kahn[j]) \subseteq {kahn[k] : k \in 1..(j - 1)}
    BY <1>1, <2>1 DEF Follows
  <2>3. 1..(j - 1) \subseteq 1..i
    BY <1>2
  <2> QED BY <1>1, <2>1, <2>2, <2>3
<1> QED BY <1>3 DEF kahn
================================================================================
